-------------------------- MODULE SpeechNormalizer --------------------------
(***************************************************************************)
(* The conversion of captured frames into chunks of speech:                *)
(* src/src/audio/normalize.rs.  A mono sample is its number, 0 a sample of *)
(* silence that the converter adds.                                        *)
(*                                                                         *)
(* The resampler (rubato's SincFixedIn, external) takes blocks of          *)
(* ResamplerInput samples and answers Delay samples late; its ratio is     *)
(* left out, one sample goes in for one that comes out.  At 16 kHz there   *)
(* is no resampler.                                                        *)
(***************************************************************************)
EXTENDS Integers, Sequences, SequencesExt

CONSTANTS
    ResamplerInput,  \* RESAMPLER_INPUT_FRAMES
    Delay,           \* the resampler's delay, in samples
    ChunkSamples,    \* output_chunk_samples
    CompactAfter,    \* 4, the blocks or chunks after which a buffer is compacted
    Packets,         \* sizes of a captured frame, in samples of one channel
    MaxSamples       \* bound: samples pushed

ASSUME NormalizerAssumption ==
    /\ ResamplerInput \in Nat \ {0} /\ ChunkSamples \in Nat \ {0}  \* new() rejects zero
    /\ CompactAfter \in Nat \ {0}
    /\ Delay \in 0 .. ResamplerInput
    /\ Packets \subseteq Nat /\ MaxSamples \in Nat

VARIABLES
    resampling,               \* new() found an input that is not at 16 kHz
    mono_input, mono_offset,  \* samples in, and how many of them are used up
    held,                     \* the samples inside the resampler
    output, output_offset,    \* samples out, and how many of them are in chunks
    finished,
    pushed,                   \* history: number of samples pushed
    emitted                   \* history: the samples of all chunks returned

vars == <<resampling, mono_input, mono_offset, held, output, output_offset, finished,
          pushed, emitted>>

Silence(n) == [i \in 1 .. n |-> 0]
SamplesFrom(first, n) == [i \in 1 .. n |-> first + i - 1]
Rest(s, offset) == SubSeq(s, offset + 1, Len(s))

TypeOK ==
    /\ resampling \in BOOLEAN
    /\ mono_input \in Seq(0 .. MaxSamples) /\ mono_offset \in 0 .. Len(mono_input)
    /\ held \in Seq(0 .. MaxSamples) /\ Len(held) = IF resampling THEN Delay ELSE 0
    /\ output \in Seq(0 .. MaxSamples) /\ output_offset \in 0 .. Len(output)
    /\ finished \in BOOLEAN
    /\ pushed \in 0 .. MaxSamples /\ emitted \in Seq(0 .. MaxSamples)

Init ==
    /\ resampling \in BOOLEAN
    /\ mono_input = <<>> /\ mono_offset = 0
    /\ held = IF resampling THEN Silence(Delay) ELSE <<>>
    /\ output = <<>> /\ output_offset = 0
    /\ finished = FALSE /\ pushed = 0 /\ emitted = <<>>

-----------------------------------------------------------------------------
(* The steps of push() and finish(), each a function of a buffer: its       *)
(* samples and the offset of the first that is still needed.                *)

Buffer(samples, offset) == [samples |-> samples, offset |-> offset]

\* Fault: the samples go, and the offset stays.
CompactKeepsOffset(b, unit) ==
    IF b.offset >= CompactAfter * unit THEN Buffer(Rest(b.samples, b.offset), b.offset) ELSE b

\* Fault: a buffer only ever grows.
NeverCompacts(b, unit) == b

\* compact_buffers(), for one of the two.
Compact(b, unit) ==
    IF b.offset >= CompactAfter * unit THEN Buffer(Rest(b.samples, b.offset), 0) ELSE b

\* The samples of the whole units, blocks or chunks, that a buffer has to offer.
Whole(b, unit) == ((Len(b.samples) - b.offset) \div unit) * unit

\* What the resampler answers to xs, and what it then holds.
Resampled(xs) == SubSeq(held \o xs, 1, Len(xs))
HeldAfter(xs) == Rest(held \o xs, Len(xs))

\* process_complete_resampler_chunks takes this many of the buffered samples.
Ready(mono) ==
    IF resampling THEN Whole(mono, ResamplerInput) ELSE Len(mono.samples) - mono.offset

\* take_complete_output_chunks: the samples of the chunks.
WholeChunks(out) == SubSeq(out.samples, out.offset + 1, out.offset + Whole(out, ChunkSamples))

-----------------------------------------------------------------------------

\* push() of a frame of n samples, already down-mixed.
Push(n) ==
    LET mono  == Buffer(mono_input \o SamplesFrom(pushed + 1, n), mono_offset)
        taken == SubSeq(mono.samples, mono.offset + 1, mono.offset + Ready(mono))
        out   == Compact(Buffer(output \o Resampled(taken), output_offset), ChunkSamples)
        left  == Compact(Buffer(mono.samples, mono.offset + Ready(mono)), ResamplerInput)
        sent  == Compact(Buffer(out.samples, out.offset + Whole(out, ChunkSamples)),
                         ChunkSamples)
    IN
    /\ ~finished /\ pushed + n <= MaxSamples
    /\ pushed' = pushed + n
    /\ held' = HeldAfter(taken)
    /\ mono_input' = left.samples /\ mono_offset' = left.offset
    /\ output' = sent.samples /\ output_offset' = sent.offset
    /\ emitted' = emitted \o WholeChunks(out)
    /\ UNCHANGED <<resampling, finished>>

\* A last block or chunk, filled up with silence; nothing stays nothing.
Padded(xs, unit) ==
    IF xs = <<>> THEN xs ELSE xs \o Silence(unit - Len(xs))

\* Fault: finish() flushes the output only.
NothingLeft == <<>>

\* The samples that wait for a whole block.
LeftOver == Rest(mono_input, mono_offset)

\* finish(): the samples left go through the resampler in one padded block
\* (process_partial), or past it; the last chunk is padded.
FinishConversion ==
    LET taken == IF resampling THEN Padded(LeftOver, ResamplerInput) ELSE LeftOver
        out   == Buffer(output \o Resampled(taken), output_offset)
        tail  == Compact(Buffer(out.samples, out.offset + Whole(out, ChunkSamples)),
                         ChunkSamples)
        last  == Rest(tail.samples, tail.offset)
        done  == Compact(Buffer(tail.samples, Len(tail.samples)), ChunkSamples)
    IN
    /\ ~finished /\ finished' = TRUE
    /\ mono_input' = <<>> /\ mono_offset' = 0
    /\ held' = HeldAfter(taken)
    /\ emitted' = emitted \o WholeChunks(out) \o Padded(last, ChunkSamples)
    /\ output' = done.samples /\ output_offset' = done.offset
    /\ UNCHANGED <<resampling, pushed>>

Next == FinishConversion \/ \E n \in Packets : Push(n)

Spec == Init /\ [][Next]_vars

-----------------------------------------------------------------------------
(* What the converter promises *)

\* The speech as it was captured, after the silence that fills the resampler.
Speech == (IF resampling THEN Silence(Delay) ELSE <<>>) \o SamplesFrom(1, pushed)

\* No sample is lost, repeated or moved by the two buffers, their offsets and their
\* compaction, whatever the sizes of the frames: the chunks returned, the output,
\* the resampler and the input together hold the speech in order.
SpeechInOrder ==
    ~finished =>
        emitted \o Rest(output, output_offset) \o held \o Rest(mono_input, mono_offset) = Speech

\* Every chunk is whole, the last one included, and finish() leaves nothing back
\* but what the resampler still holds: the speech and silence after it.
FinishedSpeech ==
    /\ Len(emitted) % ChunkSamples = 0
    /\ finished =>
          /\ IsPrefix(SubSeq(Speech, 1, Len(Speech) - Len(held)), emitted)
          /\ \A i \in DOMAIN emitted : i > Len(Speech) => emitted[i] = 0

\* However long the recording, the buffers stay small: neither grows past the
\* samples that wait for a compaction and those of a block or chunk in the making.
BuffersBounded ==
    /\ Len(mono_input) < (CompactAfter + 1) * ResamplerInput
    /\ Len(output) < (CompactAfter + 1) * ChunkSamples
=============================================================================
