----------------------------- MODULE WavWriter -----------------------------
(***************************************************************************)
(* The streaming WAV writer of src/src/wav.rs: a header of zeros, the      *)
(* samples, and the header written again with the sizes when the writer is *)
(* finished or dropped.  Bytes are counted; the u32 arithmetic is that of  *)
(* the code, modulo Modulus (2^32), in a build without overflow checks.    *)
(* An operation either succeeds or fails; what the caller does then is the *)
(* caller's (CaptureCommand).                                              *)
(***************************************************************************)
EXTENDS Naturals

CONSTANTS
    Modulus,   \* 2^32, the sizes a u32 can hold
    RiffExtra  \* 36, what the RIFF size counts besides the samples

ASSUME WavAssumption ==
    /\ RiffExtra \in Nat /\ Modulus \in Nat /\ Modulus > RiffExtra

VARIABLES
    file,        \* "none", "open", or "closed" when finalize() has taken it
    written,     \* bytes of samples in the file
    data_bytes,  \* bytes of the frames that were written whole
    header       \* the sizes in the header; zeros until finalize()

wavVars == <<file, written, data_bytes, header>>

Sizes == [riff : 0 .. Modulus - 1, data : 0 .. Modulus - 1]
Zeros == [riff |-> 0, data |-> 0]

WavTypeOK ==
    /\ file \in {"none", "open", "closed"}
    /\ written \in Nat /\ data_bytes \in 0 .. Modulus - 1 /\ header \in Sizes

WavInit == file = "none" /\ written = 0 /\ data_bytes = 0 /\ header = Zeros

\* WavWriter::create: the file, then 44 bytes for the header.
Create ==
    /\ file = "none"
    /\ file' = "open"
    /\ UNCHANGED <<written, data_bytes, header>>

\* Fault: the size is not checked, in a counter that is wide enough.
WriteUnchecked(n) ==
    /\ file = "open"
    /\ written' = written + n /\ data_bytes' = data_bytes + n
    /\ UNCHANGED <<file, header>>

\* write_frame of n bytes: the size still fits a u32.
Write(n) ==
    /\ file = "open" /\ data_bytes + n < Modulus
    /\ written' = written + n /\ data_bytes' = data_bytes + n
    /\ UNCHANGED <<file, header>>

\* "WAV exceeds 4 GiB", before a byte of the frame is written.
WriteRefused(n) ==
    /\ file = "open" /\ data_bytes + n >= Modulus
    /\ UNCHANGED wavVars

\* An I/O error in the middle of a frame, which then does not count.
WriteFails(n) ==
    /\ file = "open" /\ data_bytes + n < Modulus
    /\ written' \in written .. written + n
    /\ UNCHANGED <<file, data_bytes, header>>

\* Fault: the header gets the size of the file's samples as they are.
FinalizeFromFile ==
    /\ file' = "closed"
    /\ header' = [riff |-> (RiffExtra + written) % Modulus, data |-> written]
    /\ UNCHANGED <<written, data_bytes>>

FinalHeader == [riff |-> (RiffExtra + data_bytes) % Modulus, data |-> data_bytes]

\* finalize(): finish(), and drop of a writer that was not finished.
Finalize ==
    /\ file' = "closed" /\ header' = FinalHeader
    /\ UNCHANGED <<written, data_bytes>>

\* The seek, the header or its flush fails; the BufWriter, dropped, may write a
\* buffered header after all.  The file is closed all the same.
FinalizeFails ==
    /\ file' = "closed" /\ header' \in {header, FinalHeader}
    /\ UNCHANGED <<written, data_bytes>>

\* Drop, where the result of finalize() is ignored and a taken file is left alone.
DropWriter ==
    \/ file = "open" /\ (Finalize \/ FinalizeFails)
    \/ file # "open" /\ UNCHANGED wavVars
=============================================================================
