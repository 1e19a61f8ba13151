----------------------- MODULE SpeechNormalizer_proofs -----------------------
(***************************************************************************)
(* The samples are conserved by the two buffers of the normalizer, whose   *)
(* offsets are bounded because each operation leaves less than a block and *)
(* less than a chunk behind: for every size of packet, block and chunk.    *)
(***************************************************************************)
EXTENDS SpeechNormalizer, SampleLemmas

Sample == 0 .. MaxSamples

\* A sequence and nothing but silence behind it.
SilenceBehind(t, s) ==
    \E z \in Seq(Sample) : t = s \o z /\ \A i \in 1 .. Len(z) : z[i] = 0

-----------------------------------------------------------------------------
(* Sequences *)

\* A buffer cut at two places: what is used up, what is taken, what is left.
LEMMA TakenAndLeft ==
    ASSUME NEW s \in Seq(Sample), NEW o \in Nat, NEW r \in Nat, o + r <= Len(s)
    PROVE  /\ SubSeq(s, o + 1, o + r) \in Seq(Sample) /\ Len(SubSeq(s, o + 1, o + r)) = r
           /\ Rest(s, o) \in Seq(Sample) /\ Len(Rest(s, o)) = Len(s) - o
           /\ Rest(s, o + r) \in Seq(Sample) /\ Len(Rest(s, o + r)) = Len(s) - (o + r)
           /\ SubSeq(s, o + 1, o + r) \o Rest(s, o + r) = Rest(s, o)
<1>1. Len(s) \in Nat /\ \A i \in 1 .. Len(s) : s[i] \in Sample
  BY LenProperties, ElementOfSeq
<1>2. SubSeq(s, o + 1, o + r) \in Seq(Sample) /\ Len(SubSeq(s, o + 1, o + r)) = r
  BY <1>1, SubSeqProperties
<1>3. o \in Nat /\ o <= Len(s) /\ o + r \in Nat
  BY <1>1
<1>4. Rest(s, o) \in Seq(Sample) /\ Len(Rest(s, o)) = Len(s) - o
  BY <1>3, SplitSeq DEF Rest
<1>5. Rest(s, o + r) \in Seq(Sample) /\ Len(Rest(s, o + r)) = Len(s) - (o + r)
  BY <1>3, SplitSeq DEF Rest
<1>6. o + 1 \in 1 .. Len(s) + 1 /\ o + r \in (o + 1) - 1 .. Len(s) /\ Len(s) \in o + r .. Len(s)
  BY <1>1
<1>7. SubSeq(s, o + 1, o + r) \o SubSeq(s, (o + r) + 1, Len(s)) = SubSeq(s, o + 1, Len(s))
  BY <1>6, ConcatAdjacentSubSeq
<1> QED
  BY <1>2, <1>4, <1>5, <1>7 DEF Rest

\* What is added behind a buffer is behind what is still needed of it.
LEMMA RestGrows ==
    ASSUME NEW s \in Seq(Sample), NEW t \in Seq(Sample), NEW o \in Nat, o <= Len(s)
    PROVE  Rest(s \o t, o) = Rest(s, o) \o t
<1> DEFINE m == Len(s)  n == Len(t)  u == s \o t  q == Rest(s, o)  w == Rest(u, o)  v == q \o t
<1>1. /\ m \in Nat /\ n \in Nat /\ o <= m
      /\ u \in Seq(Sample) /\ Len(u) = m + n
      /\ \A i \in 1 .. m + n : u[i] = IF i <= m THEN s[i] ELSE t[i - m]
  BY LenProperties, ConcatProperties
<1>2. \A i \in o + 1 .. m : s[i] \in Sample
  BY <1>1, ElementOfSeq
<1>3. /\ q \in Seq(Sample) /\ Len(q) = m - o
      /\ \A i \in 1 .. m - o : q[i] = s[o + i]
  BY <1>1, <1>2, SubSeqProperties DEF Rest
<1>4. \A i \in o + 1 .. m + n : u[i] \in Sample
  BY <1>1, ElementOfSeq
<1> HIDE DEF u, q
<1>5. /\ w \in Seq(Sample) /\ Len(w) = (m + n) - o
      /\ \A i \in 1 .. (m + n) - o : w[i] = u[o + i]
  BY <1>1, <1>4, SubSeqProperties DEF Rest
<1>6. /\ v \in Seq(Sample) /\ Len(v) = Len(q) + n
      /\ \A i \in 1 .. Len(q) + n : v[i] = IF i <= Len(q) THEN q[i] ELSE t[i - Len(q)]
  BY <1>3, ConcatProperties
<1> HIDE DEF m, n, w, v
<1>7. \A i \in 1 .. (m + n) - o : w[i] = v[i]
  <2> TAKE i \in 1 .. (m + n) - o
  <2>1. /\ w[i] = IF o + i <= m THEN s[o + i] ELSE t[(o + i) - m]
        /\ v[i] = IF i <= m - o THEN q[i] ELSE t[i - (m - o)]
    <3>1. i \in 1 .. (m + n) - o /\ o + i \in 1 .. m + n /\ Len(q) + n = (m + n) - o
      BY <1>1, <1>3
    <3>2. w[i] = u[o + i] /\ u[o + i] = IF o + i <= m THEN s[o + i] ELSE t[(o + i) - m]
      BY <1>1, <1>5, <3>1
    <3>3. v[i] = IF i <= Len(q) THEN q[i] ELSE t[i - Len(q)]
      BY <1>6, <3>1
    <3> QED
      BY <1>3, <3>2, <3>3
  <2>2. CASE i <= m - o
    BY <1>1, <1>3, <2>1, <2>2
  <2>3. CASE ~(i <= m - o)
    <3>1. ~(o + i <= m) /\ (o + i) - m = i - (m - o)
      BY <1>1, <2>3
    <3> QED
      BY <2>1, <2>3, <3>1
  <2> QED
    BY <2>2, <2>3
<1>8. w = v
  BY <1>1, <1>3, <1>5, <1>6, <1>7, SeqEqual
<1> QED
  BY <1>8 DEF w, v, u, q

\* Silence and the numbers of the samples are sequences of samples.
LEMMA NumberedSamples ==
    ASSUME NEW n \in Nat
    PROVE  /\ Silence(n) \in Seq(Sample) /\ Len(Silence(n)) = n
           /\ \A i \in 1 .. n : Silence(n)[i] = 0
           /\ \A p \in Nat : p + n <= MaxSamples =>
                 /\ SamplesFrom(p + 1, n) \in Seq(Sample)
                 /\ SamplesFrom(1, p) \o SamplesFrom(p + 1, n) = SamplesFrom(1, p + n)
<1>0. MaxSamples \in Nat /\ 0 \in Sample /\ Sample \subseteq Nat
  BY NormalizerAssumption DEF Sample
<1>1. /\ Silence(n) \in Seq(Sample) /\ Len(Silence(n)) = n
      /\ \A i \in 1 .. n : Silence(n)[i] = 0
  BY <1>0 DEF Silence
<1>2. ASSUME NEW p \in Nat, NEW k \in Nat, p + k <= MaxSamples
      PROVE  /\ SamplesFrom(p + 1, k) \in Seq(Sample) /\ Len(SamplesFrom(p + 1, k)) = k
             /\ \A i \in 1 .. k : SamplesFrom(p + 1, k)[i] = p + i
  <2>1. \A i \in 1 .. k : (p + 1) + i - 1 = p + i /\ p + i \in Sample
    BY <1>0, <1>2 DEF Sample
  <2> QED
    BY <2>1 DEF SamplesFrom
<1>3. ASSUME NEW p \in Nat, p + n <= MaxSamples
      PROVE  SamplesFrom(1, p) \o SamplesFrom(p + 1, n) = SamplesFrom(1, p + n)
  <2> DEFINE s == SamplesFrom(1, p)  t == SamplesFrom(p + 1, n)  u == SamplesFrom(1, p + n)
  <2>1. s \in Seq(Sample) /\ Len(s) = p /\ \A i \in 1 .. p : s[i] = i
    <3>1. 0 \in Nat /\ 0 + p <= MaxSamples /\ 0 + 1 = 1 /\ \A i \in 1 .. p : 0 + i = i
      BY <1>0, <1>3
    <3> QED
      BY <1>2, <3>1
  <2>2. t \in Seq(Sample) /\ Len(t) = n /\ \A i \in 1 .. n : t[i] = p + i
    BY <1>2, <1>3
  <2>3. u \in Seq(Sample) /\ Len(u) = p + n /\ \A i \in 1 .. p + n : u[i] = i
    <3>1. 0 \in Nat /\ p + n \in Nat /\ 0 + (p + n) <= MaxSamples /\ 0 + 1 = 1
          /\ \A i \in 1 .. p + n : 0 + i = i
      BY <1>0, <1>3
    <3> QED
      BY <1>2, <3>1
  <2> HIDE DEF s, t, u
  <2>4. /\ s \o t \in Seq(Sample) /\ Len(s \o t) = Len(s) + Len(t)
        /\ \A i \in 1 .. Len(s) + Len(t) : (s \o t)[i] = IF i <= Len(s) THEN s[i] ELSE t[i - Len(s)]
    BY <2>1, <2>2, ConcatProperties
  <2>5. \A i \in 1 .. p + n : (s \o t)[i] = u[i]
    <3> TAKE i \in 1 .. p + n
    <3>1. (s \o t)[i] = IF i <= p THEN s[i] ELSE t[i - p]
      BY <2>1, <2>2, <2>4
    <3>2. CASE i <= p
      BY <2>1, <2>3, <3>1, <3>2
    <3>3. CASE ~(i <= p)
      <4>1. i - p \in 1 .. n /\ p + (i - p) = i
        BY <3>3
      <4> QED
        BY <2>2, <2>3, <3>1, <3>3, <4>1
    <3> QED
      BY <3>2, <3>3
  <2>6. s \o t = u
    BY <2>1, <2>2, <2>3, <2>4, <2>5, SeqEqual
  <2> QED
    BY <2>6 DEF s, t, u
<1> QED
  BY <1>1, <1>2, <1>3

-----------------------------------------------------------------------------
(* Buffers *)

\* A positive number of units, and one unit more.
LEMMA Limits ==
    ASSUME NEW unit \in Nat \ {0}
    PROVE  /\ CompactAfter * unit \in Nat \ {0}
           /\ (CompactAfter + 1) * unit = CompactAfter * unit + unit
  BY NormalizerAssumption

\* compact_buffers() forgets only what is used up, and bounds the offset.
LEMMA CompactKeeps ==
    ASSUME NEW s \in Seq(Sample), NEW o \in Nat, o <= Len(s), NEW unit \in Nat \ {0}
    PROVE  LET c == Compact(Buffer(s, o), unit) IN
           /\ c.samples \in Seq(Sample) /\ c.offset \in 0 .. Len(c.samples)
           /\ Rest(c.samples, c.offset) = Rest(s, o)
           /\ Len(c.samples) - c.offset = Len(s) - o
           /\ c.offset < CompactAfter * unit /\ c = Buffer(c.samples, c.offset)
<1>1. CompactAfter * unit \in Nat \ {0}
  BY Limits
<1>2. Buffer(s, o).samples = s /\ Buffer(s, o).offset = o
  BY DEF Buffer
<1>3. Rest(s, o) \in Seq(Sample) /\ Len(Rest(s, o)) = Len(s) - o /\ Len(s) \in Nat
  BY SplitSeq, LenProperties DEF Rest
<1>4. CASE o >= CompactAfter * unit
  <2>1. Compact(Buffer(s, o), unit) = [samples |-> Rest(s, o), offset |-> 0]
    BY <1>2, <1>4 DEF Compact, Buffer
  <2>2. Rest(Rest(s, o), 0) = Rest(s, o)
    BY <1>3, SubSeqFull DEF Rest
  <2> QED
    BY <1>1, <1>3, <2>1, <2>2 DEF Buffer
<1>5. CASE ~(o >= CompactAfter * unit)
  <2>1. Compact(Buffer(s, o), unit) = [samples |-> s, offset |-> o]
    BY <1>2, <1>5 DEF Compact, Buffer
  <2> QED
    BY <1>1, <1>3, <1>5, <2>1 DEF Buffer
<1> QED
  BY <1>4, <1>5

\* The whole units of n samples: all but less than a unit of them.
LEMMA WholeUnits ==
    ASSUME NEW n \in Nat, NEW unit \in Nat \ {0}
    PROVE  /\ (n \div unit) * unit \in 0 .. n
           /\ n - (n \div unit) * unit < unit
           /\ ((n \div unit) * unit) % unit = 0
<1>1. n \div unit \in Nat /\ n = unit * (n \div unit) + (n % unit) /\ n % unit \in 0 .. unit - 1
  OBVIOUS
<1>2. (n \div unit) * unit = unit * (n \div unit) /\ (n \div unit) * unit \in Nat
  BY <1>1
<1>3. ((n \div unit) * unit) % unit = 0
  <2>1. \A k \in Int : (k * unit) % unit = 0
    BY Product
  <2>2. n \div unit \in Int
    OBVIOUS
  <2> QED
    BY <2>1, <2>2
<1> QED
  BY <1>1, <1>2, <1>3

\* The padding of a last block or chunk: silence behind what is left, up to the unit.
LEMMA PaddedWith ==
    ASSUME NEW xs \in Seq(Sample), NEW unit \in Nat \ {0}, Len(xs) < unit
    PROVE  SilenceBehind(Padded(xs, unit), xs) /\ Len(Padded(xs, unit)) \in {0, unit}
<1>1. Len(xs) \in Nat /\ (xs = <<>> => Len(xs) = 0)
  BY LenProperties, EmptySeq
<1>2. CASE xs = <<>>
  <2>1. <<>> \in Seq(Sample) /\ Len(<<>>) = 0 /\ xs \o <<>> = xs
    BY EmptySeq, ConcatEmptySeq
  <2>2. Padded(xs, unit) = xs
    BY <1>2 DEF Padded
  <2>3. \A i \in 1 .. Len(<<>>) : <<>>[i] = 0
    BY <2>1
  <2> QED
    BY <1>1, <1>2, <2>1, <2>2, <2>3 DEF SilenceBehind
<1>3. CASE xs # <<>>
  <2> DEFINE z == Silence(unit - Len(xs))
  <2>1. unit - Len(xs) \in Nat
    BY <1>1
  <2>2. z \in Seq(Sample) /\ Len(z) = unit - Len(xs) /\ \A i \in 1 .. unit - Len(xs) : z[i] = 0
    BY <2>1, NumberedSamples
  <2>3. Padded(xs, unit) = xs \o z
    BY <1>3 DEF Padded
  <2> HIDE DEF z
  <2>4. Len(xs \o z) = Len(xs) + Len(z)
    BY <2>2, ConcatProperties
  <2>5. Len(xs \o z) = unit
    BY <1>1, <2>2, <2>4
  <2> QED
    BY <2>2, <2>3, <2>5 DEF SilenceBehind
<1> QED
  BY <1>2, <1>3

-----------------------------------------------------------------------------
(* The pipeline: chunks, output, resampler, input *)

\* A part that is two parts.
LEMMA PartSplits ==
    ASSUME NEW a \in Seq(Sample), NEW b \in Seq(Sample), NEW c \in Seq(Sample)
    PROVE  a \o (b \o c) = (a \o b) \o c
  BY ConcatAssociative

\* Speech with padding behind it, of which the resampler holds the end: what is out is a
\* prefix of the speech, and nothing but silence follows.
LEMMA SpeechThenSilence ==
    ASSUME NEW x \in Seq(Sample), NEW stays \in Seq(Sample), NEW speech \in Seq(Sample),
           NEW e, SilenceBehind(x \o stays, speech), SilenceBehind(e, x),
           Len(stays) <= Len(speech)
    PROVE  /\ IsPrefix(SubSeq(speech, 1, Len(speech) - Len(stays)), e)
           /\ \A i \in DOMAIN e : i > Len(speech) => e[i] = 0
<1>1. PICK pad \in Seq(Sample) : /\ x \o stays = speech \o pad
                                /\ \A i \in 1 .. Len(pad) : pad[i] = 0
  BY DEF SilenceBehind
<1>2. PICK fill \in Seq(Sample) : e = x \o fill /\ \A i \in 1 .. Len(fill) : fill[i] = 0
  BY DEF SilenceBehind
<1> DEFINE w == x \o stays  n == Len(speech) - Len(stays)
           p == SubSeq(speech, 1, n)
<1>3. /\ Len(x) \in Nat /\ Len(stays) \in Nat /\ Len(speech) \in Nat /\ Len(pad) \in Nat
      /\ Len(fill) \in Nat
  BY LenProperties
<1>4. /\ e \in Seq(Sample) /\ Len(e) = Len(x) + Len(fill) /\ DOMAIN e = 1 .. Len(x) + Len(fill)
      /\ \A i \in 1 .. Len(x) + Len(fill) : e[i] = IF i <= Len(x) THEN x[i] ELSE fill[i - Len(x)]
  BY <1>2, ConcatProperties, LenProperties
<1>5. /\ Len(w) = Len(x) + Len(stays)
      /\ \A i \in 1 .. Len(x) + Len(stays) : w[i] = IF i <= Len(x) THEN x[i] ELSE stays[i - Len(x)]
  BY ConcatProperties
<1>6. /\ Len(w) = Len(speech) + Len(pad)
      /\ \A i \in 1 .. Len(speech) + Len(pad) :
            w[i] = IF i <= Len(speech) THEN speech[i] ELSE pad[i - Len(speech)]
  BY <1>1, ConcatProperties
<1> HIDE DEF w
<1>7. n \in Nat /\ n <= Len(speech) /\ n <= Len(x) /\ Len(x) = n + Len(pad)
  <2>1. Len(x) + Len(stays) = Len(speech) + Len(pad)
    BY ONLY <1>5, <1>6
  <2>2. Len(stays) <= Len(speech)
    OBVIOUS
  <2> QED
    BY ONLY <1>3, <2>1, <2>2
<1>8. \A i \in 1 .. Len(x) : /\ e[i] = w[i]
                             /\ i <= Len(speech) => w[i] = speech[i]
                             /\ i > Len(speech) => w[i] = 0
  <2> TAKE i \in 1 .. Len(x)
  <2>1. e[i] = x[i] /\ w[i] = x[i]
    BY <1>3, <1>4, <1>5
  <2>2. i \in 1 .. Len(speech) + Len(pad)
    BY <1>3, <1>7
  <2>3. i > Len(speech) => i - Len(speech) \in 1 .. Len(pad) /\ ~(i <= Len(speech))
    BY <1>3, <2>2
  <2>4. w[i] = IF i <= Len(speech) THEN speech[i] ELSE pad[i - Len(speech)]
    BY <1>6, <2>2
  <2> QED
    BY <1>1, <2>1, <2>3, <2>4
<1>9. p \in Seq(Sample) /\ Len(p) = n /\ \A i \in 1 .. n : p[i] = speech[i]
  <2>1. \A i \in 1 .. n : speech[i] \in Sample
    BY <1>3, <1>7, ElementOfSeq
  <2> HIDE DEF n
  <2> QED
    BY <1>7, <2>1, SubSeqProperties
<1> HIDE DEF p, n
<1>10. SubSeq(e, 1, n) = p
  <2>1. n <= Len(e) /\ \A i \in 1 .. n : e[i] = p[i]
    <3>1. n <= Len(e)
      BY <1>3, <1>4, <1>7
    <3>2. ASSUME NEW i \in 1 .. n PROVE e[i] = p[i]
      <4>1. i \in 1 .. Len(x) /\ i <= Len(speech)
        BY <1>3, <1>7
      <4> QED
        <5>1. e[i] = w[i] /\ (i <= Len(speech) => w[i] = speech[i])
          BY ONLY <1>8, <4>1
        <5>2. p[i] = speech[i]
          BY <1>9
        <5> QED
          BY <4>1, <5>1, <5>2
    <3> QED
      BY <3>1, <3>2
  <2>2. Sample \in SUBSET Int
    BY NormalizerAssumption DEF Sample
  <2> QED
    BY <1>4, <1>9, <2>1, <2>2, SamplesStart
<1>11. IsPrefix(p, e)
  <2>1. SubSeq(p, 1, Len(p)) = p /\ Len(p) <= Len(e)
    BY <1>3, <1>4, <1>7, <1>9, SubSeqFull
  <2> QED
    BY <1>9, <1>10, <2>1 DEF IsPrefix
<1>12. \A i \in DOMAIN e : i > Len(speech) => e[i] = 0
  <2> SUFFICES ASSUME NEW i \in 1 .. Len(x) + Len(fill), i > Len(speech) PROVE e[i] = 0
    BY <1>4
  <2>1. CASE i <= Len(x)
    <3>1. i \in 1 .. Len(x)
      BY <1>3, <2>1
    <3>2. e[i] = w[i] /\ (i > Len(speech) => w[i] = 0)
      BY ONLY <1>8, <3>1
    <3> QED
      BY <3>2
  <2>2. CASE ~(i <= Len(x))
    <3>1. i - Len(x) \in 1 .. Len(fill)
      BY <1>3, <2>2
    <3> QED
      BY <1>4, <1>2, <2>2, <3>1
  <2> QED
    BY <2>1, <2>2
<1> QED
  BY <1>11, <1>12 DEF p, n

-----------------------------------------------------------------------------
(* The invariant *)

\* Each operation leaves less than a block and less than a chunk to wait, and an offset that
\* is due to be compacted is.
RestsAreShort ==
    /\ mono_offset < CompactAfter * ResamplerInput
    /\ Len(mono_input) - mono_offset < ResamplerInput
    /\ output_offset < CompactAfter * ChunkSamples
    /\ Len(output) - output_offset < ChunkSamples

NormalizerInv == TypeOK /\ RestsAreShort /\ SpeechInOrder /\ FinishedSpeech

\* The speech grows at its end.
LEMMA SpeechGrows ==
    ASSUME NormalizerInv, NEW n \in Nat, pushed + n <= MaxSamples, pushed' = pushed + n,
           resampling' = resampling
    PROVE  /\ Speech \in Seq(Sample) /\ Speech' = Speech \o SamplesFrom(pushed + 1, n)
           /\ Len(held) <= Len(Speech)
<1> DEFINE fill == IF resampling THEN Silence(Delay) ELSE <<>>
           old == SamplesFrom(1, pushed)  new == SamplesFrom(pushed + 1, n)
<1>1. pushed \in Nat /\ Delay \in Nat /\ Len(held) = IF resampling THEN Delay ELSE 0
  BY NormalizerAssumption DEF NormalizerInv, TypeOK
<1>2. fill \in Seq(Sample) /\ Len(fill) = Len(held)
  BY <1>1, NumberedSamples, EmptySeq
<1>3. old \in Seq(Sample)
  <2>1. 0 \in Nat /\ 0 + pushed <= MaxSamples /\ 0 + 1 = 1
    BY <1>1 DEF NormalizerInv, TypeOK
  <2> QED
    BY <1>1, <2>1, NumberedSamples
<1>4. new \in Seq(Sample) /\ SamplesFrom(1, pushed + n) = old \o new
  BY <1>1, NumberedSamples
<1>5. Speech = fill \o old
  BY DEF Speech
<1>6. Speech' = fill \o SamplesFrom(1, pushed + n)
  BY DEF Speech
<1> HIDE DEF fill, old, new
<1>7. fill \o (old \o new) = (fill \o old) \o new
  BY ONLY <1>2, <1>3, <1>4, PartSplits
<1>8. fill \o old \in Seq(Sample) /\ Len(fill \o old) = Len(fill) + Len(old)
  BY ONLY <1>2, <1>3, ConcatProperties
<1>9. Len(fill) \in Nat /\ Len(old) \in Nat
  BY <1>2, <1>3, LenProperties
<1>10. Speech \in Seq(Sample)
  BY ONLY <1>5, <1>8
<1>11. Speech' = Speech \o new
  BY ONLY <1>4, <1>5, <1>6, <1>7
<1>12. Len(held) <= Len(Speech)
  BY <1>2, <1>5, <1>8, <1>9
<1> QED
  BY <1>10, <1>11, <1>12 DEF new

\* What goes through the resampler: it answers as many samples as it takes, and holds as many
\* as before.
LEMMA ResamplerKeeps ==
    ASSUME held \in Seq(Sample), NEW xs \in Seq(Sample)
    PROVE  /\ Resampled(xs) \in Seq(Sample) /\ Len(Resampled(xs)) = Len(xs)
           /\ HeldAfter(xs) \in Seq(Sample) /\ Len(HeldAfter(xs)) = Len(held)
           /\ Resampled(xs) \o HeldAfter(xs) = held \o xs
<1> DEFINE s == held \o xs  n == Len(xs)
<1>1. s \in Seq(Sample) /\ Len(s) = Len(held) + n /\ Len(held) \in Nat /\ n \in Nat
  BY ConcatProperties, LenProperties
<1>2. Resampled(xs) = SubSeq(s, 1, n) /\ HeldAfter(xs) = SubSeq(s, n + 1, Len(s))
  BY DEF Resampled, HeldAfter, Rest
<1> HIDE DEF s, n
<1>3. n <= Len(s)
  BY <1>1
<1>4. /\ SubSeq(s, 1, n) \in Seq(Sample) /\ Len(SubSeq(s, 1, n)) = n
      /\ SubSeq(s, n + 1, Len(s)) \in Seq(Sample) /\ Len(SubSeq(s, n + 1, Len(s))) = Len(s) - n
  BY <1>1, <1>3, SplitSeq
<1>5. SubSeq(s, 1, n) \o SubSeq(s, n + 1, Len(s)) = s
  BY <1>1, <1>3, HalvesMeet
<1>6. Len(s) - n = Len(held)
  BY <1>1
<1> QED
  BY <1>2, <1>4, <1>5, <1>6 DEF s, n

\* Less than a unit is left when the whole units are taken, and nothing when all is.
LEMMA ReadyLeavesLittle ==
    ASSUME TypeOK, NEW s \in Seq(Sample), NEW o \in Nat, o <= Len(s)
    PROVE  /\ Ready(Buffer(s, o)) \in 0 .. Len(s) - o
           /\ Len(s) - (o + Ready(Buffer(s, o))) < ResamplerInput
<1>1. ResamplerInput \in Nat \ {0} /\ Len(s) - o \in Nat /\ Len(s) \in Nat
  BY NormalizerAssumption, LenProperties
<1>2. CASE resampling
  <2> DEFINE w == ((Len(s) - o) \div ResamplerInput) * ResamplerInput
  <2>1. Ready(Buffer(s, o)) = w
    BY <1>2 DEF Ready, Whole, Buffer
  <2>2. w \in 0 .. Len(s) - o /\ (Len(s) - o) - w < ResamplerInput
    BY <1>1, WholeUnits
  <2> HIDE DEF w
  <2> QED
    BY <1>1, <2>1, <2>2
<1>3. CASE ~resampling
  <2>1. Ready(Buffer(s, o)) = Len(s) - o
    BY <1>3 DEF Ready, Buffer
  <2> QED
    BY <1>1, <2>1
<1> QED
  BY <1>2, <1>3

\* The chunks of an output, what they leave, and how much.
LEMMA ChunksTaken ==
    ASSUME NEW s \in Seq(Sample), NEW o \in Nat, o <= Len(s)
    PROVE  LET b == Buffer(s, o)  w == Whole(b, ChunkSamples) IN
           /\ w \in Nat /\ o + w <= Len(s) /\ Len(s) - (o + w) < ChunkSamples
           /\ WholeChunks(b) \in Seq(Sample) /\ Len(WholeChunks(b)) % ChunkSamples = 0
           /\ Rest(s, o + w) \in Seq(Sample) /\ Len(Rest(s, o + w)) = Len(s) - (o + w)
           /\ WholeChunks(b) \o Rest(s, o + w) = Rest(s, o)
<1> DEFINE w == ((Len(s) - o) \div ChunkSamples) * ChunkSamples
<1>1. ChunkSamples \in Nat \ {0} /\ Len(s) - o \in Nat /\ Len(s) \in Nat
  BY NormalizerAssumption, LenProperties
<1>2. w \in 0 .. Len(s) - o /\ (Len(s) - o) - w < ChunkSamples /\ w % ChunkSamples = 0
  BY <1>1, WholeUnits
<1>3. Whole(Buffer(s, o), ChunkSamples) = w
  BY DEF Whole, Buffer
<1>4. WholeChunks(Buffer(s, o)) = SubSeq(s, o + 1, o + w)
  BY <1>3 DEF WholeChunks, Buffer
<1> HIDE DEF w
<1>5. w \in Nat /\ o + w <= Len(s) /\ Len(s) - (o + w) < ChunkSamples
  BY <1>1, <1>2
<1>6. /\ SubSeq(s, o + 1, o + w) \in Seq(Sample) /\ Len(SubSeq(s, o + 1, o + w)) = w
      /\ Rest(s, o + w) \in Seq(Sample) /\ Len(Rest(s, o + w)) = Len(s) - (o + w)
      /\ SubSeq(s, o + 1, o + w) \o Rest(s, o + w) = Rest(s, o)
  <2>1. s \in Seq(Sample) /\ o \in Nat /\ w \in Nat /\ o + w <= Len(s)
    BY <1>5
  <2> QED
    BY ONLY <2>1, TakenAndLeft
<1> QED
  BY <1>2, <1>3, <1>4, <1>5, <1>6

-----------------------------------------------------------------------------
(* The steps *)

\* push() of a frame of any size, at any fill of the two buffers.
LEMMA PushStep ==
    ASSUME NormalizerInv, NEW n \in Packets, Push(n)
    PROVE  NormalizerInv'
<1> DEFINE new   == SamplesFrom(pushed + 1, n)
           ms    == mono_input \o new
           r     == Ready(Buffer(ms, mono_offset))
           taken == SubSeq(ms, mono_offset + 1, mono_offset + r)
           left  == Compact(Buffer(ms, mono_offset + r), ResamplerInput)
           answer == Resampled(taken)
           stays == HeldAfter(taken)
           os    == output \o answer
           out   == Compact(Buffer(os, output_offset), ChunkSamples)
           w     == Whole(out, ChunkSamples)
           sent  == Compact(Buffer(out.samples, out.offset + w), ChunkSamples)
           chunks == WholeChunks(out)
           o     == Rest(output, output_offset)
           m     == Rest(mono_input, mono_offset)
           ml    == Rest(left.samples, left.offset)
           ol    == Rest(sent.samples, sent.offset)
<1>1. /\ ~finished /\ finished' = finished /\ resampling' = resampling
      /\ pushed + n <= MaxSamples /\ pushed' = pushed + n
      /\ held' = stays /\ emitted' = emitted \o chunks
      /\ mono_input' = left.samples /\ mono_offset' = left.offset
      /\ output' = sent.samples /\ output_offset' = sent.offset
  BY DEF Push, Buffer
<1>2. /\ n \in Nat /\ MaxSamples \in Nat
      /\ ResamplerInput \in Nat \ {0} /\ ChunkSamples \in Nat \ {0} /\ CompactAfter \in Nat \ {0}
  BY NormalizerAssumption
<1>3. /\ mono_input \in Seq(Sample) /\ held \in Seq(Sample) /\ output \in Seq(Sample)
      /\ emitted \in Seq(Sample) /\ pushed \in Nat
      /\ mono_offset \in Nat /\ mono_offset <= Len(mono_input) /\ Len(mono_input) \in Nat
      /\ output_offset \in Nat /\ output_offset <= Len(output) /\ Len(output) \in Nat
  BY <1>2, LenProperties DEF NormalizerInv, TypeOK, Sample
<1>4. /\ new \in Seq(Sample)
      /\ Speech \in Seq(Sample) /\ Speech' = Speech \o new /\ Len(held) <= Len(Speech)
  BY <1>1, <1>2, <1>3, NumberedSamples, SpeechGrows
<1> HIDE DEF new
<1>5. ms \in Seq(Sample) /\ mono_offset <= Len(ms) /\ Rest(ms, mono_offset) = m \o new
  <2>1. ms \in Seq(Sample) /\ Len(ms) = Len(mono_input) + Len(new) /\ Len(new) \in Nat
    BY <1>3, <1>4, ConcatProperties, LenProperties
  <2>2. Rest(ms, mono_offset) = m \o new
    BY <1>3, <1>4, RestGrows
  <2> QED
    BY <1>3, <2>1, <2>2
<1>6. m \in Seq(Sample) /\ o \in Seq(Sample)
  BY <1>3, SplitSeq DEF Rest
<1> HIDE DEF ms, m, o
<1>7. r \in Nat /\ mono_offset + r <= Len(ms) /\ Len(ms) - (mono_offset + r) < ResamplerInput
  <2>1. /\ r \in 0 .. Len(ms) - mono_offset
        /\ Len(ms) - (mono_offset + r) < ResamplerInput
    BY <1>3, <1>5, ReadyLeavesLittle DEF NormalizerInv
  <2>2. Len(ms) \in Nat
    BY <1>5, LenProperties
  <2> HIDE DEF r
  <2> QED
    BY <1>3, <1>5, <2>1, <2>2
<1> HIDE DEF r
<1>8. /\ taken \in Seq(Sample) /\ Rest(ms, mono_offset + r) \in Seq(Sample)
      /\ taken \o Rest(ms, mono_offset + r) = m \o new
  BY <1>3, <1>5, <1>7, TakenAndLeft
<1>9. /\ left.samples \in Seq(Sample) /\ left.offset \in 0 .. Len(left.samples)
      /\ ml = Rest(ms, mono_offset + r) /\ left.offset < CompactAfter * ResamplerInput
      /\ Len(left.samples) - left.offset < ResamplerInput
  <2>1. mono_offset + r \in Nat
    BY <1>3, <1>7
  <2>2. /\ left.samples \in Seq(Sample) /\ left.offset \in 0 .. Len(left.samples)
        /\ Rest(left.samples, left.offset) = Rest(ms, mono_offset + r)
        /\ Len(left.samples) - left.offset = Len(ms) - (mono_offset + r)
        /\ left.offset < CompactAfter * ResamplerInput
    BY ONLY <1>2, <1>5, <1>7, <2>1, CompactKeeps
  <2> HIDE DEF left
  <2> QED
    BY <1>7, <2>2
<1> HIDE DEF taken, left
<1>10. /\ answer \in Seq(Sample) /\ stays \in Seq(Sample) /\ Len(stays) = Len(held)
       /\ answer \o stays = held \o taken
  BY <1>3, <1>8, ResamplerKeeps
<1> HIDE DEF answer, stays
<1>11. os \in Seq(Sample) /\ output_offset <= Len(os) /\ Rest(os, output_offset) = o \o answer
  <2>1. os \in Seq(Sample) /\ Len(os) = Len(output) + Len(answer) /\ Len(answer) \in Nat
    BY <1>3, <1>10, ConcatProperties, LenProperties
  <2>2. Rest(os, output_offset) = o \o answer
    BY <1>3, <1>10, RestGrows DEF o
  <2> QED
    BY <1>3, <2>1, <2>2
<1> HIDE DEF os
<1>12. /\ out.samples \in Seq(Sample) /\ out.offset \in 0 .. Len(out.samples)
       /\ Rest(out.samples, out.offset) = o \o answer /\ out = Buffer(out.samples, out.offset)
  <2>1. /\ os \in Seq(Sample) /\ output_offset \in Nat /\ output_offset <= Len(os)
        /\ ChunkSamples \in Nat \ {0}
    BY <1>2, <1>3, <1>11
  <2>2. /\ out.samples \in Seq(Sample) /\ out.offset \in 0 .. Len(out.samples)
        /\ Rest(out.samples, out.offset) = Rest(os, output_offset)
        /\ out = Buffer(out.samples, out.offset)
    BY ONLY <2>1, CompactKeeps
  <2> HIDE DEF out
  <2> QED
    BY <1>11, <2>2
<1> HIDE DEF out
<1>13. /\ w \in Nat /\ out.offset + w <= Len(out.samples)
       /\ Len(out.samples) - (out.offset + w) < ChunkSamples
       /\ chunks \in Seq(Sample) /\ Len(chunks) % ChunkSamples = 0
       /\ Rest(out.samples, out.offset + w) \in Seq(Sample)
       /\ chunks \o Rest(out.samples, out.offset + w) = o \o answer
  <2>1. out.offset \in Nat /\ out.offset <= Len(out.samples)
    BY <1>12, LenProperties
  <2> QED
    BY <1>12, <2>1, ChunksTaken
<1> HIDE DEF w, chunks
<1>14. /\ sent.samples \in Seq(Sample) /\ sent.offset \in 0 .. Len(sent.samples)
       /\ ol = Rest(out.samples, out.offset + w) /\ sent.offset < CompactAfter * ChunkSamples
       /\ Len(sent.samples) - sent.offset < ChunkSamples
  <2> DEFINE u == out.samples  k == out.offset + w
  <2>1. u \in Seq(Sample) /\ k \in Nat /\ k <= Len(u) /\ ChunkSamples \in Nat \ {0}
    BY <1>2, <1>12, <1>13, LenProperties
  <2> HIDE DEF u, k
  <2>2. /\ sent.samples \in Seq(Sample) /\ sent.offset \in 0 .. Len(sent.samples)
        /\ Rest(sent.samples, sent.offset) = Rest(u, k)
        /\ Len(sent.samples) - sent.offset = Len(u) - k
        /\ sent.offset < CompactAfter * ChunkSamples
    <3> DEFINE c == Compact(Buffer(u, k), ChunkSamples)
    <3>1. sent = c
      BY DEF u, k
    <3>2. /\ c.samples \in Seq(Sample) /\ c.offset \in 0 .. Len(c.samples)
          /\ Rest(c.samples, c.offset) = Rest(u, k)
          /\ Len(c.samples) - c.offset = Len(u) - k
          /\ c.offset < CompactAfter * ChunkSamples
      BY ONLY <2>1, CompactKeeps
    <3> HIDE DEF c, sent
    <3> QED
      BY <3>1, <3>2
  <2> HIDE DEF sent
  <2> QED
    BY <1>13, <2>2 DEF u, k
<1> HIDE DEF sent, ol, ml
<1>15. TypeOK'
  <2>1. emitted \o chunks \in Seq(Sample)
    BY <1>3, <1>13, ConcatProperties
  <2>2. pushed + n \in 0 .. MaxSamples
    BY <1>1, <1>2, <1>3
  <2> QED
    BY <1>1, <1>9, <1>10, <1>14, <2>1, <2>2 DEF NormalizerInv, TypeOK, Sample
<1>16. RestsAreShort'
  BY <1>1, <1>9, <1>14 DEF RestsAreShort
<1>17. SpeechInOrder'
  <2>1. ((emitted \o o) \o held) \o m = Speech
    BY <1>1 DEF NormalizerInv, SpeechInOrder, o, m
  <2>2. ml \in Seq(Sample) /\ ol \in Seq(Sample)
    BY <1>8, <1>9, <1>13, <1>14
  <2>3. chunks \o ol = o \o answer /\ answer \o stays = held \o taken /\ taken \o ml = m \o new
    BY <1>8, <1>9, <1>10, <1>13, <1>14
  <2> DEFINE a == emitted \o o  b == a \o held
  <2>4. a \in Seq(Sample)
    BY <1>3, <1>6, ConcatProperties
  <2>5. b \in Seq(Sample)
    BY <1>3, <2>4, ConcatProperties
  <2>6. (emitted \o chunks) \o ol = a \o answer
    <3>1. emitted \o (chunks \o ol) = (emitted \o chunks) \o ol
      BY ONLY <1>3, <1>13, <2>2, PartSplits
    <3>2. emitted \o (o \o answer) = a \o answer
      BY ONLY <1>3, <1>6, <1>10, PartSplits
    <3> QED
      BY ONLY <2>3, <3>1, <3>2
  <2> HIDE DEF a
  <2>7. (a \o answer) \o stays = b \o taken
    <3>1. a \o (answer \o stays) = (a \o answer) \o stays
      BY ONLY <1>10, <2>4, PartSplits
    <3>2. a \o (held \o taken) = b \o taken
      BY ONLY <1>3, <1>8, <2>4, PartSplits
    <3> QED
      BY ONLY <2>3, <3>1, <3>2
  <2> HIDE DEF b
  <2>8. (b \o taken) \o ml = (b \o m) \o new
    <3>1. b \o (taken \o ml) = (b \o taken) \o ml
      BY ONLY <1>8, <2>2, <2>5, PartSplits
    <3>2. b \o (m \o new) = (b \o m) \o new
      BY ONLY <1>4, <1>6, <2>5, PartSplits
    <3> QED
      BY ONLY <2>3, <3>1, <3>2
  <2>9. b \o m = Speech
    BY ONLY <2>1 DEF a, b
  <2>10. (((emitted \o chunks) \o ol) \o stays) \o ml = Speech \o new
    BY ONLY <2>6, <2>7, <2>8, <2>9
  <2> QED
    BY <1>1, <1>4, <2>10 DEF SpeechInOrder, ol, ml
<1>18. FinishedSpeech'
  <2>1. Len(emitted \o chunks) = Len(emitted) + Len(chunks)
    BY <1>3, <1>13, ConcatProperties
  <2>2. Len(emitted) \in Int /\ Len(chunks) \in Int /\ Len(emitted) % ChunkSamples = 0
    BY <1>3, <1>13, LenProperties DEF NormalizerInv, FinishedSpeech
  <2>3. (Len(emitted) + Len(chunks)) % ChunkSamples = 0
    BY <1>2, <1>13, <2>2, Multiples
  <2> QED
    BY <1>1, <2>1, <2>3 DEF FinishedSpeech
<1> QED
  BY <1>15, <1>16, <1>17, <1>18 DEF NormalizerInv

\* finish(): what waits in either buffer leaves it, with silence up to a whole block and chunk.
LEMMA FinishStep ==
    ASSUME NormalizerInv, FinishConversion
    PROVE  NormalizerInv'
<1> DEFINE m     == LeftOver
           taken == IF resampling THEN Padded(m, ResamplerInput) ELSE m
           answer == Resampled(taken)
           stays == HeldAfter(taken)
           os    == output \o answer
           out   == Buffer(os, output_offset)
           k     == output_offset + Whole(out, ChunkSamples)
           chunks == WholeChunks(out)
           tail  == Compact(Buffer(os, k), ChunkSamples)
           last  == Rest(tail.samples, tail.offset)
           padded == Padded(last, ChunkSamples)
           done  == Compact(Buffer(tail.samples, Len(tail.samples)), ChunkSamples)
           o     == Rest(output, output_offset)
<1>1. /\ ~finished /\ finished' = TRUE /\ resampling' = resampling /\ pushed' = pushed
      /\ held' = stays /\ emitted' = (emitted \o chunks) \o padded
      /\ mono_input' = <<>> /\ mono_offset' = 0
      /\ output' = done.samples /\ output_offset' = done.offset
  BY DEF FinishConversion, Buffer
<1>2. /\ MaxSamples \in Nat /\ 0 \in Nat
      /\ ResamplerInput \in Nat \ {0} /\ ChunkSamples \in Nat \ {0} /\ CompactAfter \in Nat \ {0}
  BY NormalizerAssumption
<1>3. /\ mono_input \in Seq(Sample) /\ held \in Seq(Sample) /\ output \in Seq(Sample)
      /\ emitted \in Seq(Sample) /\ pushed \in Nat /\ pushed <= MaxSamples
      /\ mono_offset \in Nat /\ mono_offset <= Len(mono_input) /\ Len(mono_input) \in Nat
      /\ output_offset \in Nat /\ output_offset <= Len(output) /\ Len(output) \in Nat
  BY <1>2, LenProperties DEF NormalizerInv, TypeOK, Sample
<1>4. /\ Speech \in Seq(Sample) /\ Speech' = Speech /\ Len(held) <= Len(Speech)
  <2>1. pushed + 0 = pushed
    BY <1>3
  <2>2. Speech \in Seq(Sample) /\ Len(held) <= Len(Speech)
    BY <1>1, <1>2, <1>3, <2>1, SpeechGrows
  <2> QED
    BY <1>1, <2>2 DEF Speech
<1>5. m \in Seq(Sample) /\ Len(m) < ResamplerInput /\ o \in Seq(Sample)
  <2>1. m \in Seq(Sample) /\ Len(m) = Len(mono_input) - mono_offset /\ o \in Seq(Sample)
    BY <1>3, SplitSeq DEF Rest, LeftOver
  <2> QED
    BY <2>1 DEF NormalizerInv, RestsAreShort
<1>6. ((emitted \o o) \o held) \o m = Speech
  BY <1>1 DEF NormalizerInv, SpeechInOrder, LeftOver
<1> HIDE DEF m, o
<1>7. SilenceBehind(taken, m)
  <2>1. CASE resampling
    BY <1>2, <1>5, <2>1, PaddedWith
  <2>2. CASE ~resampling
    <3>1. <<>> \in Seq(Sample) /\ m \o <<>> = m /\ Len(<<>>) = 0
      BY <1>5, EmptySeq, ConcatEmptySeq
    <3>2. \A i \in 1 .. Len(<<>>) : <<>>[i] = 0
      BY <3>1
    <3> QED
      BY <2>2, <3>1, <3>2 DEF SilenceBehind
  <2> QED
    BY <2>1, <2>2
<1> HIDE DEF taken
<1>8. taken \in Seq(Sample)
  BY <1>5, <1>7, ConcatProperties DEF SilenceBehind
<1>9. /\ answer \in Seq(Sample) /\ stays \in Seq(Sample) /\ Len(stays) = Len(held)
       /\ answer \o stays = held \o taken
  BY <1>3, <1>8, ResamplerKeeps
<1> HIDE DEF answer, stays
<1>10. os \in Seq(Sample) /\ output_offset <= Len(os) /\ Rest(os, output_offset) = o \o answer
  <2>1. os \in Seq(Sample) /\ Len(os) = Len(output) + Len(answer) /\ Len(answer) \in Nat
    BY <1>3, <1>9, ConcatProperties, LenProperties
  <2>2. Rest(os, output_offset) = o \o answer
    BY <1>3, <1>9, RestGrows DEF o
  <2> QED
    BY <1>3, <2>1, <2>2
<1> HIDE DEF os
<1>11. /\ k \in Nat /\ k <= Len(os) /\ Len(os) - k < ChunkSamples
       /\ chunks \in Seq(Sample) /\ Len(chunks) % ChunkSamples = 0
       /\ Rest(os, k) \in Seq(Sample) /\ Len(Rest(os, k)) = Len(os) - k
       /\ chunks \o Rest(os, k) = o \o answer
  <2>1. os \in Seq(Sample) /\ output_offset \in Nat /\ output_offset <= Len(os)
    BY <1>3, <1>10
  <2>2. /\ k \in Nat /\ k <= Len(os) /\ Len(os) - k < ChunkSamples
        /\ chunks \in Seq(Sample) /\ Len(chunks) % ChunkSamples = 0
        /\ Rest(os, k) \in Seq(Sample) /\ Len(Rest(os, k)) = Len(os) - k
        /\ chunks \o Rest(os, k) = Rest(os, output_offset)
    <3>1. Whole(out, ChunkSamples) \in Nat /\ k \in Nat
      BY <2>1, ChunksTaken
    <3> QED
      BY ONLY <2>1, <3>1, ChunksTaken
  <2> HIDE DEF k, chunks
  <2> QED
    BY <1>10, <2>2
<1> HIDE DEF k, chunks, out
<1>12. /\ tail.samples \in Seq(Sample) /\ last = Rest(os, k)
  <2>1. os \in Seq(Sample) /\ k \in Nat /\ k <= Len(os) /\ ChunkSamples \in Nat \ {0}
    BY <1>2, <1>10, <1>11
  <2> QED
    BY ONLY <2>1, CompactKeeps
<1> HIDE DEF tail, last
<1>13. /\ done.samples \in Seq(Sample) /\ done.offset \in 0 .. Len(done.samples)
       /\ Len(done.samples) - done.offset = 0 /\ done.offset < CompactAfter * ChunkSamples
  <2> DEFINE u == tail.samples  n == Len(u)
  <2>1. u \in Seq(Sample) /\ n \in Nat /\ n <= Len(u) /\ ChunkSamples \in Nat \ {0}
    BY <1>2, <1>12, LenProperties
  <2> DEFINE c == Compact(Buffer(u, n), ChunkSamples)
  <2>2. done = c
    OBVIOUS
  <2>3. n - n = 0
    BY <2>1
  <2> HIDE DEF u
  <2>4. /\ c.samples \in Seq(Sample) /\ c.offset \in 0 .. Len(c.samples)
        /\ Len(c.samples) - c.offset = Len(u) - n /\ c.offset < CompactAfter * ChunkSamples
    BY ONLY <2>1, CompactKeeps
  <2> HIDE DEF c, done
  <2> QED
    BY <2>2, <2>3, <2>4
<1> HIDE DEF done
<1> DEFINE a == emitted \o o  b == a \o held  x == a \o answer  begin == emitted \o chunks
<1>14. /\ emitted \in Seq(Sample) /\ chunks \in Seq(Sample) /\ last \in Seq(Sample)
      /\ answer \in Seq(Sample) /\ o \in Seq(Sample)
  BY <1>3, <1>5, <1>9, <1>11, <1>12
<1>15. a \in Seq(Sample) /\ begin \in Seq(Sample)
  BY ONLY <1>14, ConcatProperties
<1>16. begin \o last = x
  <2>1. emitted \o (chunks \o last) = begin \o last
    BY ONLY <1>14, PartSplits
  <2>2. emitted \o (o \o answer) = x
    BY ONLY <1>14, PartSplits
  <2>3. chunks \o last = o \o answer
    BY ONLY <1>11, <1>12
  <2> QED
    BY ONLY <2>1, <2>2, <2>3
<1> HIDE DEF a, begin
<1>17. /\ a \in Seq(Sample) /\ held \in Seq(Sample) /\ taken \in Seq(Sample)
      /\ answer \in Seq(Sample) /\ stays \in Seq(Sample)
  BY <1>3, <1>8, <1>9, <1>15
<1>18. b \in Seq(Sample) /\ x \in Seq(Sample)
  BY ONLY <1>17, ConcatProperties
<1>19. x \o stays = b \o taken
  <2>1. a \o (answer \o stays) = x \o stays
    BY ONLY <1>17, PartSplits
  <2>2. a \o (held \o taken) = b \o taken
    BY ONLY <1>17, PartSplits
  <2> QED
    BY ONLY <1>9, <2>1, <2>2
<1> HIDE DEF b, x
<1>20. b \o m = Speech
  BY ONLY <1>6 DEF a, b
<1>21. SilenceBehind(padded, last) /\ Len(padded) \in {0, ChunkSamples}
  <2>1. last \in Seq(Sample) /\ Len(last) < ChunkSamples
    BY <1>11, <1>12
  <2> QED
    BY <1>2, <2>1, PaddedWith
<1> HIDE DEF padded
<1>22. last \in Seq(Sample) /\ padded \in Seq(Sample)
  BY <1>11, <1>12, <1>21, ConcatProperties DEF SilenceBehind
<1> DEFINE all == begin \o padded
<1>23. all \in Seq(Sample) /\ Len(all) % ChunkSamples = 0
  <2>1. begin \in Seq(Sample) /\ Len(begin) = Len(emitted) + Len(chunks)
    BY ONLY <1>14, ConcatProperties DEF begin
  <2>2. all \in Seq(Sample) /\ Len(all) = Len(begin) + Len(padded)
    BY ONLY <1>22, <2>1, ConcatProperties
  <2>3. Len(emitted) \in Int /\ Len(chunks) \in Int /\ Len(emitted) % ChunkSamples = 0
    BY <1>14, LenProperties DEF NormalizerInv, FinishedSpeech
  <2>4. Len(padded) \in Int /\ Len(padded) % ChunkSamples = 0
    <3>1. 0 % ChunkSamples = 0 /\ ChunkSamples % ChunkSamples = 0
      BY <1>2
    <3> QED
      BY <1>2, <1>21, <3>1
  <2> DEFINE p == Len(emitted)  q == Len(chunks)  r == Len(padded)
  <2>5. /\ ChunkSamples \in Nat \ {0} /\ p \in Int /\ q \in Int /\ r \in Int /\ p + q \in Int
        /\ p % ChunkSamples = 0 /\ q % ChunkSamples = 0 /\ r % ChunkSamples = 0
    BY <1>2, <1>11, <2>3, <2>4
  <2> HIDE DEF p, q, r
  <2>6. (p + q) % ChunkSamples = 0
    BY ONLY <2>5, Multiples
  <2>7. ((p + q) + r) % ChunkSamples = 0
    BY ONLY <2>5, <2>6, Multiples
  <2> QED
    BY ONLY <2>1, <2>2, <2>7 DEF p, q, r
<1>24. SilenceBehind(x \o stays, Speech)
  <2>1. PICK pad \in Seq(Sample) : taken = m \o pad /\ \A i \in 1 .. Len(pad) : pad[i] = 0
    BY <1>7 DEF SilenceBehind
  <2>2. pad \in Seq(Sample) /\ m \in Seq(Sample) /\ b \in Seq(Sample)
    BY <1>5, <1>18
  <2>3. b \o (m \o pad) = (b \o m) \o pad
    BY ONLY <2>2, PartSplits
  <2>4. x \o stays = Speech \o pad
    BY ONLY <1>19, <1>20, <2>1, <2>3
  <2> QED
    BY <2>1, <2>4 DEF SilenceBehind
<1>25. SilenceBehind(all, x)
  <2>1. PICK fill \in Seq(Sample) : /\ padded = last \o fill
                                   /\ \A i \in 1 .. Len(fill) : fill[i] = 0
    BY <1>21 DEF SilenceBehind
  <2>2. begin \in Seq(Sample) /\ last \in Seq(Sample) /\ fill \in Seq(Sample)
    BY <1>14, <1>15
  <2>3. begin \o (last \o fill) = (begin \o last) \o fill
    BY ONLY <2>2, PartSplits
  <2>4. all = begin \o (last \o fill)
    BY ONLY <2>1
  <2>5. all = x \o fill
    BY ONLY <1>16, <2>3, <2>4
  <2> HIDE DEF all
  <2> QED
    BY <2>1, <2>5 DEF SilenceBehind
<1> HIDE DEF all
<1>26. /\ IsPrefix(SubSeq(Speech, 1, Len(Speech) - Len(stays)), all)
       /\ \A i \in DOMAIN all : i > Len(Speech) => all[i] = 0
  <2>1. x \in Seq(Sample) /\ stays \in Seq(Sample) /\ Speech \in Seq(Sample)
    BY <1>4, <1>9, <1>18
  <2>2. Len(stays) <= Len(Speech)
    BY <1>4, <1>9
  <2> QED
    BY ONLY <1>24, <1>25, <2>1, <2>2, SpeechThenSilence
<1>27. emitted' = all
  BY <1>1 DEF all, begin
<1>28. TypeOK'
  <2>1. <<>> \in Seq(Sample) /\ Len(<<>>) = 0 /\ 0 \in 0 .. 0
    BY EmptySeq
  <2> QED
    BY <1>1, <1>9, <1>13, <1>23, <1>27, <2>1 DEF NormalizerInv, TypeOK, Sample
<1>29. RestsAreShort'
  <2>1. CompactAfter * ResamplerInput > 0 /\ Len(<<>>) = 0
    BY <1>2, Limits, EmptySeq
  <2> QED
    BY <1>1, <1>2, <1>13, <2>1 DEF RestsAreShort
<1>30. SpeechInOrder'
  BY <1>1 DEF SpeechInOrder
<1>31. FinishedSpeech'
  BY <1>1, <1>4, <1>23, <1>26, <1>27 DEF FinishedSpeech
<1> QED
  BY <1>28, <1>29, <1>30, <1>31 DEF NormalizerInv

-----------------------------------------------------------------------------
(* What the converter promises *)

\* The invariant of the converter.
LEMMA NormalizerCorrect == Spec => []NormalizerInv
<1>1. ASSUME Init PROVE NormalizerInv
  <2>1. /\ MaxSamples \in Nat /\ 0 \in 0 .. MaxSamples /\ Delay \in Nat
        /\ ResamplerInput \in Nat \ {0} /\ ChunkSamples \in Nat \ {0}
        /\ CompactAfter * ResamplerInput > 0 /\ CompactAfter * ChunkSamples > 0
    BY NormalizerAssumption, Limits
  <2>2. <<>> \in Seq(Sample) /\ Len(<<>>) = 0
    BY EmptySeq
  <2>3. Silence(Delay) \in Seq(Sample) /\ Len(Silence(Delay)) = Delay
    BY <2>1, NumberedSamples
  <2>4. TypeOK
    <3>1. held \in Seq(Sample) /\ Len(held) = IF resampling THEN Delay ELSE 0
      BY <1>1, <2>2, <2>3 DEF Init
    <3>2. 0 \in 0 .. Len(<<>>)
      BY <2>2
    <3> QED
      BY <1>1, <2>1, <2>2, <3>1, <3>2 DEF Init, TypeOK, Sample
  <2>5. RestsAreShort
    BY <1>1, <2>1, <2>2 DEF Init, RestsAreShort
  <2>6. SpeechInOrder
    <3>1. held \in Seq(Sample) /\ Speech = held \o <<>>
      <4>1. SamplesFrom(1, 0) = <<>>
        BY DEF SamplesFrom
      <4> QED
        BY <1>1, <2>2, <2>3, <4>1 DEF Init, Speech
    <3>2. Rest(<<>>, 0) = <<>>
      BY <2>2, SubSeqEmpty DEF Rest
    <3>3. (<<>> \o <<>>) \o held = held
      BY <2>2, <3>1, ConcatEmptySeq
    <3> QED
      BY <1>1, <3>1, <3>2, <3>3 DEF Init, SpeechInOrder
  <2>7. FinishedSpeech
    BY <1>1, <2>1, <2>2 DEF Init, FinishedSpeech
  <2> QED
    BY <2>4, <2>5, <2>6, <2>7 DEF NormalizerInv
<1>2. ASSUME NormalizerInv, [Next]_vars PROVE NormalizerInv'
  <2>1. CASE UNCHANGED vars
    BY <1>2, <2>1 DEF vars, NormalizerInv, TypeOK, RestsAreShort, SpeechInOrder, FinishedSpeech,
       Speech
  <2>2. CASE FinishConversion
    BY <1>2, <2>2, FinishStep
  <2>3. ASSUME NEW n \in Packets, Push(n) PROVE NormalizerInv'
    BY <1>2, <2>3, PushStep
  <2> QED
    BY <1>2, <2>1, <2>2, <2>3 DEF Next
<1> QED
  BY <1>1, <1>2, PTL DEF Spec

\* Every variable keeps its type: no offset passes the end of its buffer, and the resampler
\* always holds as many samples as it delays.
THEOREM TypeTheorem == Spec => []TypeOK
<1>1. NormalizerInv => TypeOK
  BY DEF NormalizerInv
<1> QED
  BY <1>1, NormalizerCorrect, PTL

\* Chunks, output, resampler and input hold the speech in order, whatever the sizes of the
\* packets and however often either buffer is compacted.
THEOREM OrderTheorem == Spec => []SpeechInOrder
<1>1. NormalizerInv => SpeechInOrder
  BY DEF NormalizerInv
<1> QED
  BY <1>1, NormalizerCorrect, PTL

\* Every chunk is whole, and after finish() the chunks hold all of the speech but what the
\* resampler still holds, and silence behind it.
THEOREM FinishedTheorem == Spec => []FinishedSpeech
<1>1. NormalizerInv => FinishedSpeech
  BY DEF NormalizerInv
<1> QED
  BY <1>1, NormalizerCorrect, PTL

\* Neither buffer grows past what waits for a compaction and one block or chunk.
THEOREM BoundedTheorem == Spec => []BuffersBounded
<1>1. NormalizerInv => BuffersBounded
  <2> SUFFICES ASSUME NormalizerInv PROVE BuffersBounded
    OBVIOUS
  <2> DEFINE a == CompactAfter * ResamplerInput  b == CompactAfter * ChunkSamples
  <2>1. /\ ResamplerInput \in Nat \ {0} /\ ChunkSamples \in Nat \ {0}
        /\ a \in Nat /\ (CompactAfter + 1) * ResamplerInput = a + ResamplerInput
        /\ b \in Nat /\ (CompactAfter + 1) * ChunkSamples = b + ChunkSamples
    BY NormalizerAssumption, Limits
  <2>2. /\ mono_offset < a /\ Len(mono_input) - mono_offset < ResamplerInput
        /\ output_offset < b /\ Len(output) - output_offset < ChunkSamples
    BY DEF NormalizerInv, RestsAreShort
  <2>3. /\ mono_offset \in Nat /\ Len(mono_input) \in Nat
        /\ output_offset \in Nat /\ Len(output) \in Nat
    BY LenProperties DEF NormalizerInv, TypeOK
  <2> HIDE DEF a, b
  <2>4. Len(mono_input) < a + ResamplerInput /\ Len(output) < b + ChunkSamples
    BY <2>1, <2>2, <2>3
  <2> QED
    BY <2>1, <2>4 DEF BuffersBounded
<1> QED
  BY <1>1, NormalizerCorrect, PTL
=============================================================================
