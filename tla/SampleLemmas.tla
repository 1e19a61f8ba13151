----------------------------- MODULE SampleLemmas -----------------------------
(***************************************************************************)
(* Lemmas that the proofs about sessions of samples share: sequences of    *)
(* numbers cut and joined, frames of a fixed size, channels that take      *)
(* turns.                                                                  *)
(***************************************************************************)
EXTENDS Integers, Sequences, SequencesExt, SequenceTheorems, WellFoundedInduction, TLAPS

-----------------------------------------------------------------------------
(* Numbers *)

\* Numbers that follow one another.
LEMMA NextNumbers ==
    ASSUME NEW c \in Nat, NEW n \in Nat
    PROVE  1 .. c + n = 1 .. c \cup {c + i : i \in 1 .. n}
<1>1. ASSUME NEW x \in 1 .. c + n
      PROVE  x \in 1 .. c \/ \E i \in 1 .. n : x = c + i
  <2>1. CASE x <= c
    BY <2>1
  <2>2. CASE ~(x <= c)
    <3>1. x - c \in 1 .. n /\ x = c + (x - c)
      BY <2>2
    <3> QED
      BY <3>1
  <2> QED
    BY <2>1, <2>2
<1>2. \A i \in 1 .. n : c + i \in 1 .. c + n
  OBVIOUS
<1>3. 1 .. c \subseteq 1 .. c + n
  OBVIOUS
<1> QED
  BY <1>1, <1>2, <1>3

\* Multiples of c are closed under sum and difference.
LEMMA Multiples ==
    ASSUME NEW c \in Nat \ {0}, NEW a \in Int, NEW b \in Int, a % c = 0, b % c = 0
    PROVE  (a + b) % c = 0 /\ (a - b) % c = 0
<1> DEFINE p == a \div c  q == b \div c
<1>1. p \in Int /\ q \in Int /\ a = c * p /\ b = c * q
  OBVIOUS
<1> HIDE DEF p, q
<1>2. a + b = c * (p + q) /\ a - b = c * (p - q)
  BY <1>1
<1>3. \A k \in Int : (c * k) % c = 0
  OBVIOUS
<1> QED
  BY <1>1, <1>2, <1>3

\* Products with c are multiples of c.
LEMMA Product ==
    ASSUME NEW c \in Nat \ {0}, NEW k \in Int
    PROVE  (c * k) % c = 0 /\ (k * c) % c = 0
  OBVIOUS

\* A multiple of c moves a number by whole turns.
LEMMA WholeTurns ==
    ASSUME NEW c \in Nat \ {0}, NEW a \in Int, NEW b \in Int, b % c = 0
    PROVE  /\ a % c = 0 <=> (a + b) % c = 0
           /\ a % c = 0 <=> (a - b) % c = 0
<1>1. a % c = 0 => (a + b) % c = 0 /\ (a - b) % c = 0
  BY Multiples
<1>2. ASSUME (a + b) % c = 0 PROVE ((a + b) - b) % c = 0
  <2>1. a + b \in Int
    OBVIOUS
  <2> QED
    BY <1>2, <2>1, Multiples
<1>3. ASSUME (a - b) % c = 0 PROVE ((a - b) + b) % c = 0
  <2>1. a - b \in Int
    OBVIOUS
  <2> QED
    BY <1>3, <2>1, Multiples
<1>4. (a + b) - b = a /\ (a - b) + b = a
  OBVIOUS
<1> QED
  BY <1>1, <1>2, <1>3, <1>4

\* Two numbers a whole number of turns apart are both multiples, or neither is.
LEMMA SameTurn ==
    ASSUME NEW c \in Nat \ {0}, NEW m \in Int, m % c = 0
    PROVE  \A a, b \in Int : b = a - m => (a % c = 0 <=> b % c = 0)
<1> TAKE a, b \in Int
<1>1. a % c = 0 <=> (a - m) % c = 0
  BY WholeTurns
<1> QED
  BY <1>1

\* Place i of a table with c columns: its row and its column.
LEMMA RowAndColumn ==
    ASSUME NEW c \in Nat \ {0}, NEW k \in Nat, NEW i \in 1 .. c * k
    PROVE  /\ (i - 1) \div c \in 0 .. k - 1 /\ (i - 1) % c \in 0 .. c - 1
           /\ ((i - 1) \div c) * c + ((i - 1) % c) = i - 1
<1>1. i - 1 \in Nat /\ i - 1 < c * k
  OBVIOUS
<1> QED
  BY <1>1

\* A set of naturals that is not empty has a least element.
LEMMA LeastNatural ==
    ASSUME NEW T \in SUBSET Nat, T # {}
    PROVE  \E n \in T : \A m \in T : n <= m
<1>1. IsWellFoundedOn(OpToRel(<, Nat), Nat)
  BY NatLessThanWellFounded
<1>2. PICK n \in T : \A m \in T : ~(<<m, n>> \in OpToRel(<, Nat))
  BY <1>1, WFMin
<1>3. ASSUME NEW m \in T, m < n
      PROVE  FALSE
  <2>1. <<m, n>> \in Nat \X Nat /\ <<m, n>>[1] < <<m, n>>[2]
    BY <1>3
  <2>2. <<m, n>> \in OpToRel(<, Nat)
    BY <2>1 DEF OpToRel
  <2> QED
    BY <1>2, <2>2
<1> QED
  BY <1>3

\* The least and the greatest number of a sequence that is not empty.
LEMMA Extremes ==
    ASSUME NEW s \in Seq(Nat), s # <<>>
    PROVE  /\ Min(Range(s)) \in Nat /\ Max(Range(s)) \in Nat
           /\ Min(Range(s)) \in Range(s) /\ Max(Range(s)) \in Range(s)
           /\ \A i \in 1 .. Len(s) : Min(Range(s)) <= s[i] /\ s[i] <= Max(Range(s))
<1>1. Len(s) \in Nat \ {0} /\ \A i \in 1 .. Len(s) : s[i] \in Nat
  BY EmptySeq, ElementOfSeq
<1>2. Range(s) = {s[i] : i \in 1 .. Len(s)}
  BY RangeEquality
<1>3. Range(s) \in SUBSET Nat /\ Range(s) # {}
  <2>1. s[1] \in Range(s)
    BY <1>1, <1>2
  <2> QED
    BY <1>1, <1>2, <2>1
<1>4. \E n \in Range(s) : \A m \in Range(s) : n <= m
  BY <1>3, LeastNatural
<1>5. Min(Range(s)) \in Range(s) /\ \A m \in Range(s) : Min(Range(s)) <= m
  BY <1>4 DEF Min
<1>6. \E k \in 1 .. Len(s) : \A i \in 1 .. Len(s) : s[i] <= s[k]
  <2> DEFINE Greatest(k, n) == k \in 1 .. n /\ \A i \in 1 .. n : s[i] <= s[k]
             Without == {n \in 1 .. Len(s) : ~ \E k \in 1 .. n : Greatest(k, n)}
  <2>1. SUFFICES ASSUME Without # {} PROVE FALSE
    <3>1. Len(s) \in 1 .. Len(s)
      BY <1>1
    <3>2. SUFFICES ASSUME Without = {} PROVE \E k \in 1 .. Len(s) : Greatest(k, Len(s))
      OBVIOUS
    <3> HIDE DEF Greatest
    <3> QED
      BY <3>1, <3>2
  <2>2. PICK n \in Without : \A m \in Without : n <= m
    <3>1. Without \in SUBSET Nat
      OBVIOUS
    <3> HIDE DEF Without
    <3> QED
      BY <2>1, <3>1, LeastNatural
  <2>3. n \in 1 .. Len(s) /\ ~ \E k \in 1 .. n : Greatest(k, n)
    <3> HIDE DEF Greatest
    <3> QED
      BY <2>2
  <2>4. n \in Nat /\ n - 1 \in Nat /\ n <= Len(s) /\ ~(n <= n - 1) /\ s[n] \in Nat
    BY <1>1, <2>3
  <2>5. n # 1
    BY <2>3
  <2>6. PICK k \in 1 .. n - 1 : Greatest(k, n - 1)
    <3>1. n - 1 \in 1 .. Len(s)
      BY <1>1, <2>4, <2>5
    <3> HIDE DEF Greatest
    <3>2. n - 1 \notin Without
      <4> HIDE DEF Without
      <4> QED
        BY <2>2, <2>4
    <3> QED
      BY <3>1, <3>2
  <2> HIDE DEF Without
  <2>7. k \in 1 .. n /\ n \in 1 .. n /\ s[k] \in Nat
    BY <1>1, <2>4, <2>6
  <2>8. CASE s[n] <= s[k]
    <3>1. \A i \in 1 .. n : i = n \/ i \in 1 .. n - 1
      BY <2>4
    <3>2. \A i \in 1 .. n : s[i] <= s[k]
      BY <2>6, <2>8, <3>1
    <3> QED
      BY <2>3, <2>7, <3>2
  <2>9. CASE s[k] <= s[n]
    <3>1. \A i \in 1 .. n : i = n \/ i \in 1 .. n - 1
      BY <2>4
    <3>2. \A i \in 1 .. n : s[i] <= s[n]
      <4>1. \A i \in 1 .. n : s[i] \in Nat
        BY <1>1, <2>4
      <4> QED
        BY <2>4, <2>6, <2>7, <2>9, <3>1, <4>1
    <3> QED
      BY <2>3, <2>7, <3>2
  <2> QED
    BY <2>4, <2>7, <2>8, <2>9
<1>7. \E n \in Range(s) : \A m \in Range(s) : n >= m
  BY <1>1, <1>2, <1>6
<1>8. Max(Range(s)) \in Range(s) /\ \A m \in Range(s) : Max(Range(s)) >= m
  BY <1>7 DEF Max
<1> QED
  BY <1>1, <1>2, <1>3, <1>5, <1>8

-----------------------------------------------------------------------------
(* Sequences of samples *)

\* The two halves of a sequence cut after n elements.
LEMMA SplitSeq ==
    ASSUME NEW S, NEW s \in Seq(S), NEW n \in Nat, n <= Len(s)
    PROVE  /\ SubSeq(s, 1, n) \in Seq(S) /\ Len(SubSeq(s, 1, n)) = n
           /\ SubSeq(s, n + 1, Len(s)) \in Seq(S)
           /\ Len(SubSeq(s, n + 1, Len(s))) = Len(s) - n
<1>1. Len(s) \in Nat /\ \A i \in 1 .. Len(s) : s[i] \in S
  BY LenProperties, ElementOfSeq
<1>2. SubSeq(s, 1, n) \in Seq(S) /\ Len(SubSeq(s, 1, n)) = n
  BY <1>1, SubSeqProperties
<1>3. /\ SubSeq(s, n + 1, Len(s)) \in Seq(S)
      /\ Len(SubSeq(s, n + 1, Len(s))) = Len(s) - n
  BY <1>1, SubSeqProperties
<1> QED
  BY <1>2, <1>3

\* The two halves of a sequence make it up again.
LEMMA HalvesMeet ==
    ASSUME NEW S, NEW s \in Seq(S), NEW n \in Nat, n <= Len(s)
    PROVE  SubSeq(s, 1, n) \o SubSeq(s, n + 1, Len(s)) = s
<1>1. Len(s) \in Nat /\ SubSeq(s, 1, Len(s)) = s
  BY LenProperties, SubSeqFull
<1>2. 1 \in 1 .. Len(s) + 1 /\ n \in 1 - 1 .. Len(s) /\ Len(s) \in n .. Len(s)
  BY <1>1
<1> QED
  BY <1>1, <1>2, ConcatAdjacentSubSeq

\* Joining and cutting sequences of one kind of sample.
LEMMA JoinedSeqs ==
    ASSUME NEW S
    PROVE  /\ \A s, t \in Seq(S) : s \o t \in Seq(S)
           /\ \A s, t, u \in Seq(S) : (s \o t) \o u = s \o (t \o u)
           /\ \A s \in Seq(S) : s \o <<>> = s
           /\ \A s, t \in Seq(S) : Range(s \o t) = Range(s) \cup Range(t)
<1>1. ASSUME NEW s \in Seq(S), NEW t \in Seq(S)
      PROVE  s \o t \in Seq(S) /\ Range(s \o t) = Range(s) \cup Range(t)
  BY ConcatProperties, RangeConcatenation
<1>2. ASSUME NEW s \in Seq(S), NEW t \in Seq(S), NEW u \in Seq(S)
      PROVE  (s \o t) \o u = s \o (t \o u)
  BY ConcatAssociative
<1>3. ASSUME NEW s \in Seq(S)
      PROVE  s \o <<>> = s
  BY ConcatEmptySeq
<1> QED
  BY <1>1, <1>2, <1>3

\* The samples of a sequence ascend.
Ascending(s) == \A i, j \in DOMAIN s : i < j => s[i] < s[j]

\* A concatenation ascends when both its parts do and the first is below the second.
LEMMA AscendingConcat ==
    ASSUME NEW S \in SUBSET Int, NEW s \in Seq(S), NEW t \in Seq(S)
    PROVE  Ascending(s \o t) <=> /\ Ascending(s) /\ Ascending(t)
                                 /\ \A x \in Range(s), y \in Range(t) : x < y
<1> DEFINE m == Len(s)  n == Len(t)  u == s \o t
<1>1. /\ m \in Nat /\ n \in Nat /\ DOMAIN s = 1 .. m /\ DOMAIN t = 1 .. n
      /\ u \in Seq(S) /\ Len(u) = m + n
      /\ \A i \in 1 .. m + n : u[i] = IF i <= m THEN s[i] ELSE t[i - m]
  BY LenProperties, ConcatProperties
<1>2. DOMAIN u = 1 .. m + n
  BY <1>1, LenProperties
<1>3. /\ Range(s) = {s[i] : i \in 1 .. m} /\ Range(t) = {t[i] : i \in 1 .. n}
  BY RangeEquality
<1>4. /\ \A i \in 1 .. m : u[i] = s[i] /\ i \in 1 .. m + n
      /\ \A i \in 1 .. n : u[i + m] = t[i] /\ i + m \in 1 .. m + n
  BY <1>1
<1> HIDE DEF m, n, u
<1>5. ASSUME Ascending(u)
      PROVE  /\ Ascending(s) /\ Ascending(t)
             /\ \A x \in Range(s), y \in Range(t) : x < y
  <2>1. Ascending(s)
    BY <1>1, <1>2, <1>4, <1>5 DEF Ascending
  <2>2. Ascending(t)
    <3>1. ASSUME NEW i \in 1 .. n, NEW j \in 1 .. n, i < j
          PROVE  t[i] < t[j]
      <4>1. /\ i + m \in DOMAIN u /\ j + m \in DOMAIN u /\ i + m < j + m
            /\ u[i + m] = t[i] /\ u[j + m] = t[j]
        BY <1>1, <1>2, <1>4, <3>1
      <4> QED
        BY <1>5, <4>1 DEF Ascending
    <3> QED
      BY <1>1, <3>1 DEF Ascending
  <2>3. ASSUME NEW i \in 1 .. m, NEW j \in 1 .. n
        PROVE  s[i] < t[j]
    <3>1. /\ i \in DOMAIN u /\ j + m \in DOMAIN u /\ i < j + m
          /\ u[i] = s[i] /\ u[j + m] = t[j]
      BY <1>1, <1>2, <1>4
    <3> QED
      BY <1>5, <3>1 DEF Ascending
  <2> QED
    BY <1>3, <2>1, <2>2, <2>3
<1>6. ASSUME Ascending(s), Ascending(t), \A x \in Range(s), y \in Range(t) : x < y
      PROVE  Ascending(u)
  <2>1. SUFFICES ASSUME NEW i \in 1 .. m + n, NEW j \in 1 .. m + n, i < j
                 PROVE  u[i] < u[j]
    BY <1>2 DEF Ascending
  <2>2. CASE j <= m
    <3>1. i \in 1 .. m /\ j \in 1 .. m /\ u[i] = s[i] /\ u[j] = s[j]
      BY <1>1, <1>4, <2>1, <2>2
    <3> QED
      BY <1>1, <1>6, <2>1, <3>1 DEF Ascending
  <2>3. CASE i <= m /\ ~(j <= m)
    <3>1. u[i] = s[i] /\ u[j] = t[j - m] /\ i \in 1 .. m /\ j - m \in 1 .. n
      BY <1>1, <2>1, <2>3 DEF u
    <3> QED
      BY <1>3, <1>6, <3>1
  <2>4. CASE ~(i <= m)
    <3>1. /\ u[i] = t[i - m] /\ u[j] = t[j - m] /\ i - m < j - m
          /\ i - m \in 1 .. n /\ j - m \in 1 .. n
      BY <1>1, <2>1, <2>4 DEF u
    <3> QED
      BY <1>1, <1>6, <3>1 DEF Ascending
  <2> QED
    BY <1>1, <2>2, <2>3, <2>4
<1> QED
  BY <1>5, <1>6 DEF u

\* The front of a pipeline that ascends.
LEMMA FrontAscends ==
    ASSUME NEW S \in SUBSET Int, NEW a \in Seq(S), NEW b \in Seq(S), NEW c \in Seq(S),
           NEW d \in Seq(S), Ascending(((a \o b) \o c) \o d)
    PROVE  Ascending(a \o b)
<1>1. a \o b \in Seq(S) /\ (a \o b) \o c \in Seq(S)
  BY JoinedSeqs
<1>2. Ascending((a \o b) \o c)
  BY <1>1, AscendingConcat
<1> QED
  BY <1>1, <1>2, AscendingConcat

\* A sequence that begins like another one begins with it.
LEMMA SamplesStart ==
    ASSUME NEW S \in SUBSET Int, NEW s \in Seq(S), NEW t \in Seq(S), Len(s) <= Len(t),
           \A i \in 1 .. Len(s) : t[i] = s[i]
    PROVE  SubSeq(t, 1, Len(s)) = s
<1>1. Len(s) \in Nat /\ \A i \in 1 .. Len(s) : t[i] \in S
  BY LenProperties, ElementOfSeq
<1>2. /\ SubSeq(t, 1, Len(s)) \in Seq(S) /\ Len(SubSeq(t, 1, Len(s))) = Len(s)
      /\ \A i \in 1 .. Len(s) : SubSeq(t, 1, Len(s))[i] = t[i]
  BY <1>1, SubSeqProperties
<1> QED
  BY <1>2, SeqEqual

-----------------------------------------------------------------------------
(* A pipeline of four sequences: received, frames, popped and ring *)

\* A part that is cut in two is still the same part.
LEMMA Regroup ==
    ASSUME NEW S, NEW a \in Seq(S), NEW b \in Seq(S), NEW n \in Nat, n <= Len(b)
    PROVE  (a \o SubSeq(b, 1, n)) \o SubSeq(b, n + 1, Len(b)) = a \o b
<1>1. SubSeq(b, 1, n) \in Seq(S) /\ SubSeq(b, n + 1, Len(b)) \in Seq(S)
  BY SplitSeq
<1>2. SubSeq(b, 1, n) \o SubSeq(b, n + 1, Len(b)) = b
  BY HalvesMeet
<1>3. \A x, y \in Seq(S) : (a \o x) \o y = a \o (x \o y)
  BY ConcatAssociative
<1> DEFINE front == SubSeq(b, 1, n)  rest == SubSeq(b, n + 1, Len(b))
<1> HIDE DEF front, rest
<1>4. (a \o front) \o rest = a \o (front \o rest)
  BY <1>1, <1>3 DEF front, rest
<1> QED
  BY <1>2, <1>4 DEF front, rest

\* A frame popped out of the ring (g) leaves the pipeline as it is.
LEMMA PipelinePops ==
    ASSUME NEW S, NEW a \in Seq(S), NEW g \in Seq(S), NEW n \in Nat, n <= Len(g)
    PROVE  (a \o SubSeq(g, 1, n)) \o SubSeq(g, n + 1, Len(g)) = (a \o <<>>) \o g
<1>1. a \o <<>> = a
  BY JoinedSeqs
<1> QED
  BY <1>1, Regroup

\* So does one (p) sent into the channel of frames (f).
LEMMA PipelineSends ==
    ASSUME NEW S, NEW r \in Seq(S), NEW f \in Seq(S), NEW p \in Seq(S)
    PROVE  (r \o (f \o p)) \o <<>> = (r \o f) \o p
<1>1. r \o (f \o p) \in Seq(S)
  BY JoinedSeqs
<1>2. (r \o (f \o p)) \o <<>> = r \o (f \o p)
  BY <1>1, JoinedSeqs
<1>3. r \o (f \o p) = (r \o f) \o p
  BY ConcatAssociative
<1> QED
  BY <1>2, <1>3

\* New samples at the end of the ring are new samples at the end of the pipeline.
LEMMA PipelineGrows ==
    ASSUME NEW S, NEW a \in Seq(S), NEW g \in Seq(S), NEW new \in Seq(S)
    PROVE  a \o (g \o new) = (a \o g) \o new
  BY JoinedSeqs

\* A frame that is dropped out of a pipeline that ascends: the rest ascends, and holds
\* every other sample and none of the dropped ones.
LEMMA PipelineDrops ==
    ASSUME NEW S \in SUBSET Int, NEW a \in Seq(S), NEW p \in Seq(S), NEW g \in Seq(S),
           Ascending((a \o p) \o g)
    PROVE  /\ (a \o <<>>) \o g = a \o g
           /\ Ascending(a \o g)
           /\ Range(a \o g) \cap Range(p) = {}
           /\ Range((a \o p) \o g) = Range(a \o g) \cup Range(p)
<1>1. a \o p \in Seq(S) /\ a \o <<>> = a
  BY JoinedSeqs
<1>2. /\ Range(a \o p) = Range(a) \cup Range(p)
      /\ Range((a \o p) \o g) = Range(a \o p) \cup Range(g)
      /\ Range(a \o g) = Range(a) \cup Range(g)
  BY <1>1, JoinedSeqs
<1>3. /\ Ascending(a \o p) /\ Ascending(g)
      /\ \A x \in Range(a) \cup Range(p), y \in Range(g) : x < y
  BY <1>1, <1>2, AscendingConcat
<1>4. Ascending(a) /\ \A x \in Range(a), y \in Range(p) : x < y
  BY <1>3, AscendingConcat
<1>5. Ascending(a \o g)
  BY <1>3, <1>4, AscendingConcat
<1>6. Range(p) \cap (Range(a) \cup Range(g)) = {}
  <2>1. Range(p) \subseteq Int
    BY RangeOfSeq
  <2>2. \A x \in Int : ~(x < x)
    OBVIOUS
  <2> QED
    BY <1>3, <1>4, <2>1, <2>2
<1> QED
  BY <1>1, <1>2, <1>5, <1>6

-----------------------------------------------------------------------------
(* Frames *)

\* A channel of at most c whole frames of p samples: how it grows and shrinks.
LEMMA WholeFrames ==
    ASSUME NEW p \in Nat \ {0}, NEW c \in Nat, NEW n, \E k \in 0 .. c : n = k * p
    PROVE  /\ n \in Nat /\ n <= c * p
           /\ n # 0 => p <= n /\ \E k \in 0 .. c : n - p = k * p
           /\ n < c * p => \E k \in 0 .. c : n + p = k * p
<1>1. PICK k \in 0 .. c : n = k * p
  OBVIOUS
<1>2. k \in Nat /\ c - k \in Nat /\ n \in Nat
  BY <1>1
<1>3. c * p = n + (c - k) * p /\ (c - k) * p >= 0
  BY <1>1, <1>2
<1>4. ASSUME n # 0 PROVE p <= n /\ k - 1 \in 0 .. c /\ n - p = (k - 1) * p
  <2>1. k # 0
    BY <1>1, <1>4
  <2>2. k - 1 \in Nat /\ n = (k - 1) * p + p /\ (k - 1) * p >= 0
    BY <1>1, <1>2, <2>1
  <2> QED
    BY <1>2, <2>2
<1>5. ASSUME n < c * p PROVE k + 1 \in 0 .. c /\ n + p = (k + 1) * p
  <2>1. k # c
    BY <1>1, <1>5
  <2> QED
    BY <1>1, <1>2, <2>1
<1> QED
  BY <1>2, <1>3, <1>4, <1>5
=============================================================================
