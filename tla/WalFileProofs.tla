--------------------------- MODULE WalFileProofs ----------------------------
(***************************************************************************)
(* Lemmas about the records of a WAL file and what its reader makes of     *)
(* them, for every size of header, payload and padding.                    *)
(***************************************************************************)
EXTENDS WalFile, SequenceTheorems, WellFoundedInduction, TLAPS

USE WalFileAssumption

Units == {Zero} \cup (FirstSequence .. LastSequence) \X (1 .. DataUnits)

\* How many sequences there are.
Sequences == LastSequence - FirstSequence + 1

-----------------------------------------------------------------------------
LEMMA WalSizes ==
  /\ HeaderUnits \in Nat \ {0} /\ PayloadUnits \in Nat \ {0} /\ PaddingUnits \in Nat
  /\ DataUnits \in Nat \ {0} /\ RecordUnits \in Nat \ {0}
  /\ HeaderUnits < DataUnits /\ DataUnits <= RecordUnits
  /\ Sequences \in Nat \ {0} /\ FirstSequence \in Nat /\ LastSequence \in Nat
BY DEF DataUnits, RecordUnits, Sequences

LEMMA DivideMultiple ==
  ASSUME NEW n \in Nat, NEW d \in Nat \ {0}, NEW r \in 0 .. d - 1
  PROVE  ((n * d + r) \div d) = n /\ ((n * d + r) % d) = r /\ n * d + r \in Nat
OBVIOUS

LEMMA ProductMonotonic ==
  ASSUME NEW a \in Nat, NEW b \in Nat, NEW c \in Nat, a <= b
  PROVE  a * c <= b * c /\ a * c \in Nat /\ b * c \in Nat
OBVIOUS

LEMMA ProductNext ==
  ASSUME NEW a \in Nat, NEW c \in Nat
  PROVE  (a + 1) * c = a * c + c /\ a * c \in Nat
OBVIOUS

LEMMA QuotientAndRest ==
  ASSUME NEW l \in Nat, NEW d \in Nat \ {0}
  PROVE  \E q \in Nat, r \in 0 .. d - 1 : l = q * d + r
<1>1. PICK q \in Nat : q = l \div d
  OBVIOUS
<1>2. PICK r \in 0 .. d - 1 : l = q * d + r
  BY <1>1
<1> QED BY <1>2

\* A quotient is the number of whole multiples.
LEMMA QuotientOf ==
  ASSUME NEW l \in Nat, NEW d \in Nat \ {0}
  PROVE  /\ (l \div d) \in Nat /\ (l \div d) * d <= l
         /\ \A m \in Nat : m * d <= l => m <= (l \div d)
<1>1. PICK q \in Nat : q = l \div d
  OBVIOUS
<1>2. PICK r \in 0 .. d - 1 : l = q * d + r
  BY <1>1
<1>3. \A m \in Nat : m * d <= l => m <= q
  <2>1. SUFFICES ASSUME NEW m \in Nat, q + 1 <= m PROVE ~(m * d <= l)
    BY <1>1
  <2>2. (q + 1) * d <= m * d /\ m * d \in Nat
    BY <2>1, ProductMonotonic
  <2>3. (q + 1) * d = q * d + d /\ q * d \in Nat
    BY ProductNext
  <2> QED BY <1>2, <2>2, <2>3
<1>4. q * d <= l
  <2>1. q * d \in Nat
    BY ProductNext
  <2> QED BY <1>2, <2>1
<1> QED BY <1>1, <1>3, <1>4

\* A set of numbers with a bound has a greatest.
LEMMA GreatestOf ==
  ASSUME NEW b \in Nat, NEW S \in SUBSET (0 .. b), S # {}
  PROVE  Max(S) \in S /\ \A y \in S : y <= Max(S)
<1>1. PICK T : T = {b - x : x \in S}
  OBVIOUS
<1>2. T \subseteq Nat /\ T # {}
  <2>1. \A x \in S : x \in Nat /\ b - x \in Nat
    OBVIOUS
  <2>2. T \subseteq Nat
    BY <1>1, <2>1
  <2>3. PICK x : x \in S
    OBVIOUS
  <2>4. b - x \in T
    BY <1>1, <2>3
  <2> QED BY <2>2, <2>4
<1>3. PICK t \in T : \A u \in T : ~(<<u, t>> \in OpToRel(<, Nat))
  BY <1>2, NatLessThanWellFounded, WFMin, Zenon
<1>4. \A u \in T : ~(u < t)
  BY <1>2, <1>3 DEF OpToRel
<1>5. PICK x \in S : t = b - x
  BY <1>1
<1>6. \A y \in S : x >= y
  <2>1. SUFFICES ASSUME NEW y \in S PROVE x >= y
    OBVIOUS
  <2>2. b - y \in T
    BY <1>1
  <2> QED BY <1>4, <1>5, <2>2
<1>7. \A y \in S : Max(S) >= y /\ Max(S) \in S
  BY <1>6, Zenon DEF Max
<1> QED BY <1>7

-----------------------------------------------------------------------------
\* Unit k of record n of the log.
LEMMA LogUnitOf ==
  ASSUME NEW n \in Nat, NEW k \in 1 .. RecordUnits
  PROVE  /\ n * RecordUnits + k \in Nat \ {0}
         /\ LogUnit(n * RecordUnits + k) = RecordImage(FirstSequence + n)[k]
<1>1. PICK d \in Nat \ {0} : d = RecordUnits
  BY WalSizes
<1>2. PICK r \in 0 .. d - 1 : r = k - 1
  BY <1>1
<1>3. PICK m \in Nat : m = n * d
  BY <1>1
<1>4. (m + k) - 1 = m + r /\ m + k \in Nat \ {0} /\ r + 1 = k
  BY <1>2, <1>3
<1>5. ((m + r) \div d) = n /\ ((m + r) % d) = r
  BY <1>3, DivideMultiple, Zenon
<1> QED BY <1>1, <1>3, <1>4, <1>5, Zenon DEF LogUnit

LEMMA ImageUnit ==
  ASSUME NEW n \in Nat, n < Sequences, NEW k \in 1 .. RecordUnits
  PROVE  RecordImage(FirstSequence + n)[k] \in Units
<1>1. FirstSequence + n \in FirstSequence .. LastSequence
  BY WalSizes DEF Sequences
<1> QED BY <1>1, WalSizes DEF RecordImage, Units

\* A part of a record is that part of its image.
LEMMA SegmentOfImage ==
  ASSUME NEW f \in Seq(Units), NEW n \in Nat, n < Sequences,
         NEW from \in 1 .. RecordUnits, NEW to \in 1 .. RecordUnits,
         \A k \in from .. to : f[n * RecordUnits + k] = RecordImage(FirstSequence + n)[k]
  PROVE  Segment(f, n, from, to) = SubSeq(RecordImage(FirstSequence + n), from, to)
<1>1. PICK N \in Nat : N = n * RecordUnits
  BY WalSizes
<1>2. PICK image : image = RecordImage(FirstSequence + n)
  OBVIOUS
<1>3. RecordUnits \in Nat
  BY WalSizes
<1>4. \A k \in from .. to : f[N + k] = image[k] /\ image[k] \in Units
  <2>1. \A k \in from .. to : k \in 1 .. RecordUnits
    BY <1>3
  <2> QED BY <1>1, <1>2, <2>1, ImageUnit
<1>5. PICK a : a = SubSeq(f, N + from, N + to)
  OBVIOUS
<1>6. PICK b : b = SubSeq(image, from, to)
  OBVIOUS
<1>7. \A i \in N + from .. N + to : f[i] \in Units
  <2>1. SUFFICES ASSUME NEW i \in N + from .. N + to PROVE f[i] \in Units
    OBVIOUS
  <2>2. i - N \in from .. to /\ N + (i - N) = i
    BY <1>1, <1>3
  <2> QED BY <1>4, <2>2
<1>8. /\ a \in Seq(Units) /\ Len(a) = IF N + from <= N + to THEN (N + to) - (N + from) + 1 ELSE 0
      /\ \A i \in 1 .. (N + to) - (N + from) + 1 : a[i] = f[(N + from) + i - 1]
  <2>1. N + from \in Int /\ N + to \in Int
    BY <1>3
  <2>2. /\ SubSeq(f, N + from, N + to) \in Seq(Units)
        /\ Len(SubSeq(f, N + from, N + to)) =
             IF N + from <= N + to THEN (N + to) - (N + from) + 1 ELSE 0
        /\ \A i \in 1 .. (N + to) - (N + from) + 1 :
             SubSeq(f, N + from, N + to)[i] = f[(N + from) + i - 1]
    BY <1>7, <2>1, SubSeqProperties
  <2> QED BY <1>5, <2>2, Zenon
<1>9. /\ b \in Seq(Units) /\ Len(b) = IF from <= to THEN to - from + 1 ELSE 0
      /\ \A i \in 1 .. to - from + 1 : b[i] = image[from + i - 1]
  <2>1. from \in Int /\ to \in Int /\ \A i \in from .. to : image[i] \in Units
    BY <1>4, <1>3
  <2>2. /\ SubSeq(image, from, to) \in Seq(Units)
        /\ Len(SubSeq(image, from, to)) = IF from <= to THEN to - from + 1 ELSE 0
        /\ \A i \in 1 .. to - from + 1 : SubSeq(image, from, to)[i] = image[from + i - 1]
    BY <2>1, SubSeqProperties
  <2> QED BY <1>6, <2>2, Zenon
<1>10. Len(a) = Len(b) /\ \A i \in 1 .. Len(b) : i \in 1 .. to - from + 1
  BY <1>1, <1>3, <1>8, <1>9
<1>11. \A i \in 1 .. Len(b) : a[i] = b[i]
  <2>1. SUFFICES ASSUME NEW i \in 1 .. Len(b) PROVE a[i] = b[i]
    OBVIOUS
  <2>2. /\ i \in 1 .. to - from + 1 /\ i \in 1 .. (N + to) - (N + from) + 1
        /\ (N + from) + i - 1 = N + (from + i - 1) /\ from + i - 1 \in from .. to
    BY <1>1, <1>3, <1>10
  <2>3. a[i] = f[N + (from + i - 1)] /\ b[i] = image[from + i - 1]
    BY <1>8, <1>9, <2>2
  <2> QED BY <1>4, <2>2, <2>3
<1>12. a = b
  <2>1. a \in Seq(Units) /\ b \in Seq(Units)
    BY <1>8, <1>9
  <2>2. Len(a) = Len(b) /\ \A i \in 1 .. Len(a) : a[i] = b[i]
    BY <1>10, <1>11, Zenon
  <2> QED BY <2>1, <2>2, SeqEqual, Zenon
<1> QED BY <1>1, <1>2, <1>5, <1>6, <1>12, Zenon DEF Segment

(***************************************************************************)
(* A whole record of the log, with a sequence left for it, is read.        *)
(***************************************************************************)
LEMMA LogRecordIsRead ==
  ASSUME NEW f \in Seq(Units), NEW n \in Nat, n < Sequences,
         (n + 1) * RecordUnits <= Len(f),
         \A k \in 1 .. RecordUnits :
           f[n * RecordUnits + k] = RecordImage(FirstSequence + n)[k]
  PROVE  ReadAnswer(f, n) = "Record"
<1>1. PICK N \in Nat : N = n * RecordUnits
  BY WalSizes
<1>2. PICK s \in FirstSequence .. LastSequence : s = FirstSequence + n
  BY WalSizes DEF Sequences
<1>3. N + RecordUnits <= Len(f) /\ Len(f) \in Nat
  BY <1>1, WalSizes, ProductNext
<1>4. \A units \in 0 .. RecordUnits : ~Cut(f, n, units)
  BY <1>1, <1>3, WalSizes DEF Cut
<1>5. /\ 0 \in 0 .. RecordUnits /\ 1 \in 0 .. RecordUnits /\ HeaderUnits \in 0 .. RecordUnits
      /\ DataUnits \in 0 .. RecordUnits /\ RecordUnits \in 0 .. RecordUnits
      /\ 1 \in 1 .. RecordUnits /\ HeaderUnits \in 1 .. RecordUnits
      /\ DataUnits \in 1 .. RecordUnits /\ HeaderUnits + 1 \in 1 .. RecordUnits
      /\ 1 <= HeaderUnits /\ 1 <= DataUnits
  BY WalSizes
<1>6. /\ ~Cut(f, n, 0) /\ ~Cut(f, n, 1) /\ ~Cut(f, n, HeaderUnits)
      /\ ~Cut(f, n, DataUnits) /\ ~Cut(f, n, RecordUnits)
  BY <1>4, <1>5
<1>7. PICK header : header = Segment(f, n, 1, HeaderUnits)
  OBVIOUS
<1>8. header = SubSeq(RecordImage(s), 1, HeaderUnits)
  <2>1. \A k \in 1 .. HeaderUnits : k \in 1 .. RecordUnits
    BY WalSizes
  <2>2. \A k \in 1 .. HeaderUnits : f[n * RecordUnits + k] = RecordImage(FirstSequence + n)[k]
    BY <2>1, Zenon
  <2> QED BY <1>2, <1>5, <1>7, <2>2, SegmentOfImage, Zenon
<1>9. Segment(f, n, HeaderUnits + 1, DataUnits) = SubSeq(RecordImage(s), HeaderUnits + 1, DataUnits)
  <2>1. \A k \in HeaderUnits + 1 .. DataUnits : k \in 1 .. RecordUnits
    BY WalSizes
  <2>2. \A k \in HeaderUnits + 1 .. DataUnits :
          f[n * RecordUnits + k] = RecordImage(FirstSequence + n)[k]
    BY <2>1, Zenon
  <2> QED BY <1>2, <1>5, <2>2, SegmentOfImage, Zenon
<1>10. header[1] = <<s, 1>>
  <2>1. \A k \in 1 .. HeaderUnits : RecordImage(s)[k] = <<s, k>>
    BY WalSizes DEF RecordImage
  <2>2. \A i \in 1 .. HeaderUnits : RecordImage(s)[i] \in Units
    BY <1>2, <2>1, WalSizes DEF Units
  <2>3. \A i \in 1 .. HeaderUnits - 1 + 1 :
          SubSeq(RecordImage(s), 1, HeaderUnits)[i] = RecordImage(s)[1 + i - 1]
    <3>1. 1 \in Int /\ HeaderUnits \in Int
      BY WalSizes
    <3> QED BY <2>2, <3>1, SubSeqProperties
  <2>4. SubSeq(RecordImage(s), 1, HeaderUnits)[1] = RecordImage(s)[1]
    BY <1>5, <2>3, WalSizes
  <2> QED BY <1>5, <1>8, <2>1, <2>4
<1>11. header[1][1] = s /\ header[1][2] # 0
  BY <1>10
<1>12. \A k \in DataUnits + 1 .. RecordUnits : f[n * RecordUnits + k] = Zero
  <2>1. SUFFICES ASSUME NEW k \in DataUnits + 1 .. RecordUnits
                 PROVE  f[n * RecordUnits + k] = Zero
    OBVIOUS
  <2>2. k \in 1 .. RecordUnits /\ ~(k <= DataUnits)
    BY WalSizes
  <2>3. RecordImage(FirstSequence + n)[k] = Zero
    BY <2>2, Zenon DEF RecordImage
  <2> QED BY <2>2, <2>3
<1>13. ~(FirstSequence + n > LastSequence)
  BY <1>2
<1> QED BY <1>2, <1>6, <1>7, <1>8, <1>9, <1>11, <1>12, <1>13, Zenon DEF ReadAnswer

\* What the reader finds: as many records as are read one after another.
LEMMA ValidRecordsIs ==
  ASSUME NEW f \in Seq(Units)
  PROVE  /\ ValidRecords(f) \in Nat /\ ValidRecords(f) * RecordUnits <= Len(f)
         /\ \A i \in 0 .. ValidRecords(f) - 1 : ReadAnswer(f, i) = "Record"
         /\ \A m \in Nat :
              m * RecordUnits <= Len(f) /\ (\A i \in 0 .. m - 1 : ReadAnswer(f, i) = "Record")
                => m <= ValidRecords(f)
<1>1. PICK q \in Nat : q = Len(f) \div RecordUnits
  BY WalSizes
<1>2. /\ q * RecordUnits <= Len(f)
      /\ \A m \in Nat : m * RecordUnits <= Len(f) => m <= q
  BY <1>1, WalSizes, QuotientOf
<1>3. PICK S : S = {n \in 0 .. q : \A i \in 0 .. n - 1 : ReadAnswer(f, i) = "Record"}
  OBVIOUS
<1>4. S \in SUBSET (0 .. q) /\ 0 \in S
  BY <1>3
<1>5. PICK v \in S : v = Max(S) /\ \A y \in S : y <= v
  BY <1>4, GreatestOf
<1>6. v = ValidRecords(f)
  BY <1>1, <1>3, <1>5, Zenon DEF ValidRecords
<1>7. v \in 0 .. q /\ \A i \in 0 .. v - 1 : ReadAnswer(f, i) = "Record"
  BY <1>3
<1>8. v * RecordUnits <= Len(f)
  <2>1. PICK d \in Nat : d = RecordUnits
    BY WalSizes
  <2>2. v * d <= q * d /\ v * d \in Nat /\ q * d \in Nat
    BY <1>7, ProductMonotonic
  <2> QED BY <1>2, <2>1, <2>2
<1>9. ASSUME NEW m \in Nat, m * RecordUnits <= Len(f),
             \A i \in 0 .. m - 1 : ReadAnswer(f, i) = "Record"
      PROVE  m <= v
  <2>1. m \in S
    BY <1>2, <1>3, <1>9
  <2> QED BY <1>5, <2>1
<1> QED BY <1>6, <1>7, <1>8, <1>9

(***************************************************************************)
(* A file that begins with m records of the log has at least m valid ones, *)
(* and one that is nothing but log has as many as fit.                     *)
(***************************************************************************)
LEMMA LogIsValid ==
  ASSUME NEW f \in Seq(Units), NEW m \in Nat, m <= Sequences, m * RecordUnits <= Len(f),
         \A k \in 1 .. m * RecordUnits : f[k] = LogUnit(k)
  PROVE  m <= ValidRecords(f)
<1>1. SUFFICES ASSUME NEW i \in 0 .. m - 1 PROVE ReadAnswer(f, i) = "Record"
  BY ValidRecordsIs
<1>2. i \in Nat /\ i < Sequences /\ i + 1 <= m
  BY WalSizes
<1>3. PICK d \in Nat \ {0} : d = RecordUnits
  BY WalSizes
<1>4. /\ (i + 1) * d <= m * d /\ (i + 1) * d = i * d + d
      /\ i * d \in Nat /\ m * d \in Nat
  BY <1>2, ProductMonotonic, ProductNext
<1>5. (i + 1) * RecordUnits <= Len(f)
  BY <1>3, <1>4
<1>6. ASSUME NEW k \in 1 .. RecordUnits
      PROVE  f[i * RecordUnits + k] = RecordImage(FirstSequence + i)[k]
  <2>1. i * RecordUnits + k \in 1 .. m * RecordUnits
    BY <1>3, <1>4
  <2> QED BY <1>2, <2>1, LogUnitOf
<1> QED BY <1>2, <1>5, <1>6, LogRecordIsRead

LEMMA LogHasAllThatFit ==
  ASSUME NEW f \in Seq(Units), IsLog(f), NEW m \in Nat, NEW r \in 0 .. RecordUnits - 1,
         Len(f) = m * RecordUnits + r, m <= Sequences
  PROVE  ValidRecords(f) = m
<1>1. PICK d \in Nat \ {0} : d = RecordUnits
  BY WalSizes
<1>2. PICK p \in Nat : p = m * d
  OBVIOUS
<1>3. p + r \in Nat /\ Len(f) = p + r /\ p <= Len(f)
  BY <1>1, <1>2
<1>4. m <= ValidRecords(f)
  <2>1. \A k \in 1 .. m * RecordUnits : f[k] = LogUnit(k)
    BY <1>1, <1>2, <1>3 DEF IsLog
  <2> QED BY <1>1, <1>2, <1>3, <2>1, LogIsValid
<1>5. ~(m + 1 <= ValidRecords(f))
  <2>1. SUFFICES ASSUME m + 1 <= ValidRecords(f) PROVE FALSE
    OBVIOUS
  <2>2. PICK v \in Nat : v = ValidRecords(f) /\ v * d <= Len(f)
    BY <1>1, ValidRecordsIs
  <2>3. (m + 1) * d <= v * d /\ (m + 1) * d = p + d /\ v * d \in Nat
    BY <1>2, <2>1, <2>2, ProductMonotonic, ProductNext
  <2> QED BY <1>1, <1>3, <2>2, <2>3
<1> QED BY <1>4, <1>5, ValidRecordsIs

-----------------------------------------------------------------------------
\* A power loss takes nothing before `durable` and leaves no other units
\* than there were, or zeros.
LEMMA PowerLossKeeps ==
  ASSUME NEW f \in Seq(Units), NEW d \in 0 .. Len(f), NEW image \in PowerLossImages(f, d)
  PROVE  /\ image \in Seq(Units) /\ Len(image) \in d .. Len(f)
         /\ \A k \in 1 .. d : image[k] = f[k]
<1>1. PICK n \in d .. Len(f) : \E lost \in SUBSET (d + 1 .. n) :
        image = [k \in 1 .. n |-> IF k \in lost THEN Zero ELSE f[k]]
  <2>1. PICK S : S \in {{[k \in 1 .. n |-> IF k \in lost THEN Zero ELSE f[k]] :
                           lost \in SUBSET (d + 1 .. n)} : n \in d .. Len(f)}
                 /\ image \in S
    BY Zenon DEF PowerLossImages
  <2>2. PICK n \in d .. Len(f) :
          S = {[k \in 1 .. n |-> IF k \in lost THEN Zero ELSE f[k]] :
                 lost \in SUBSET (d + 1 .. n)}
    BY <2>1, Zenon
  <2>3. \E lost \in SUBSET (d + 1 .. n) :
          image = [k \in 1 .. n |-> IF k \in lost THEN Zero ELSE f[k]]
    BY <2>1, <2>2, Zenon
  <2> QED BY <2>3, Zenon
<1>2. PICK lost \in SUBSET (d + 1 .. n) :
        image = [k \in 1 .. n |-> IF k \in lost THEN Zero ELSE f[k]]
  BY <1>1
<1>3. n \in Nat /\ d \in Nat /\ Len(f) \in Nat /\ d <= n /\ n <= Len(f)
  BY <1>1
<1>4. \A k \in 1 .. n : image[k] = IF k \in lost THEN Zero ELSE f[k]
  BY <1>2
<1>5. \A k \in 1 .. n : image[k] \in Units
  BY <1>3, <1>4 DEF Units
<1>6. image \in Seq(Units) /\ Len(image) = n
  <2>1. image \in [1 .. n -> Units]
    BY <1>2, <1>5
  <2> QED BY <1>3, <2>1
<1>7. \A k \in 1 .. d : k \in 1 .. n /\ k \notin lost
  BY <1>3
<1> QED BY <1>1, <1>4, <1>6, <1>7

\* It may also take nothing.
LEMMA PowerLossMayKeepAll ==
  ASSUME NEW f \in Seq(Units), NEW d \in 0 .. Len(f)
  PROVE  f \in PowerLossImages(f, d)
<1>1. PICK n \in d .. Len(f) : n = Len(f)
  OBVIOUS
<1>2. {} \in SUBSET (d + 1 .. n)
  OBVIOUS
<1>3. [k \in 1 .. n |-> IF k \in {} THEN Zero ELSE f[k]] = f
  BY <1>1
<1>4. f \in {[k \in 1 .. n |-> IF k \in lost THEN Zero ELSE f[k]] :
               lost \in SUBSET (d + 1 .. n)}
  BY <1>2, <1>3
<1>5. PICK S : S = {[k \in 1 .. n |-> IF k \in lost THEN Zero ELSE f[k]] :
                      lost \in SUBSET (d + 1 .. n)}
  OBVIOUS
<1>6. S \in {{[k \in 1 .. m |-> IF k \in lost THEN Zero ELSE f[k]] :
                 lost \in SUBSET (d + 1 .. m)} : m \in d .. Len(f)}
  BY <1>5, Zenon
<1>7. f \in S
  BY <1>4, <1>5, Zenon
<1> QED BY <1>6, <1>7, Zenon DEF PowerLossImages

\* The units of the log that have a sequence.
LEMMA LogUnitIsUnit ==
  ASSUME NEW k \in 1 .. Sequences * RecordUnits
  PROVE  LogUnit(k) \in Units
<1>1. PICK d \in Nat \ {0} : d = RecordUnits
  BY WalSizes
<1>2. Sequences * d \in Nat /\ k \in Nat /\ 1 <= k /\ k <= Sequences * d
  BY <1>1, WalSizes, ProductNext
<1>3. PICK n \in Nat, r \in 0 .. d - 1 : k - 1 = n * d + r
  <2>1. k - 1 \in Nat
    BY <1>2
  <2> QED BY <2>1, QuotientAndRest
<1>4. PICK p \in Nat : p = n * d
  OBVIOUS
<1>5. k = p + (r + 1) /\ r + 1 \in 1 .. d /\ k - 1 = p + r
  BY <1>2, <1>3, <1>4
<1>6. n < Sequences
  <2>1. SUFFICES ASSUME Sequences <= n PROVE FALSE
    BY WalSizes
  <2>2. Sequences * d <= n * d
    BY <2>1, WalSizes, ProductMonotonic
  <2> QED BY <1>2, <1>4, <1>5, <2>2
<1>7. LogUnit(n * RecordUnits + (r + 1)) = RecordImage(FirstSequence + n)[r + 1]
  BY <1>1, <1>5, LogUnitOf
<1>8. RecordImage(FirstSequence + n)[r + 1] \in Units
  BY <1>1, <1>5, <1>6, ImageUnit
<1> QED BY <1>1, <1>4, <1>5, <1>7, <1>8

\* A part of a record is the same in two files that agree as far as it goes.
LEMMA SegmentIsLocal ==
  ASSUME NEW f \in Seq(Units), NEW g \in Seq(Units), NEW n \in Nat,
         NEW from \in 1 .. RecordUnits, NEW to \in 1 .. RecordUnits,
         n * RecordUnits + to <= Len(f), n * RecordUnits + to <= Len(g),
         \A k \in 1 .. n * RecordUnits + to : f[k] = g[k]
  PROVE  Segment(f, n, from, to) = Segment(g, n, from, to)
<1>1. PICK N \in Nat : N = n * RecordUnits
  BY WalSizes
<1>2. \A i \in 1 .. to - from + 1 : (N + from) + i - 1 \in 1 .. N + to
  BY WalSizes
<1>3. \A i \in N + from .. N + to : f[i] \in Units /\ g[i] \in Units
  BY <1>1, WalSizes
<1>4. N + from \in Int /\ N + to \in Int
  BY WalSizes
<1>5. /\ SubSeq(f, N + from, N + to) \in Seq(Units)
      /\ Len(SubSeq(f, N + from, N + to)) =
           IF N + from <= N + to THEN (N + to) - (N + from) + 1 ELSE 0
      /\ \A i \in 1 .. (N + to) - (N + from) + 1 :
           SubSeq(f, N + from, N + to)[i] = f[(N + from) + i - 1]
  BY <1>3, <1>4, SubSeqProperties
<1>6. /\ SubSeq(g, N + from, N + to) \in Seq(Units)
      /\ Len(SubSeq(g, N + from, N + to)) =
           IF N + from <= N + to THEN (N + to) - (N + from) + 1 ELSE 0
      /\ \A i \in 1 .. (N + to) - (N + from) + 1 :
           SubSeq(g, N + from, N + to)[i] = g[(N + from) + i - 1]
  BY <1>3, <1>4, SubSeqProperties
<1>7. PICK a \in Seq(Units) : a = SubSeq(f, N + from, N + to)
  BY <1>5
<1>8. PICK b \in Seq(Units) : b = SubSeq(g, N + from, N + to)
  BY <1>6
<1>9. Len(a) = Len(b) /\ \A i \in 1 .. Len(a) : i \in 1 .. to - from + 1
  BY <1>5, <1>6, <1>7, <1>8, WalSizes
<1>10. (N + to) - (N + from) + 1 = to - from + 1
  BY WalSizes
<1>11. \A i \in 1 .. Len(a) : a[i] = b[i]
  BY <1>1, <1>2, <1>5, <1>6, <1>7, <1>8, <1>9, <1>10
<1>12. a = b
  BY <1>9, <1>11
<1> QED BY <1>1, <1>7, <1>8, <1>12, Zenon DEF Segment

(***************************************************************************)
(* The answer for a record depends on the units of that record alone.      *)
(***************************************************************************)
LEMMA AnswerIsLocal ==
  ASSUME NEW f \in Seq(Units), NEW g \in Seq(Units), NEW n \in Nat,
         (n + 1) * RecordUnits <= Len(f), (n + 1) * RecordUnits <= Len(g),
         \A k \in 1 .. (n + 1) * RecordUnits : f[k] = g[k]
  PROVE  ReadAnswer(f, n) = ReadAnswer(g, n)
<1>1. PICK N \in Nat : N = n * RecordUnits
  BY WalSizes
<1>2. N + RecordUnits <= Len(f) /\ N + RecordUnits <= Len(g) /\ Len(f) \in Nat /\ Len(g) \in Nat
      /\ (n + 1) * RecordUnits = N + RecordUnits
  BY <1>1, WalSizes, ProductNext
<1>3. \A k \in 1 .. RecordUnits : f[N + k] = g[N + k] /\ f[N + k] \in Units
  BY <1>2, WalSizes
<1>4. ASSUME NEW from \in 1 .. RecordUnits, NEW to \in 1 .. RecordUnits
      PROVE  Segment(f, n, from, to) = Segment(g, n, from, to)
  <2>1. PICK e \in Nat : e = N + to /\ e <= N + RecordUnits
    BY WalSizes
  <2>2. e <= Len(f) /\ e <= Len(g) /\ \A k \in 1 .. e : k \in 1 .. N + RecordUnits
    BY <1>2, <2>1, WalSizes
  <2>3. \A k \in 1 .. e : f[k] = g[k]
    BY <1>2, <2>2
  <2>4. n * RecordUnits + to = e
    BY <1>1, <2>1
  <2> QED BY <2>2, <2>3, <2>4, SegmentIsLocal
<1>5. \A units \in 0 .. RecordUnits : ~Cut(f, n, units) /\ ~Cut(g, n, units)
  BY <1>1, <1>2, WalSizes DEF Cut
<1>6. /\ 0 \in 0 .. RecordUnits /\ 1 \in 0 .. RecordUnits /\ HeaderUnits \in 0 .. RecordUnits
      /\ DataUnits \in 0 .. RecordUnits /\ RecordUnits \in 0 .. RecordUnits
      /\ 1 \in 1 .. RecordUnits /\ HeaderUnits \in 1 .. RecordUnits
      /\ DataUnits \in 1 .. RecordUnits /\ HeaderUnits + 1 \in 1 .. RecordUnits
  BY WalSizes
<1>7. /\ ~Cut(f, n, 0) /\ ~Cut(f, n, 1) /\ ~Cut(f, n, HeaderUnits)
      /\ ~Cut(f, n, DataUnits) /\ ~Cut(f, n, RecordUnits)
      /\ ~Cut(g, n, 0) /\ ~Cut(g, n, 1) /\ ~Cut(g, n, HeaderUnits)
      /\ ~Cut(g, n, DataUnits) /\ ~Cut(g, n, RecordUnits)
  BY <1>5, <1>6
<1>8. /\ Segment(f, n, 1, HeaderUnits) = Segment(g, n, 1, HeaderUnits)
      /\ Segment(f, n, HeaderUnits + 1, DataUnits) = Segment(g, n, HeaderUnits + 1, DataUnits)
  BY <1>4, <1>6
<1>9. \A k \in DataUnits + 1 .. RecordUnits :
        f[n * RecordUnits + k] = g[n * RecordUnits + k]
  BY <1>1, <1>3, WalSizes
<1>10. (\E k \in DataUnits + 1 .. RecordUnits : f[n * RecordUnits + k] # Zero)
         <=> (\E k \in DataUnits + 1 .. RecordUnits : g[n * RecordUnits + k] # Zero)
  BY <1>9, Zenon
<1> QED BY <1>7, <1>8, <1>10, Zenon DEF ReadAnswer

\* A file cut where its valid records end has the same valid records.
LEMMA CutKeepsValid ==
  ASSUME NEW f \in Seq(Units)
  PROVE  /\ SubSeq(f, 1, ValidRecords(f) * RecordUnits) \in Seq(Units)
         /\ Len(SubSeq(f, 1, ValidRecords(f) * RecordUnits)) = ValidRecords(f) * RecordUnits
         /\ \A k \in 1 .. ValidRecords(f) * RecordUnits :
              SubSeq(f, 1, ValidRecords(f) * RecordUnits)[k] = f[k]
         /\ ValidRecords(SubSeq(f, 1, ValidRecords(f) * RecordUnits)) = ValidRecords(f)
<1>1. PICK v \in Nat : v = ValidRecords(f)
  BY ValidRecordsIs
<1>2. PICK d \in Nat \ {0} : d = RecordUnits
  BY WalSizes
<1>3. PICK c \in Nat : c = v * d
  OBVIOUS
<1>4. c <= Len(f) /\ Len(f) \in Nat
  BY <1>1, <1>2, <1>3, ValidRecordsIs
<1>5. PICK g : g = SubSeq(f, 1, c)
  OBVIOUS
<1>6. g \in Seq(Units) /\ Len(g) = c /\ \A k \in 1 .. c : g[k] = f[k]
  BY <1>4, <1>5
<1>7. \A i \in 0 .. v - 1 : ReadAnswer(g, i) = "Record"
  <2>1. SUFFICES ASSUME NEW i \in 0 .. v - 1 PROVE ReadAnswer(g, i) = "Record"
    OBVIOUS
  <2>2. i \in Nat /\ (i + 1) * d <= c
    BY <1>3, ProductMonotonic
  <2>3. (i + 1) * d \in Nat
    BY <2>2
  <2>4. \A k \in 1 .. (i + 1) * RecordUnits : f[k] = g[k]
    BY <1>2, <1>3, <1>6, <2>2, <2>3
  <2>5. ReadAnswer(f, i) = ReadAnswer(g, i)
    BY <1>2, <1>4, <1>6, <2>2, <2>3, <2>4, AnswerIsLocal
  <2> QED BY <1>1, <2>5, ValidRecordsIs
<1>8. v <= ValidRecords(g)
  BY <1>2, <1>3, <1>6, <1>7, ValidRecordsIs
<1>9. ~(v + 1 <= ValidRecords(g))
  <2>1. SUFFICES ASSUME v + 1 <= ValidRecords(g) PROVE FALSE
    OBVIOUS
  <2>2. PICK u \in Nat : u = ValidRecords(g) /\ u * d <= c
    BY <1>2, <1>6, ValidRecordsIs
  <2>3. (v + 1) * d <= u * d /\ (v + 1) * d = c + d /\ u * d \in Nat
    BY <1>3, <2>1, <2>2, ProductMonotonic, ProductNext
  <2> QED BY <2>2, <2>3
<1>10. ValidRecords(g) = v
  BY <1>6, <1>8, <1>9, ValidRecordsIs
<1> QED BY <1>1, <1>2, <1>3, <1>5, <1>6, <1>10, Zenon

-----------------------------------------------------------------------------
\* The first unit of a header tells its sequence.
LEMMA HeaderOfImage ==
  ASSUME NEW s
  PROVE  /\ SubSeq(RecordImage(s), 1, HeaderUnits)[1] = <<s, 1>>
         /\ Len(SubSeq(RecordImage(s), 1, HeaderUnits)) = HeaderUnits
<1>1. PICK image : image = RecordImage(s)
  OBVIOUS
<1>2. PICK S : S = {image[i] : i \in 1 .. HeaderUnits}
  OBVIOUS
<1>3. /\ 1 \in Int /\ HeaderUnits \in Int /\ 1 <= HeaderUnits /\ 1 \in 1 .. HeaderUnits - 1 + 1
      /\ 1 \in 1 .. RecordUnits /\ 1 <= DataUnits
  BY WalSizes
<1>4. \A i \in 1 .. HeaderUnits : image[i] \in S
  BY <1>2
<1>5. /\ Len(SubSeq(image, 1, HeaderUnits)) =
           IF 1 <= HeaderUnits THEN HeaderUnits - 1 + 1 ELSE 0
      /\ \A i \in 1 .. HeaderUnits - 1 + 1 : SubSeq(image, 1, HeaderUnits)[i] = image[1 + i - 1]
  BY <1>3, <1>4, SubSeqProperties
<1>6. image[1] = <<s, 1>>
  BY <1>1, <1>3, Zenon DEF RecordImage
<1>7. Len(SubSeq(image, 1, HeaderUnits)) = HeaderUnits
  BY <1>3, <1>5
<1>8. SubSeq(image, 1, HeaderUnits)[1] = image[1]
  BY <1>3, <1>5
<1> QED BY <1>1, <1>6, <1>7, <1>8

(***************************************************************************)
(* The answer for a record, from what there is of it: the cases of         *)
(* ReadAnswer as a reader meets them, part by part.                        *)
(***************************************************************************)
HeaderRead(f, n) ==
  Segment(f, n, 1, HeaderUnits) = SubSeq(RecordImage(FirstSequence + n), 1, HeaderUnits)

PayloadRead(f, n) ==
  Segment(f, n, HeaderUnits + 1, DataUnits) =
    SubSeq(RecordImage(FirstSequence + n), HeaderUnits + 1, DataUnits)

ZeroPadded(f, n) == \A k \in DataUnits + 1 .. RecordUnits : f[n * RecordUnits + k] = Zero

LEMMA AnswerOfCut ==
  ASSUME NEW f \in Seq(Units), NEW n \in Nat, n * RecordUnits <= Len(f)
  PROVE  /\ n * RecordUnits = Len(f) => ReadAnswer(f, n) = "EndOfLog"
         /\ n * RecordUnits < Len(f) /\ Len(f) < n * RecordUnits + HeaderUnits =>
              ReadAnswer(f, n) = "IncompleteRecordHeader"
<1>1. PICK N \in Nat : N = n * RecordUnits
  BY WalSizes
<1>2. ~Cut(f, n, 0)
  BY <1>1 DEF Cut
<1>3. CASE N = Len(f)
  <2>1. Cut(f, n, 1)
    BY <1>1, <1>3 DEF Cut
  <2> QED BY <1>1, <1>2, <1>3, <2>1 DEF ReadAnswer
<1>4. CASE N < Len(f) /\ Len(f) < N + HeaderUnits
  <2>1. ~Cut(f, n, 1) /\ Cut(f, n, HeaderUnits)
    BY <1>1, <1>4 DEF Cut
  <2>2. ReadAnswer(f, n) = "IncompleteRecordHeader"
    BY <1>2, <2>1, Zenon DEF ReadAnswer
  <2> QED BY <1>1, <1>4, <2>2
<1> QED BY <1>1, <1>3, <1>4

LEMMA AnswerOfHeader ==
  ASSUME NEW f \in Seq(Units), NEW n \in Nat, n * RecordUnits + HeaderUnits <= Len(f),
         NEW header, header = Segment(f, n, 1, HeaderUnits)
  PROVE  /\ n >= Sequences => ReadAnswer(f, n) = "UnexpectedSequence"
         /\ n < Sequences /\ header # SubSeq(RecordImage(header[1][1]), 1, HeaderUnits) =>
              ReadAnswer(f, n) = "InvalidRecordHeader"
         /\ n < Sequences /\ header = SubSeq(RecordImage(header[1][1]), 1, HeaderUnits)
              /\ header[1][1] # FirstSequence + n =>
              ReadAnswer(f, n) = "UnexpectedSequence"
<1>1. PICK N \in Nat : N = n * RecordUnits
  BY WalSizes
<1>2. ~Cut(f, n, 0) /\ ~Cut(f, n, 1) /\ ~Cut(f, n, HeaderUnits)
  BY <1>1, WalSizes DEF Cut
<1>3. n >= Sequences <=> FirstSequence + n > LastSequence
  BY WalSizes DEF Sequences
<1>4. n < Sequences <=> ~(FirstSequence + n > LastSequence)
  BY WalSizes DEF Sequences
<1>5. n >= Sequences => ReadAnswer(f, n) = "UnexpectedSequence"
  BY <1>2, <1>3, Zenon DEF ReadAnswer
<1>6. n < Sequences /\ header # SubSeq(RecordImage(header[1][1]), 1, HeaderUnits) =>
        ReadAnswer(f, n) = "InvalidRecordHeader"
  BY <1>2, <1>4, Zenon DEF ReadAnswer
<1>7. ASSUME n < Sequences, header[1][1] # FirstSequence + n,
             header = SubSeq(RecordImage(header[1][1]), 1, HeaderUnits)
      PROVE  ReadAnswer(f, n) = "UnexpectedSequence"
  <2>1. header[1][2] # 0
    <3>1. PICK s : s = header[1][1]
      OBVIOUS
    <3>2. header[1] = <<s, 1>>
      BY <1>7, <3>1, HeaderOfImage, Zenon
    <3> QED BY <3>2
  <2> QED BY <1>2, <1>4, <1>7, <2>1, Zenon DEF ReadAnswer
<1> QED BY <1>5, <1>6, <1>7, Zenon

LEMMA AnswerOfData ==
  ASSUME NEW f \in Seq(Units), NEW n \in Nat, n < Sequences,
         n * RecordUnits + HeaderUnits <= Len(f), HeaderRead(f, n)
  PROVE  /\ Len(f) < n * RecordUnits + DataUnits => ReadAnswer(f, n) = "IncompletePayload"
         /\ n * RecordUnits + DataUnits <= Len(f) /\ ~PayloadRead(f, n) =>
              ReadAnswer(f, n) = "InvalidPayloadCrc"
         /\ n * RecordUnits + DataUnits <= Len(f) /\ PayloadRead(f, n) =>
              /\ Len(f) < n * RecordUnits + RecordUnits => ReadAnswer(f, n) = "IncompletePadding"
              /\ n * RecordUnits + RecordUnits <= Len(f) =>
                   ReadAnswer(f, n) = IF ZeroPadded(f, n) THEN "Record" ELSE "NonZeroPadding"
<1>1. PICK N \in Nat : N = n * RecordUnits
  BY WalSizes
<1>2. ~Cut(f, n, 0) /\ ~Cut(f, n, 1) /\ ~Cut(f, n, HeaderUnits)
  BY <1>1, WalSizes DEF Cut
<1>3. ~(FirstSequence + n > LastSequence)
  BY WalSizes DEF Sequences
<1>4. PICK s : s = FirstSequence + n
  OBVIOUS
<1>5. PICK header : header = Segment(f, n, 1, HeaderUnits)
  OBVIOUS
<1>6. header[1] = <<s, 1>> /\ header = SubSeq(RecordImage(s), 1, HeaderUnits)
  BY <1>4, <1>5, HeaderOfImage, Zenon DEF HeaderRead
<1>7. header[1][1] = s /\ header[1][2] # 0
  BY <1>6
<1>8. Cut(f, n, DataUnits) <=> Len(f) < N + DataUnits
  BY <1>1 DEF Cut
<1>9. Cut(f, n, RecordUnits) <=> Len(f) < N + RecordUnits
  BY <1>1 DEF Cut
<1>10. CASE Len(f) < N + DataUnits
  <2>1. ReadAnswer(f, n) = "IncompletePayload"
    BY <1>2, <1>3, <1>4, <1>5, <1>6, <1>7, <1>8, <1>10, Zenon DEF ReadAnswer
  <2> QED BY <1>1, <1>10, <2>1, WalSizes
<1>11. CASE ~(Len(f) < N + DataUnits) /\ ~PayloadRead(f, n)
  <2>1. ReadAnswer(f, n) = "InvalidPayloadCrc"
    BY <1>2, <1>3, <1>4, <1>5, <1>6, <1>7, <1>8, <1>11, Zenon DEF ReadAnswer, PayloadRead
  <2> QED BY <1>1, <1>11, <2>1
<1>12. CASE ~(Len(f) < N + DataUnits) /\ PayloadRead(f, n) /\ Len(f) < N + RecordUnits
  <2>1. ReadAnswer(f, n) = "IncompletePadding"
    BY <1>2, <1>3, <1>4, <1>5, <1>6, <1>7, <1>8, <1>9, <1>12, Zenon DEF ReadAnswer, PayloadRead
  <2> QED BY <1>1, <1>12, <2>1, WalSizes
<1>13. CASE ~(Len(f) < N + DataUnits) /\ PayloadRead(f, n) /\ ~(Len(f) < N + RecordUnits)
  <2>1. ReadAnswer(f, n) = IF ZeroPadded(f, n) THEN "Record" ELSE "NonZeroPadding"
    BY <1>2, <1>3, <1>4, <1>5, <1>6, <1>7, <1>8, <1>9, <1>13, Zenon
       DEF ReadAnswer, PayloadRead, ZeroPadded
  <2> QED BY <1>1, <1>13, <2>1, WalSizes
<1> QED BY <1>10, <1>11, <1>12, <1>13

(***************************************************************************)
(* Every part of a record that a log holds is that of its image, and there *)
(* is a sequence for it.                                                   *)
(***************************************************************************)
LEMMA LogPart ==
  ASSUME NEW f \in Seq(Units), IsLog(f), NEW n \in Nat,
         NEW from \in 1 .. RecordUnits, NEW to \in 1 .. RecordUnits,
         n * RecordUnits + to <= Len(f)
  PROVE  /\ n < Sequences
         /\ Segment(f, n, from, to) = SubSeq(RecordImage(FirstSequence + n), from, to)
<1>1. PICK N \in Nat : N = n * RecordUnits
  BY WalSizes
<1>2. \A k \in 1 .. to : f[n * RecordUnits + k] = RecordImage(FirstSequence + n)[k]
  <2>1. SUFFICES ASSUME NEW k \in 1 .. to
                 PROVE  f[n * RecordUnits + k] = RecordImage(FirstSequence + n)[k]
    OBVIOUS
  <2>2. k \in 1 .. RecordUnits /\ N + k \in 1 .. Len(f)
    BY <1>1, WalSizes
  <2>3. f[n * RecordUnits + k] = LogUnit(n * RecordUnits + k)
    BY <1>1, <2>2 DEF IsLog
  <2> QED BY <2>2, <2>3, LogUnitOf
<1>3. n < Sequences
  <2>1. 1 \in 1 .. to /\ 1 <= DataUnits /\ 1 \in 1 .. RecordUnits /\ N + 1 \in 1 .. Len(f)
    BY <1>1, WalSizes
  <2>2. RecordImage(FirstSequence + n)[1] = <<FirstSequence + n, 1>>
    BY <2>1, Zenon DEF RecordImage
  <2>3. f[n * RecordUnits + 1] = <<FirstSequence + n, 1>>
    BY <1>2, <2>1, <2>2
  <2>4. <<FirstSequence + n, 1>> \in Units
    BY <1>1, <2>1, <2>3
  <2>5. FirstSequence + n \in FirstSequence .. LastSequence
    BY <2>4 DEF Units, Zero
  <2> QED BY <2>5, WalSizes DEF Sequences
<1>4. \A k \in from .. to : k \in 1 .. to
  BY WalSizes
<1>5. \A k \in from .. to : f[n * RecordUnits + k] = RecordImage(FirstSequence + n)[k]
  BY <1>2, <1>4, Zenon
<1> QED BY <1>3, <1>5, SegmentOfImage

LEMMA LogPadded ==
  ASSUME NEW f \in Seq(Units), IsLog(f), NEW n \in Nat,
         n * RecordUnits + RecordUnits <= Len(f)
  PROVE  ZeroPadded(f, n)
<1>1. PICK N \in Nat : N = n * RecordUnits
  BY WalSizes
<1>2. SUFFICES ASSUME NEW k \in DataUnits + 1 .. RecordUnits
               PROVE  f[n * RecordUnits + k] = Zero
  BY DEF ZeroPadded
<1>3. k \in 1 .. RecordUnits /\ ~(k <= DataUnits) /\ N + k \in 1 .. Len(f)
  BY <1>1, WalSizes
<1>4. f[n * RecordUnits + k] = LogUnit(n * RecordUnits + k)
  BY <1>1, <1>3 DEF IsLog
<1>5. RecordImage(FirstSequence + n)[k] = Zero
  BY <1>3, Zenon DEF RecordImage
<1> QED BY <1>3, <1>4, <1>5, LogUnitOf

\* The padding as a part of the record.
LEMMA PaddingIs ==
  ASSUME NEW f \in Seq(Units), NEW n \in Nat, n * RecordUnits + RecordUnits <= Len(f),
         NEW padding, padding = Segment(f, n, DataUnits + 1, RecordUnits)
  PROVE  (\A k \in 1 .. Len(padding) : padding[k] = Zero) <=> ZeroPadded(f, n)
<1>1. PICK N \in Nat : N = n * RecordUnits
  BY WalSizes
<1>2. PICK lo \in Nat : lo = N + (DataUnits + 1)
  BY WalSizes
<1>3. PICK hi \in Nat : hi = N + RecordUnits
  BY WalSizes
<1>4. padding = SubSeq(f, lo, hi)
  BY <1>1, <1>2, <1>3, Zenon DEF Segment
<1>5. \A i \in lo .. hi : f[i] \in Units
  BY <1>1, <1>2, <1>3, WalSizes
<1>6. /\ Len(SubSeq(f, lo, hi)) = IF lo <= hi THEN hi - lo + 1 ELSE 0
      /\ \A i \in 1 .. hi - lo + 1 : SubSeq(f, lo, hi)[i] = f[lo + i - 1]
  BY <1>5, SubSeqProperties
<1>7. Len(padding) = PaddingUnits
  BY <1>2, <1>3, <1>4, <1>6, WalSizes DEF RecordUnits
<1>8. \A i \in 1 .. PaddingUnits : padding[i] = f[N + (DataUnits + i)]
  <2>1. SUFFICES ASSUME NEW i \in 1 .. PaddingUnits PROVE padding[i] = f[N + (DataUnits + i)]
    OBVIOUS
  <2>2. i \in 1 .. hi - lo + 1 /\ lo + i - 1 = N + (DataUnits + i)
    BY <1>2, <1>3, WalSizes DEF RecordUnits
  <2> QED BY <1>4, <1>6, <2>2
<1>9. \A k \in DataUnits + 1 .. RecordUnits :
        k - DataUnits \in 1 .. PaddingUnits /\ DataUnits + (k - DataUnits) = k
  BY WalSizes DEF RecordUnits
<1>10. \A i \in 1 .. PaddingUnits : DataUnits + i \in DataUnits + 1 .. RecordUnits
  BY WalSizes DEF RecordUnits
<1>11. ASSUME ZeroPadded(f, n), NEW i \in 1 .. Len(padding) PROVE padding[i] = Zero
  BY <1>1, <1>7, <1>8, <1>10, <1>11 DEF ZeroPadded
<1>12. ASSUME \A k \in 1 .. Len(padding) : padding[k] = Zero,
              NEW k \in DataUnits + 1 .. RecordUnits
       PROVE  f[n * RecordUnits + k] = Zero
  <2>1. padding[k - DataUnits] = Zero /\ padding[k - DataUnits] = f[N + k]
    BY <1>7, <1>8, <1>9, <1>12
  <2> QED BY <1>1, <2>1
<1> QED BY <1>11, <1>12 DEF ZeroPadded

\* A set of numbers that is not empty has a least.
LEMMA LeastOf ==
  ASSUME NEW S \in SUBSET Nat, S # {}
  PROVE  Min(S) \in S /\ \A y \in S : Min(S) <= y
<1>1. PICK x \in S : \A y \in S : ~(<<y, x>> \in OpToRel(<, Nat))
  BY NatLessThanWellFounded, WFMin, Zenon
<1>2. \A y \in S : ~(y < x)
  BY <1>1 DEF OpToRel
<1>3. \A y \in S : x <= y
  BY <1>2
<1> QED BY <1>3, Zenon DEF Min
=============================================================================
