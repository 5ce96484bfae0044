-------------------------- MODULE WalReaderProofs ---------------------------
(***************************************************************************)
(* Theorems of WalReader: for every width of the types, every size of the  *)
(* headers, every set of configurations and every file.                    *)
(***************************************************************************)
EXTENDS WalReader, WalFileProofs

(***************************************************************************)
(* An aligned offset, when its test passes, is the least there is, and is  *)
(* computed without wrapping.                                              *)
(***************************************************************************)
LEMMA AlignUpIsLeast ==
  ASSUME NEW max \in Nat, NEW value \in Nat, NEW alignment \in Nat \ {0},
         AlignFits(value, alignment, max)
  PROVE  /\ AlignUp(value, alignment, max) \in 0 .. max
         /\ LeastAligned(AlignUp(value, alignment, max), value, alignment)
<1>1. PICK biased \in 0 .. max : biased = value + (alignment - 1)
  BY DEF AlignFits, AddFits
<1>2. PICK q \in Nat, r \in 0 .. alignment - 1 : biased = q * alignment + r
  <2>1. biased \in Nat
    OBVIOUS
  <2> QED BY <2>1, QuotientAndRest
<1>3. PICK product \in Nat : product = q * alignment
  OBVIOUS
<1>4. (biased \div alignment) = q /\ ((q * alignment) % alignment) = 0
  BY <1>2, DivideMultiple
<1>5. AlignUp(value, alignment, max) = product
  BY <1>1, <1>2, <1>3, <1>4 DEF AlignUp, Wrap
<1> QED BY <1>1, <1>2, <1>3, <1>4, <1>5 DEF LeastAligned

(***************************************************************************)
(* A difference of two sums that wrapped is right after the cast, when the *)
(* exact difference fits.                                                  *)
(***************************************************************************)
LEMMA CastUndoesWrap ==
  ASSUME NEW max \in Nat, NEW sum \in Nat, NEW padding \in 0 .. max
  PROVE  Wrap((sum + padding) - Wrap(sum, max), max) = padding
<1>1. PICK m : m = max + 1
  OBVIOUS
<1>2. m \in Nat \ {0} /\ padding \in 0 .. m - 1
  BY <1>1
<1>3. PICK q \in Nat, rest \in Nat : sum = q * m + rest /\ rest = (sum % m)
  <2>1. /\ sum \div m \in Nat /\ (sum % m) \in Nat
        /\ sum = (sum \div m) * m + (sum % m)
    BY <1>2
  <2> USE <2>1
  <2> WITNESS sum \div m \in Nat, (sum % m) \in Nat
  <2> QED BY <2>1, Zenon
<1>4. PICK product \in Nat : product = q * m
  BY <1>2
<1>5. (sum + padding) - rest = product + padding
  BY <1>3, <1>4
<1>6. ((q * m + padding) % m) = padding
  BY <1>2, <1>3, DivideMultiple, Zenon
<1>7. (((sum + padding) - (sum % m)) % m) = padding
  BY <1>3, <1>4, <1>5, <1>6, Zenon
<1> QED BY <1>1, <1>7, Zenon DEF Wrap

(***************************************************************************)
(* What an accepted configuration makes of a file is exact.                *)
(***************************************************************************)
LEMMA ConfigExact ==
  ASSUME NEW config,
         config.payload_size \in 0 .. FieldMax, config.alignment \in 0 .. FieldMax,
         ValidConfig(config)
  PROVE  LET data == RecordHeaderSize + config.payload_size
         IN  /\ LeastAligned(RecordsOffset(config), FileHeaderSize, config.alignment)
             /\ LeastAligned(AlignedRecordSize(config), data, config.alignment)
             /\ data + PaddingSize(config) = AlignedRecordSize(config)
<1> USE WalLayoutAssumption
<1> DEFINE data == RecordHeaderSize + config.payload_size
           stride == AlignedRecordSize(config)
<1>1. /\ config.alignment \in Nat \ {0} /\ config.payload_size \in Nat
      /\ RecordsOffset(config) # 0 /\ stride # 0
  BY DEF ValidConfig
<1>2. LeastAligned(RecordsOffset(config), FileHeaderSize, config.alignment)
  <2>1. /\ AlignFits(FileHeaderSize, config.alignment, OffsetMax)
        /\ RecordsOffset(config) = AlignUp(FileHeaderSize, config.alignment, OffsetMax)
    BY <1>1 DEF RecordsOffset
  <2> QED BY <1>1, <2>1, AlignUpIsLeast
<1>3. LeastAligned(stride, data, config.alignment) /\ stride \in Nat
  <2>1. /\ AlignFits(data, config.alignment, OffsetMax)
        /\ stride = AlignUp(data, config.alignment, OffsetMax)
    BY <1>1 DEF AlignedRecordSize
  <2>2. data \in Nat
    BY <1>1
  <2> QED BY <1>1, <2>1, <2>2, AlignUpIsLeast
<1>4. data + PaddingSize(config) = stride
  <2> DEFINE padding == stride - data
  <2>1. padding \in 0 .. FieldMax /\ data \in Nat /\ stride = data + padding
    BY <1>1, <1>3 DEF LeastAligned
  <2>2. PaddingSize(config) = Wrap((data + padding) - Wrap(data, FieldMax), FieldMax)
    BY <2>1 DEF PaddingSize
  <2>3. PaddingSize(config) = padding
    BY <2>1, <2>2, CastUndoesWrap
  <2> QED BY <2>1, <2>3
<1> QED BY <1>2, <1>3, <1>4

(***************************************************************************)
(* Neither the file header nor the reader's configuration changes.         *)
(***************************************************************************)
ConfigInv == expected \in Configs \cup {Own}

LEMMA ConfigInvariant == Spec => []ConfigInv
<1>1. Init => ConfigInv
  BY DEF Init, ConfigInv
<1>2. ConfigInv /\ [Next]_vars => ConfigInv'
  BY DEF ConfigInv, Next, vars, fileHeader, Grow, ReadNext, ReadHeader, ReadPayload,
         ReadPadding, ReadIoError, Close, Open, OpenFails
<1> QED BY <1>1, <1>2, PTL DEF Spec

(***************************************************************************)
(* The offsets, strides and paddings of every configuration a reader       *)
(* accepts are exact, for every width of the types.                        *)
(***************************************************************************)
THEOREM LayoutIsExact == Spec => []LayoutExact
<1>1. ConfigInv => LayoutExact
  <2> SUFFICES ASSUME ConfigInv, ValidReaderConfig(expected)
               PROVE  LayoutExact
    BY DEF LayoutExact
  <2> DEFINE config == [expected EXCEPT !.capacity = 1]
  <2>1. /\ config.payload_size = expected.payload_size
        /\ config.alignment = expected.alignment
    OBVIOUS
  <2>2. config.payload_size \in 0 .. FieldMax /\ config.alignment \in 0 .. FieldMax
    BY <2>1, ReaderAssumption DEF ConfigInv
  <2>3. ValidConfig(config)
    BY DEF ValidReaderConfig
  <2>4. /\ RecordsOffset(config) = RecordsOffset(expected)
        /\ AlignedRecordSize(config) = AlignedRecordSize(expected)
        /\ PaddingSize(config) = PaddingSize(expected)
    BY <2>1 DEF RecordsOffset, AlignedRecordSize, PaddingSize
  <2> HIDE DEF config
  <2> QED BY <2>1, <2>2, <2>3, <2>4, ConfigExact DEF LayoutExact
<1> QED BY <1>1, ConfigInvariant, PTL

-----------------------------------------------------------------------------
(***************************************************************************)
(* The first check that fails gives the error.                             *)
(***************************************************************************)
LEMMA FirstFailureIs ==
  ASSUME NEW n \in Nat, NEW checks, DOMAIN checks = 1 .. n
  PROVE  \/ FirstFailure(checks) = "None" /\ \A k \in 1 .. n : checks[k].passed
         \/ \E k \in 1 .. n :
              /\ ~checks[k].passed /\ FirstFailure(checks) = checks[k].error
              /\ \A j \in 1 .. n : j < k => checks[j].passed
<1>1. PICK S : S = {k \in DOMAIN checks : ~checks[k].passed}
  OBVIOUS
<1>2. CASE S = {}
  <2>1. FirstFailure(checks) = "None"
    BY <1>1, <1>2, Zenon DEF FirstFailure
  <2>2. \A k \in 1 .. n : checks[k].passed
    BY <1>1, <1>2
  <2> QED BY <2>1, <2>2
<1>3. CASE S # {}
  <2>1. S \in SUBSET Nat
    BY <1>1
  <2>2. PICK k \in S : k = Min(S) /\ \A j \in S : k <= j
    BY <1>3, <2>1, LeastOf
  <2>3. FirstFailure(checks) = checks[k].error
    BY <1>1, <1>3, <2>2, Zenon DEF FirstFailure
  <2>4. k \in 1 .. n /\ ~checks[k].passed
    BY <1>1
  <2>5. \A j \in 1 .. n : j < k => checks[j].passed
    <3>1. SUFFICES ASSUME NEW j \in 1 .. n, j < k, ~checks[j].passed PROVE FALSE
      OBVIOUS
    <3>2. j \in S
      BY <1>1, <3>1
    <3> QED BY <2>2, <2>4, <3>1, <3>2
  <2> QED BY <2>3, <2>4, <2>5
<1> QED BY <1>2, <1>3

(***************************************************************************)
(* What a read of some units finds.                                        *)
(***************************************************************************)
LEMMA ReadStatusIs ==
  ASSUME file \in Seq(Units), reader.offset \in 0 .. Len(file), NEW units \in Nat
  PROVE  /\ reader.offset + units <= Len(file) =>
              ReadStatus(units) = "Complete" /\ After(units) = reader.offset + units
         /\ Len(file) < reader.offset + units =>
              /\ ReadStatus(units) =
                   IF reader.offset = Len(file) THEN "EndOfFile" ELSE "Incomplete"
              /\ After(units) = Len(file)
<1>1. PICK o \in 0 .. Len(file) : o = reader.offset
  OBVIOUS
<1>2. PICK left \in Nat : left = Len(file) - o
  OBVIOUS
<1>3. left = 0 <=> o = Len(file)
  BY <1>2
<1>4. CASE o + units <= Len(file)
  <2>1. left >= units /\ ~(left = 0 /\ units # 0)
    BY <1>2, <1>4
  <2>2. ReadStatus(units) = "Complete"
    BY <1>1, <1>2, <2>1 DEF ReadStatus
  <2> QED BY <1>1, <1>4, <2>2 DEF After
<1>5. CASE Len(file) < o + units
  <2>1. ~(left >= units) /\ units # 0
    BY <1>2, <1>5
  <2>2. ReadStatus(units) = IF o = Len(file) THEN "EndOfFile" ELSE "Incomplete"
    BY <1>1, <1>2, <1>3, <2>1 DEF ReadStatus
  <2> QED BY <1>1, <1>5, <2>2 DEF After
<1> QED BY <1>1, <1>4, <1>5

\* What is read is a part of the record the reader is at.
LEMMA BytesAre ==
  ASSUME NEW n \in Nat, NEW from \in Nat, NEW units \in Nat,
         reader.offset = n * RecordUnits + from
  PROVE  Bytes(units) = Segment(file, n, from + 1, from + units)
<1>1. PICK N \in Nat : N = n * RecordUnits
  BY WalSizes
<1>2. (N + from) + 1 = N + (from + 1) /\ (N + from) + units = N + (from + units)
  BY <1>1
<1> QED BY <1>1, <1>2, Zenon DEF Bytes, Segment

\* The checks of a header, in their order.
LEMMA HeaderErrorIs ==
  ASSUME NEW header, header = Bytes(HeaderUnits), reader.exhausted \in BOOLEAN
  PROVE  LET whole == header = SubSeq(RecordImage(header[1][1]), 1, HeaderUnits)
         IN  /\ reader.exhausted => HeaderError = "UnexpectedSequence"
             /\ ~reader.exhausted /\ ~whole => HeaderError = "InvalidRecordHeader"
             /\ ~reader.exhausted /\ whole /\ header[1][1] # reader.next =>
                  HeaderError = "UnexpectedSequence"
             /\ ~reader.exhausted /\ whole /\ header[1][1] = reader.next =>
                  HeaderError = "None"
<1> DEFINE whole == header = SubSeq(RecordImage(header[1][1]), 1, HeaderUnits)
           checks ==
             <<[passed |-> ~reader.exhausted, error |-> "UnexpectedSequence"],
               [passed |-> whole, error |-> "InvalidRecordHeader"],
               [passed |-> header[1][1] = reader.next, error |-> "UnexpectedSequence"]>>
<1>1. HeaderError = FirstFailure(checks)
  BY Zenon DEF HeaderError
<1>2. DOMAIN checks = 1 .. 3
  OBVIOUS
<1>3. /\ (checks[1].passed <=> ~reader.exhausted) /\ checks[1].error = "UnexpectedSequence"
      /\ (checks[2].passed <=> whole) /\ checks[2].error = "InvalidRecordHeader"
      /\ (checks[3].passed <=> header[1][1] = reader.next)
      /\ checks[3].error = "UnexpectedSequence"
  OBVIOUS
<1>4. PICK c : c = checks
  OBVIOUS
<1>5. \A k \in 1 .. 3 : k = 1 \/ k = 2 \/ k = 3
  OBVIOUS
<1> HIDE DEF checks
<1>6. \/ FirstFailure(c) = "None" /\ \A k \in 1 .. 3 : c[k].passed
      \/ \E k \in 1 .. 3 :
           /\ ~c[k].passed /\ FirstFailure(c) = c[k].error
           /\ \A j \in 1 .. 3 : j < k => c[j].passed
  BY <1>2, <1>4, FirstFailureIs
<1>7. 1 \in 1 .. 3 /\ 2 \in 1 .. 3 /\ 3 \in 1 .. 3 /\ 1 < 2 /\ 1 < 3 /\ 2 < 3
  OBVIOUS
<1>8. CASE FirstFailure(c) = "None" /\ \A k \in 1 .. 3 : c[k].passed
  BY <1>1, <1>3, <1>4, <1>7, <1>8, Zenon
<1>9. ASSUME NEW k \in 1 .. 3, ~c[k].passed, FirstFailure(c) = c[k].error,
             \A j \in 1 .. 3 : j < k => c[j].passed
      PROVE  /\ reader.exhausted => HeaderError = "UnexpectedSequence"
             /\ ~reader.exhausted /\ ~whole => HeaderError = "InvalidRecordHeader"
             /\ ~reader.exhausted /\ whole /\ header[1][1] # reader.next =>
                  HeaderError = "UnexpectedSequence"
             /\ ~reader.exhausted /\ whole /\ header[1][1] = reader.next =>
                  HeaderError = "None"
  <2>1. CASE k = 1
    BY <1>1, <1>3, <1>4, <1>7, <1>9, <2>1, Zenon
  <2>2. CASE k = 2
    BY <1>1, <1>3, <1>4, <1>7, <1>9, <2>2, Zenon
  <2>3. CASE k = 3
    BY <1>1, <1>3, <1>4, <1>7, <1>9, <2>3, Zenon
  <2> QED BY <1>5, <2>1, <2>2, <2>3
<1> QED BY <1>6, <1>8, <1>9

-----------------------------------------------------------------------------
(***************************************************************************)
(* What the reader stands on.  The file is a log while a writer lives, and *)
(* does not change once there is none.                                     *)
(***************************************************************************)
SourceInv ==
  /\ file \in Seq(Units)
  /\ writer \in {"live", "stopped"}
  /\ writer = "live" => file \in Logs
  /\ expected \in Configs \cup {Own}
  /\ expected.first_sequence # FirstSequence => file = <<>> /\ writer = "stopped"

\* What has been returned are valid records, from the first on.
GotInv ==
  /\ got \in Seq(FirstSequence .. LastSequence)
  /\ \A k \in 1 .. Len(got) : got[k] = FirstSequence + k - 1
  /\ Len(got) <= Sequences /\ Len(got) * RecordUnits <= Len(file)
  /\ \A i \in 0 .. Len(got) - 1 : ReadAnswer(file, i) = "Record"

\* The sequence the reader waits for follows the last one it has returned.
NextInv ==
  /\ reader.exhausted => Len(got) = Sequences /\ reader.next = LastSequence
  /\ ~reader.exhausted => /\ reader.next = expected.first_sequence + Len(got)
                          /\ reader.next <= LastSequence
  /\ reader.nextOffset = Len(got) * RecordUnits

\* Where the descriptor is, and what the reader has found before it.
CursorInv ==
  /\ reader.failure = "None" /\ reader.pc = "idle" =>
       reader.offset = Len(got) * RecordUnits
  /\ reader.pc \in {"payload", "padding"} =>
       /\ reader.failure = "None" /\ ~reader.exhausted
       /\ Len(got) * RecordUnits + HeaderUnits <= Len(file) /\ HeaderRead(file, Len(got))
  /\ reader.pc = "payload" => reader.offset = Len(got) * RecordUnits + HeaderUnits
  /\ reader.pc = "padding" =>
       /\ reader.offset = Len(got) * RecordUnits + DataUnits
       /\ reader.offset <= Len(file) /\ PayloadRead(file, Len(got))

Delivering == {"None", "Record"}

\* What the last answer says of the file.
AnswerInv ==
  /\ answer \in Answers \cup {"None"}
  /\ reader.failure # "None" => reader.pc = "idle" /\ answer = reader.failure
  /\ reader.failure = "None" => answer \in Delivering \cup {"EndOfLog"}
  /\ writer = "stopped" /\ answer \notin Delivering \cup {"IoError"} =>
       reader.pc = "idle" /\ answer = ReadAnswer(file, Len(got))
  /\ IsLog(file) => answer \in Incomplete \cup Delivering \cup {"EndOfLog", "IoError"}

ReaderType ==
  reader \in [pc : {"closed", "idle", "payload", "padding"},
              offset : 0 .. Len(file), nextOffset : 0 .. Len(file),
              next : 0 .. LastSequence,
              failure : Answers \cup {"None"}, exhausted : BOOLEAN]

IInv ==
  /\ SourceInv /\ ReaderType /\ GotInv
  /\ IF reader.pc = "closed"
       THEN reader = Closed /\ got = <<>> /\ answer \in OpenErrors \cup {"None", "IoError"}
       ELSE NextInv /\ CursorInv /\ AnswerInv

-----------------------------------------------------------------------------
(***************************************************************************)
(* The files there are to read.                                            *)
(***************************************************************************)
LEMMA LogOfIs ==
  ASSUME NEW n \in 0 .. MaxUnits
  PROVE  LogOf(n) \in Seq(Units) /\ Len(LogOf(n)) = n /\ IsLog(LogOf(n))
<1>1. PICK most \in Nat : most = Sequences * RecordUnits
  BY WalSizes, ProductNext
<1>2. MaxUnits \in 0 .. most
  BY <1>1, ReaderAssumption DEF Sequences
<1>3. n \in Nat /\ \A k \in 1 .. n : k \in 1 .. most
  BY <1>2
<1>4. \A k \in 1 .. n : LogUnit(k) \in Units
  BY <1>1, <1>3, LogUnitIsUnit
<1>5. LogOf(n) \in [1 .. n -> Units]
  BY <1>4 DEF LogOf
<1>6. LogOf(n) \in Seq(Units) /\ Len(LogOf(n)) = n
  BY <1>3, <1>5
<1>7. \A k \in 1 .. n : LogOf(n)[k] = LogUnit(k)
  BY DEF LogOf
<1> QED BY <1>6, <1>7 DEF IsLog

LEMMA FilesAreUnits ==
  ASSUME NEW f \in Logs \cup DamagedFiles
  PROVE  f \in Seq(Units)
<1>1. CASE f \in Logs
  BY <1>1, LogOfIs DEF Logs
<1>2. CASE f \in DamagedFiles
  <2>1. ASSUME NEW g \in Logs, f \in Damaged(g)
        PROVE  f \in Seq(Units)
    <3>1. PICK k \in 1 .. Len(g), v \in {Zero, <<LastSequence, 1>>} : f = [g EXCEPT ![k] = v]
      BY <2>1 DEF Damaged
    <3>2. g \in Seq(Units)
      BY LogOfIs DEF Logs
    <3>3. v \in Units
      BY WalFileAssumption, WalSizes DEF Units
    <3> QED BY <3>1, <3>2, <3>3
  <2>2. ASSUME NEW n \in 0 .. MaxUnits \div RecordUnits, f \in Continued(n)
        PROVE  f \in Seq(Units)
    <3>1. PICK s \in FirstSequence .. LastSequence :
            f = LogOf(n * RecordUnits) \o RecordImage(s)
      BY <2>2 DEF Continued
    <3>2. n * RecordUnits \in 0 .. MaxUnits
      <4>1. PICK max \in Nat : max = MaxUnits
        BY ReaderAssumption
      <4>2. PICK d \in Nat \ {0} : d = RecordUnits
        BY WalSizes
      <4>3. PICK q \in Nat : q = max \div d /\ q * d <= max
        BY QuotientOf
      <4>4. n \in Nat /\ n <= q
        BY <4>1, <4>2, <4>3
      <4>5. n * d <= q * d /\ n * d \in Nat /\ q * d \in Nat
        BY <4>3, <4>4, ProductMonotonic
      <4> QED BY <4>1, <4>2, <4>3, <4>5
    <3>3. RecordImage(s) \in [1 .. RecordUnits -> Units]
      BY WalSizes DEF RecordImage, Units
    <3>4. RecordImage(s) \in Seq(Units)
      BY <3>3, WalSizes
    <3> QED BY <3>1, <3>2, <3>4, LogOfIs
  <2>3. \/ \E g \in Logs : f \in Damaged(g)
        \/ \E n \in 0 .. MaxUnits \div RecordUnits : f \in Continued(n)
    <3>1. CASE f \in UNION {Damaged(g) : g \in Logs}
      <4>1. PICK S \in {Damaged(g) : g \in Logs} : f \in S
        BY <3>1, Zenon
      <4> QED BY <4>1, Zenon
    <3>2. CASE f \in UNION {Continued(n) : n \in 0 .. MaxUnits \div RecordUnits}
      <4>1. PICK S \in {Continued(n) : n \in 0 .. MaxUnits \div RecordUnits} : f \in S
        BY <3>2, Zenon
      <4> QED BY <4>1, Zenon
    <3>3. \/ f \in UNION {Damaged(g) : g \in Logs}
          \/ f \in UNION {Continued(n) : n \in 0 .. MaxUnits \div RecordUnits}
      BY <1>2 DEF DamagedFiles
    <3> QED BY <3>1, <3>2, <3>3, Zenon
  <2> QED BY <2>1, <2>2, <2>3
<1> QED BY <1>1, <1>2

\* A closed reader.
LEMMA ClosedType ==
  ASSUME NEW most \in Nat
  PROVE  /\ Closed \in [pc : {"closed", "idle", "payload", "padding"},
                        offset : 0 .. most, nextOffset : 0 .. most, next : 0 .. LastSequence,
                        failure : Answers \cup {"None"}, exhausted : BOOLEAN]
         /\ Closed.pc = "closed" /\ Closed.failure = "None"
<1>1. PICK o : o = Opened
  OBVIOUS
<1>2. 0 \in 0 .. most /\ 0 \in 0 .. LastSequence
  BY WalSizes
<1>3. o \in [pc : {"closed", "idle", "payload", "padding"},
             offset : 0 .. most, nextOffset : 0 .. most, next : {expected.first_sequence},
             failure : {"None"}, exhausted : BOOLEAN]
  BY <1>1, <1>2 DEF Opened
<1>4. Closed = [o EXCEPT !.pc = "closed", !.next = 0]
  BY <1>1, Zenon DEF Closed
<1> QED BY <1>2, <1>3, <1>4

LEMMA InitHolds == Init => IInv
<1> SUFFICES ASSUME Init PROVE IInv
  OBVIOUS
<1>1. file \in Seq(Units) /\ writer \in {"live", "stopped"}
  <2>1. file \in Logs \cup DamagedFiles \/ file = <<>>
    BY DEF Init
  <2>2. file \in Seq(Units)
    <3>1. CASE file \in Logs \cup DamagedFiles
      BY <3>1, FilesAreUnits, Zenon
    <3>2. CASE file = <<>>
      BY <3>2
    <3> QED BY <2>1, <3>1, <3>2
  <2>3. writer \in {"live", "stopped"}
    BY DEF Init
  <2> QED BY <2>2, <2>3
<1>2. writer = "live" => file \in Logs
  BY DEF Init
<1>3. expected \in Configs \cup {Own}
  BY DEF Init
<1>4. expected.first_sequence # FirstSequence => file = <<>> /\ writer = "stopped"
  BY ReaderAssumption DEF Init
<1>5. reader = Closed /\ got = <<>> /\ answer = "None"
  BY DEF Init
<1>6. reader.pc = "closed" /\ ReaderType
  BY <1>1, <1>5, ClosedType DEF ReaderType
<1>7. GotInv
  BY <1>1, <1>5, WalSizes DEF GotInv
<1> QED BY <1>1, <1>2, <1>3, <1>4, <1>5, <1>6, <1>7 DEF IInv, SourceInv

(***************************************************************************)
(* The writer: what the reader has found stays as it is.                   *)
(***************************************************************************)
LEMMA GrowKeeps ==
  ASSUME IInv, Grow
  PROVE  IInv'
<1>1. PICK f \in Seq(Units) : f = file
  BY DEF IInv, SourceInv
<1>2. PICK n \in 0 .. MaxUnits : f = LogOf(n)
  BY <1>1 DEF IInv, SourceInv, Grow, Logs
<1>3. Len(f) = n /\ IsLog(f) /\ n + 1 \in 0 .. MaxUnits /\ n \in Nat
  BY <1>1, <1>2, LogOfIs, ReaderAssumption DEF Grow
<1>4. PICK g : g = file'
  OBVIOUS
<1>5. g = LogOf(n + 1)
  <2>1. g = Append(f, LogUnit(n + 1))
    BY <1>1, <1>3, <1>4 DEF Grow
  <2>2. LogOf(n + 1) \in Seq(Units) /\ Len(LogOf(n + 1)) = n + 1
    BY <1>3, LogOfIs
  <2>3. \A k \in 1 .. n + 1 : LogOf(n + 1)[k] = LogUnit(k)
    BY DEF LogOf
  <2>4. LogUnit(n + 1) \in Units
    BY <1>3, <2>2, <2>3
  <2>5. g \in Seq(Units) /\ Len(g) = n + 1 /\ g[n + 1] = LogUnit(n + 1)
        /\ \A k \in 1 .. n : g[k] = f[k]
    BY <1>3, <2>1, <2>4
  <2>6. \A k \in 1 .. n + 1 : g[k] = LogUnit(k)
    BY <1>3, <2>5 DEF IsLog
  <2>7. PICK h \in Seq(Units) : h = LogOf(n + 1)
    BY <2>2
  <2> QED BY <2>2, <2>3, <2>5, <2>6, <2>7
<1>6. g \in Seq(Units) /\ Len(g) = n + 1 /\ IsLog(g)
  BY <1>3, <1>5, LogOfIs
<1>7. \A k \in 1 .. n : f[k] = g[k]
  BY <1>3, <1>6 DEF IsLog
<1>8. UNCHANGED <<prefix, expected, writer, reader, got, answer>> /\ writer = "live"
  BY DEF Grow, fileHeader
<1>9. SourceInv'
  BY <1>3, <1>4, <1>5, <1>6, <1>8 DEF IInv, SourceInv, Logs
<1>10. ReaderType'
  BY <1>1, <1>3, <1>4, <1>6, <1>8 DEF IInv, ReaderType
<1>11. PICK N \in Nat : N = Len(got) * RecordUnits
  BY WalSizes DEF IInv, GotInv
<1>12. N <= n
  BY <1>1, <1>3, <1>11 DEF IInv, GotInv
<1>13. \A i \in 0 .. Len(got) - 1 : ReadAnswer(g, i) = "Record"
  <2>1. SUFFICES ASSUME NEW i \in 0 .. Len(got) - 1 PROVE ReadAnswer(g, i) = "Record"
    OBVIOUS
  <2>2. PICK d \in Nat : d = RecordUnits
    BY WalSizes
  <2>3. i \in Nat /\ i + 1 <= Len(got) /\ Len(got) \in Nat
    BY DEF IInv, GotInv
  <2>4. (i + 1) * d <= Len(got) * d /\ (i + 1) * d \in Nat
    BY <2>3, ProductMonotonic
  <2>5. PICK e \in Nat : e = (i + 1) * RecordUnits /\ e <= n
    BY <1>11, <1>12, <2>2, <2>4
  <2>6. \A k \in 1 .. e : f[k] = g[k]
    BY <1>7, <2>5
  <2>7. ReadAnswer(f, i) = ReadAnswer(g, i)
    BY <1>3, <1>6, <2>3, <2>5, <2>6, AnswerIsLocal
  <2> QED BY <1>1, <2>7 DEF IInv, GotInv
<1>14. GotInv'
  BY <1>1, <1>3, <1>4, <1>6, <1>8, <1>11, <1>12, <1>13 DEF IInv, GotInv
<1>15. CASE reader.pc = "closed"
  BY <1>8, <1>9, <1>10, <1>14, <1>15 DEF IInv, Closed, Opened
<1>16. CASE reader.pc # "closed"
  <2>1. NextInv /\ CursorInv /\ AnswerInv
    BY <1>16 DEF IInv
  <2>2. NextInv'
    BY <1>8, <2>1 DEF NextInv
  <2>3. ASSUME NEW from \in 1 .. RecordUnits, NEW to \in 1 .. RecordUnits, N + to <= n
        PROVE  Segment(f, Len(got), from, to) = Segment(g, Len(got), from, to)
    <3>1. PICK e \in Nat : e = Len(got) * RecordUnits + to /\ e <= n
      BY <1>11, <2>3
    <3>2. \A k \in 1 .. e : f[k] = g[k]
      BY <1>7, <3>1
    <3>3. Len(got) \in Nat
      BY DEF IInv, GotInv
    <3>4. /\ Len(got) * RecordUnits + to <= Len(f) /\ Len(got) * RecordUnits + to <= Len(g)
          /\ \A k \in 1 .. Len(got) * RecordUnits + to : f[k] = g[k]
      <4>1. e <= Len(f) /\ e <= Len(g)
        BY <1>3, <1>6, <3>1
      <4> QED BY <3>1, <3>2, <4>1, Zenon
    <3> QED BY <1>6, <3>3, <3>4, SegmentIsLocal, Zenon
  <2>4. /\ 1 \in 1 .. RecordUnits /\ HeaderUnits \in 1 .. RecordUnits
        /\ HeaderUnits + 1 \in 1 .. RecordUnits /\ DataUnits \in 1 .. RecordUnits
    BY WalSizes
  <2>5. N + HeaderUnits <= n /\ HeaderRead(f, Len(got)) => HeaderRead(g, Len(got))
    BY <2>3, <2>4, Zenon DEF HeaderRead
  <2>6. N + DataUnits <= n /\ PayloadRead(f, Len(got)) => PayloadRead(g, Len(got))
    BY <2>3, <2>4, Zenon DEF PayloadRead
  <2>7. CursorInv'
    BY <1>1, <1>3, <1>4, <1>6, <1>8, <1>11, <2>1, <2>5, <2>6, WalSizes DEF CursorInv
  <2>8. AnswerInv'
    BY <1>1, <1>3, <1>8, <2>1 DEF AnswerInv
  <2> QED BY <1>8, <1>9, <1>10, <1>14, <1>16, <2>2, <2>7, <2>8 DEF IInv
<1> QED BY <1>15, <1>16

-----------------------------------------------------------------------------
\* What the steps of an open reader start from.
LEMMA OpenState ==
  ASSUME IInv, reader.pc # "closed"
  PROVE  /\ NextInv /\ CursorInv /\ AnswerInv /\ GotInv /\ SourceInv /\ ReaderType
         /\ Len(got) \in Nat /\ Len(got) * RecordUnits \in Nat
         /\ file \in Seq(Units) /\ reader.offset \in 0 .. Len(file)
         /\ reader.exhausted \in BOOLEAN
         /\ file # <<>> => expected.first_sequence = FirstSequence
<1>1. NextInv /\ CursorInv /\ AnswerInv /\ GotInv /\ SourceInv /\ ReaderType
  BY DEF IInv
<1>2. Len(got) \in Nat /\ file \in Seq(Units)
  BY <1>1 DEF GotInv, SourceInv
<1>3. Len(got) * RecordUnits \in Nat
  BY <1>2, WalSizes
<1>4. reader.offset \in 0 .. Len(file) /\ reader.exhausted \in BOOLEAN
  BY <1>1 DEF ReaderType
<1> QED BY <1>1, <1>2, <1>3, <1>4 DEF SourceInv

\* With a record in front of it, a reader waits for the record's sequence,
\* unless there is none for it.
LEMMA WaitsForNext ==
  ASSUME IInv, reader.pc # "closed", file # <<>>
  PROVE  /\ reader.exhausted => Len(got) >= Sequences
         /\ ~reader.exhausted => /\ reader.next = FirstSequence + Len(got)
                                 /\ Len(got) < Sequences
<1>1. /\ reader.exhausted => Len(got) = Sequences
      /\ ~reader.exhausted => /\ reader.next = FirstSequence + Len(got)
                              /\ reader.next <= LastSequence
  BY OpenState DEF NextInv
<1>2. Len(got) \in Nat
  BY OpenState
<1> QED BY <1>1, <1>2, WalSizes DEF Sequences

Unread == <<fileHeader, file, writer, got>>

\* A new answer that is not a record or an input error is what the file
\* says of the next record at that moment.
Judged ==
  answer' \notin {answer, "Record", "IoError"} => answer' = ReadAnswer(file, Len(got))

\* The reader fails, for the reason the file gives or for none.
LEMMA FailKeeps ==
  ASSUME IInv, reader.pc # "closed", reader.failure = "None", UNCHANGED Unread,
         NEW units \in Nat, NEW status \in Answers \ {"EndOfLog", "Record"},
         FailWith(status, units),
         status = "IoError" \/ status = ReadAnswer(file, Len(got)),
         IsLog(file) => status \in Incomplete \cup {"IoError"}
  PROVE  IInv' /\ Judged
<1>1. UNCHANGED <<prefix, expected, file, writer, got>>
  BY DEF Unread, fileHeader
<1>2. After(units) \in 0 .. Len(file)
  <2>1. CASE reader.offset + units <= Len(file)
    BY <2>1, OpenState, ReadStatusIs
  <2>2. CASE Len(file) < reader.offset + units
    BY <2>2, OpenState, ReadStatusIs
  <2> QED BY <2>1, <2>2, OpenState
<1>3. PICK offset \in 0 .. Len(file) : offset = After(units)
  BY <1>2
<1>4. reader' = [reader EXCEPT !.pc = "idle", !.offset = offset, !.failure = status]
      /\ answer' = status
  BY <1>3 DEF FailWith
<1>5. ReaderType /\ NextInv /\ AnswerInv /\ GotInv /\ SourceInv
  BY OpenState
<1>6. ReaderType'
  BY <1>1, <1>4, <1>5 DEF ReaderType
<1>7. /\ reader'.pc = "idle" /\ reader'.failure = status /\ reader'.next = reader.next
      /\ reader'.exhausted = reader.exhausted /\ reader'.nextOffset = reader.nextOffset
  BY <1>4, <1>5 DEF ReaderType
<1>8. NextInv'
  BY <1>1, <1>5, <1>7 DEF NextInv
<1>9. status # "None" /\ status \in Answers
  BY DEF Answers, Incomplete
<1>10. CursorInv'
  BY <1>7, <1>9 DEF CursorInv
<1>11. AnswerInv'
  <2>1. /\ answer' \in Answers \cup {"None"}
        /\ reader'.failure # "None" => reader'.pc = "idle" /\ answer' = reader'.failure
        /\ reader'.failure = "None" => answer' \in Delivering \cup {"EndOfLog"}
    BY <1>4, <1>7, <1>9
  <2>2. (writer = "stopped" /\ answer \notin Delivering \cup {"IoError"} =>
           reader.pc = "idle" /\ answer = ReadAnswer(file, Len(got)))'
    BY <1>1, <1>4, <1>7
  <2>3. (IsLog(file) => answer \in Incomplete \cup Delivering \cup {"EndOfLog", "IoError"})'
    BY <1>1, <1>4
  <2> QED BY <2>1, <2>2, <2>3 DEF AnswerInv
<1>12. GotInv' /\ SourceInv'
  BY <1>1, <1>5 DEF GotInv, SourceInv
<1>13. Judged
  BY <1>4 DEF Judged
<1> QED BY <1>6, <1>7, <1>8, <1>10, <1>11, <1>12, <1>13 DEF IInv

LEMMA ReadHeaderKeeps ==
  ASSUME IInv, ReadHeader
  PROVE  IInv' /\ Judged
<1>1. reader.pc = "idle" /\ reader.failure = "None" /\ reader.pc # "closed"
  BY DEF ReadHeader
<1>2. UNCHANGED Unread
  BY DEF ReadHeader, Unread
<1>3. PICK n \in Nat : n = Len(got)
  BY <1>1, OpenState
<1>4. PICK N \in Nat : N = n * RecordUnits /\ reader.offset = N /\ N <= Len(file)
  BY <1>1, <1>3, OpenState DEF CursorInv
<1>5. /\ N + HeaderUnits <= Len(file) => ReadStatus(HeaderUnits) = "Complete"
      /\ Len(file) < N + HeaderUnits =>
           ReadStatus(HeaderUnits) = IF N = Len(file) THEN "EndOfFile" ELSE "Incomplete"
  BY <1>1, <1>4, OpenState, ReadStatusIs, WalSizes
<1>6. file \in Seq(Units) /\ Len(file) \in Nat
  BY <1>1, OpenState
<1>7. CASE Len(file) < N + HeaderUnits /\ N = Len(file)
  <2>1. answer' = "EndOfLog" /\ reader' = reader
    BY <1>5, <1>7 DEF ReadHeader
  <2>2. ReadAnswer(file, n) = "EndOfLog"
    BY <1>4, <1>6, <1>7, AnswerOfCut
  <2>3. AnswerInv'
    BY <1>1, <1>2, <1>3, <2>1, <2>2 DEF AnswerInv, Answers, Unread
  <2>4. (SourceInv /\ ReaderType /\ GotInv /\ NextInv /\ CursorInv)'
    BY <1>1, <1>2, <2>1, OpenState
       DEF SourceInv, ReaderType, GotInv, NextInv, CursorInv, Unread, fileHeader
  <2> QED BY <1>1, <1>3, <2>1, <2>2, <2>3, <2>4 DEF IInv, Judged
<1>8. CASE Len(file) < N + HeaderUnits /\ N # Len(file)
  <2>1. FailWith("IncompleteRecordHeader", HeaderUnits)
    BY <1>5, <1>8 DEF ReadHeader
  <2>2. ReadAnswer(file, n) = "IncompleteRecordHeader"
    BY <1>4, <1>6, <1>8, AnswerOfCut
  <2>3. "IncompleteRecordHeader" \in Answers \ {"EndOfLog", "Record"}
        /\ "IncompleteRecordHeader" \in Incomplete
    BY DEF Answers, Incomplete
  <2> QED BY <1>1, <1>2, <1>3, <2>1, <2>2, <2>3, FailKeeps, WalSizes
<1>9. CASE N + HeaderUnits <= Len(file)
  <2>1. PICK header : header = Bytes(HeaderUnits)
    OBVIOUS
  <2>2. PICK whole \in BOOLEAN : whole <=> header = SubSeq(RecordImage(header[1][1]), 1, HeaderUnits)
    OBVIOUS
  <2>3. header = Segment(file, n, 1, HeaderUnits)
    <3>1. reader.offset = n * RecordUnits + 0 /\ 0 + 1 = 1 /\ 0 + HeaderUnits = HeaderUnits
      BY <1>4, WalSizes
    <3> QED BY <2>1, <3>1, BytesAre, WalSizes
  <2>4. file # <<>>
    BY <1>6, <1>9, WalSizes
  <2>5. /\ reader.exhausted => n >= Sequences
        /\ ~reader.exhausted => reader.next = FirstSequence + n /\ n < Sequences
    BY <1>1, <1>3, <2>4, WaitsForNext
  <2>6. /\ reader.exhausted => HeaderError = "UnexpectedSequence"
        /\ ~reader.exhausted /\ ~whole => HeaderError = "InvalidRecordHeader"
        /\ ~reader.exhausted /\ whole /\ header[1][1] # reader.next =>
             HeaderError = "UnexpectedSequence"
        /\ ~reader.exhausted /\ whole /\ header[1][1] = reader.next => HeaderError = "None"
    BY <1>1, <2>1, <2>2, OpenState, HeaderErrorIs
  <2>7. n * RecordUnits + HeaderUnits <= Len(file)
    BY <1>4, <1>9
  <2>8. CASE HeaderError # "None"
    <3>1. FailWith(HeaderError, HeaderUnits)
      BY <1>5, <1>9, <2>8 DEF ReadHeader
    <3>2. HeaderError = ReadAnswer(file, n)
      <4>1. /\ n >= Sequences => ReadAnswer(file, n) = "UnexpectedSequence"
            /\ n < Sequences /\ ~whole => ReadAnswer(file, n) = "InvalidRecordHeader"
            /\ n < Sequences /\ whole /\ header[1][1] # FirstSequence + n =>
                 ReadAnswer(file, n) = "UnexpectedSequence"
        BY <1>6, <2>2, <2>3, <2>7, AnswerOfHeader
      <4> QED BY <2>5, <2>6, <2>8, <4>1, OpenState, <1>1
    <3>3. HeaderError \in {"UnexpectedSequence", "InvalidRecordHeader"}
      BY <2>6, <2>8, <1>1, OpenState
    <3>4. HeaderError \in Answers \ {"EndOfLog", "Record"}
      BY <3>3 DEF Answers, Incomplete
    <3>5. ~IsLog(file)
      <4>1. SUFFICES ASSUME IsLog(file) PROVE FALSE
        OBVIOUS
      <4>2. 1 \in 1 .. RecordUnits /\ HeaderUnits \in 1 .. RecordUnits
        BY WalSizes
      <4>3. n < Sequences /\ header = SubSeq(RecordImage(FirstSequence + n), 1, HeaderUnits)
        BY <1>6, <2>3, <2>7, <4>1, <4>2, LogPart
      <4>4. header[1] = <<FirstSequence + n, 1>>
        BY <4>3, HeaderOfImage
      <4>5. header[1][1] = FirstSequence + n
        BY <4>4
      <4>6. whole
        BY <2>2, <4>3, <4>5
      <4>7. ~(n >= Sequences)
        BY <4>3, WalSizes
      <4> QED BY <2>5, <2>6, <2>8, <4>5, <4>6, <4>7
    <3> QED BY <1>1, <1>2, <1>3, <3>1, <3>2, <3>4, <3>5, FailKeeps, WalSizes
  <2>9. CASE HeaderError = "None"
    <3>1. /\ reader' = [reader EXCEPT !.pc = "payload", !.offset = N + HeaderUnits]
          /\ answer' = answer
      BY <1>4, <1>5, <1>9, <2>9 DEF ReadHeader
    <3>2. ~reader.exhausted /\ whole /\ header[1][1] = FirstSequence + n /\ n < Sequences
      BY <2>5, <2>6, <2>9
    <3>3. HeaderRead(file, n)
      BY <2>2, <2>3, <3>2 DEF HeaderRead
    <3>4. ReadAnswer(file, n) # "EndOfLog"
      <4>1. \/ Len(file) < n * RecordUnits + DataUnits
            \/ n * RecordUnits + DataUnits <= Len(file) /\ ~PayloadRead(file, n)
            \/ PayloadRead(file, n) /\ n * RecordUnits + DataUnits <= Len(file)
                 /\ Len(file) < n * RecordUnits + RecordUnits
            \/ PayloadRead(file, n) /\ n * RecordUnits + DataUnits <= Len(file)
                 /\ n * RecordUnits + RecordUnits <= Len(file)
        BY <1>4, <1>6, WalSizes
      <4>2. ReadAnswer(file, n) \in {"IncompletePayload", "InvalidPayloadCrc", "IncompletePadding",
                                     "Record", "NonZeroPadding"}
        BY <1>6, <2>7, <3>2, <3>3, <4>1, AnswerOfData
      <4> QED BY <4>2
    <3>5. N + HeaderUnits \in 0 .. Len(file)
      BY <1>6, <1>9, WalSizes
    <3>6. /\ reader'.pc = "payload" /\ reader'.failure = "None" /\ reader'.next = reader.next
          /\ reader'.exhausted = reader.exhausted /\ reader'.nextOffset = reader.nextOffset
          /\ reader'.offset = N + HeaderUnits
      BY <1>1, <3>1, OpenState DEF ReaderType
    <3>7. ReaderType'
      BY <1>1, <1>2, <3>1, <3>5, OpenState DEF ReaderType, Unread
    <3>8. (SourceInv /\ GotInv /\ NextInv)'
      BY <1>1, <1>2, <3>6, OpenState DEF SourceInv, GotInv, NextInv, Unread, fileHeader
    <3>9. CursorInv'
      BY <1>2, <1>3, <1>4, <1>9, <3>2, <3>3, <3>6 DEF CursorInv, Unread
    <3>10. AnswerInv'
      BY <1>1, <1>2, <1>3, <3>1, <3>4, <3>6, OpenState DEF AnswerInv, Unread, Delivering
    <3> QED BY <3>1, <3>6, <3>7, <3>8, <3>9, <3>10 DEF IInv, Judged
  <2> QED BY <2>8, <2>9
<1> QED BY <1>4, <1>6, <1>7, <1>8, <1>9, WalSizes

LEMMA ReadPayloadKeeps ==
  ASSUME IInv, ReadPayload
  PROVE  IInv' /\ Judged
<1>1. reader.pc = "payload" /\ reader.pc # "closed" /\ UNCHANGED Unread
  BY DEF ReadPayload, Unread
<1>2. reader.failure = "None" /\ ~reader.exhausted
  BY <1>1, OpenState DEF CursorInv
<1>3. PICK n \in Nat : n = Len(got)
  BY <1>1, OpenState
<1>4. PICK N \in Nat : N = n * RecordUnits
  BY <1>3, WalSizes
<1>5. /\ reader.offset = N + HeaderUnits /\ N + HeaderUnits <= Len(file)
      /\ HeaderRead(file, n) /\ file \in Seq(Units) /\ Len(file) \in Nat
  BY <1>1, <1>3, <1>4, OpenState DEF CursorInv
<1>6. file # <<>>
  BY <1>5, WalSizes
<1>7. reader.next = FirstSequence + n /\ n < Sequences
  BY <1>1, <1>2, <1>3, <1>6, WaitsForNext
<1>8. HeaderUnits + PayloadUnits = DataUnits /\ (N + HeaderUnits) + PayloadUnits = N + DataUnits
  BY WalSizes DEF DataUnits
<1>9. ReadStatus(PayloadUnits) = "Complete" <=> N + DataUnits <= Len(file)
  <2>1. CASE N + DataUnits <= Len(file)
    BY <1>1, <1>5, <1>8, <2>1, OpenState, ReadStatusIs, WalSizes
  <2>2. CASE Len(file) < N + DataUnits
    <3>1. ReadStatus(PayloadUnits) = IF reader.offset = Len(file) THEN "EndOfFile" ELSE "Incomplete"
      BY <1>1, <1>5, <1>8, <2>2, OpenState, ReadStatusIs, WalSizes
    <3> QED BY <1>5, <2>2, <3>1, WalSizes
  <2> QED BY <1>5, <2>1, <2>2, WalSizes
<1>10. PayloadValid <=> PayloadRead(file, n)
  <2>1. Bytes(PayloadUnits) = Segment(file, n, HeaderUnits + 1, DataUnits)
    <3>1. reader.offset = n * RecordUnits + HeaderUnits /\ HeaderUnits \in Nat /\ PayloadUnits \in Nat
      BY <1>4, <1>5, WalSizes
    <3>2. Bytes(PayloadUnits) = Segment(file, n, HeaderUnits + 1, HeaderUnits + PayloadUnits)
      BY <3>1, BytesAre
    <3> QED BY <1>8, <3>2
  <2> QED BY <1>7, <2>1, Zenon DEF PayloadValid, PayloadRead
<1>11. CASE Len(file) < N + DataUnits
  <2>1. FailWith("IncompletePayload", PayloadUnits)
    BY <1>5, <1>9, <1>11, WalSizes DEF ReadPayload
  <2>2. ReadAnswer(file, n) = "IncompletePayload"
    BY <1>4, <1>5, <1>7, <1>11, AnswerOfData
  <2>3. "IncompletePayload" \in Answers \ {"EndOfLog", "Record"} /\ "IncompletePayload" \in Incomplete
    BY DEF Answers, Incomplete
  <2> QED BY <1>1, <1>2, <1>3, <2>1, <2>2, <2>3, FailKeeps, WalSizes
<1>12. CASE N + DataUnits <= Len(file) /\ ~PayloadRead(file, n)
  <2>1. FailWith("InvalidPayloadCrc", PayloadUnits)
    BY <1>9, <1>10, <1>12 DEF ReadPayload
  <2>2. ReadAnswer(file, n) = "InvalidPayloadCrc"
    BY <1>4, <1>5, <1>7, <1>12, AnswerOfData
  <2>3. "InvalidPayloadCrc" \in Answers \ {"EndOfLog", "Record"}
    BY DEF Answers, Incomplete
  <2>4. ~IsLog(file)
    <3>1. HeaderUnits + 1 \in 1 .. RecordUnits /\ DataUnits \in 1 .. RecordUnits
      BY WalSizes
    <3> QED BY <1>4, <1>5, <1>12, <3>1, LogPart DEF PayloadRead
  <2> QED BY <1>1, <1>2, <1>3, <2>1, <2>2, <2>3, <2>4, FailKeeps, WalSizes
<1>13. CASE N + DataUnits <= Len(file) /\ PayloadRead(file, n)
  <2>1. /\ reader' = [reader EXCEPT !.pc = "padding", !.offset = N + DataUnits]
        /\ answer' = answer
    BY <1>5, <1>8, <1>9, <1>10, <1>13 DEF ReadPayload
  <2>2. /\ reader'.pc = "padding" /\ reader'.failure = "None" /\ reader'.next = reader.next
        /\ reader'.exhausted = reader.exhausted /\ reader'.nextOffset = reader.nextOffset
        /\ reader'.offset = N + DataUnits
    BY <1>1, <1>2, <2>1, OpenState DEF ReaderType
  <2>3. N + DataUnits \in 0 .. Len(file)
    BY <1>5, <1>13, WalSizes
  <2>4. ReaderType'
    BY <1>1, <2>1, <2>3, OpenState DEF ReaderType, Unread
  <2>5. (SourceInv /\ GotInv /\ NextInv)'
    BY <1>1, <2>2, OpenState DEF SourceInv, GotInv, NextInv, Unread, fileHeader
  <2>6. CursorInv'
    BY <1>1, <1>2, <1>3, <1>4, <1>5, <1>13, <2>2 DEF CursorInv, Unread
  <2>7. AnswerInv'
    BY <1>1, <1>2, <2>1, <2>2, OpenState DEF AnswerInv, Unread, Delivering
  <2> QED BY <2>1, <2>2, <2>4, <2>5, <2>6, <2>7 DEF IInv, Judged
<1> QED BY <1>4, <1>5, <1>11, <1>12, <1>13, WalSizes

LEMMA AdvanceIs ==
  ASSUME NEW r, NEW most \in Nat,
         r \in [pc : {"closed", "idle", "payload", "padding"},
                offset : 0 .. most, nextOffset : 0 .. most, next : 0 .. LastSequence,
                failure : Answers \cup {"None"}, exhausted : BOOLEAN]
  PROVE  /\ Advance(r) \in [pc : {"closed", "idle", "payload", "padding"},
                            offset : 0 .. most, nextOffset : 0 .. most, next : 0 .. LastSequence,
                            failure : Answers \cup {"None"}, exhausted : BOOLEAN]
         /\ Advance(r).pc = r.pc /\ Advance(r).offset = r.offset
         /\ Advance(r).nextOffset = r.nextOffset /\ Advance(r).failure = r.failure
         /\ r.next = LastSequence => Advance(r).exhausted /\ Advance(r).next = LastSequence
         /\ r.next # LastSequence =>
              Advance(r).exhausted = r.exhausted /\ Advance(r).next = r.next + 1
<1>1. CASE r.next = LastSequence
  BY <1>1 DEF Advance
<1>2. CASE r.next # LastSequence
  <2>1. r.next + 1 \in 0 .. LastSequence
    BY <1>2, WalSizes
  <2> QED BY <1>2, <2>1 DEF Advance
<1> QED BY <1>1, <1>2

LEMMA ReadPaddingKeeps ==
  ASSUME IInv, ReadPadding
  PROVE  IInv' /\ Judged
<1>1. reader.pc = "padding" /\ reader.pc # "closed" /\ UNCHANGED <<fileHeader, file, writer>>
  BY DEF ReadPadding
<1>2. reader.failure = "None" /\ ~reader.exhausted
  BY <1>1, OpenState DEF CursorInv
<1>3. PICK n \in Nat : n = Len(got)
  BY <1>1, OpenState
<1>4. PICK N \in Nat : N = n * RecordUnits
  BY <1>3, WalSizes
<1>5. /\ reader.offset = N + DataUnits /\ N + DataUnits <= Len(file)
      /\ N + HeaderUnits <= Len(file) /\ HeaderRead(file, n) /\ PayloadRead(file, n)
      /\ file \in Seq(Units) /\ Len(file) \in Nat
  BY <1>1, <1>3, <1>4, OpenState DEF CursorInv
<1>6. file # <<>>
  BY <1>5, WalSizes
<1>7. reader.next = FirstSequence + n /\ n < Sequences
  BY <1>1, <1>2, <1>3, <1>6, WaitsForNext
<1>8. DataUnits + PaddingUnits = RecordUnits /\ (N + DataUnits) + PaddingUnits = N + RecordUnits
  BY WalSizes DEF RecordUnits
<1>9. ReadStatus(PaddingUnits) = "Complete" <=> N + RecordUnits <= Len(file)
  <2>1. CASE N + RecordUnits <= Len(file)
    BY <1>1, <1>5, <1>8, <2>1, OpenState, ReadStatusIs, WalSizes
  <2>2. CASE Len(file) < N + RecordUnits
    <3>1. ReadStatus(PaddingUnits) = IF reader.offset = Len(file) THEN "EndOfFile" ELSE "Incomplete"
      BY <1>1, <1>5, <1>8, <2>2, OpenState, ReadStatusIs, WalSizes
    <3> QED BY <1>5, <2>2, <3>1, WalSizes
  <2> QED BY <1>5, <2>1, <2>2, WalSizes
<1>10. N + RecordUnits <= Len(file) =>
         (PaddingValid(Bytes(PaddingUnits)) <=> ZeroPadded(file, n))
  <2>1. Bytes(PaddingUnits) = Segment(file, n, DataUnits + 1, RecordUnits)
    <3>1. reader.offset = n * RecordUnits + DataUnits /\ DataUnits \in Nat /\ PaddingUnits \in Nat
      BY <1>4, <1>5, WalSizes
    <3>2. Bytes(PaddingUnits) = Segment(file, n, DataUnits + 1, DataUnits + PaddingUnits)
      BY <3>1, BytesAre
    <3> QED BY <1>8, <3>2
  <2> QED BY <1>4, <1>5, <2>1, PaddingIs DEF PaddingValid
<1>11. CASE Len(file) < N + RecordUnits
  <2>1. FailWith("IncompletePadding", PaddingUnits) /\ UNCHANGED Unread
    BY <1>1, <1>5, <1>9, <1>11, WalSizes DEF ReadPadding, Unread
  <2>2. ReadAnswer(file, n) = "IncompletePadding"
    BY <1>4, <1>5, <1>7, <1>11, AnswerOfData
  <2>3. "IncompletePadding" \in Answers \ {"EndOfLog", "Record"} /\ "IncompletePadding" \in Incomplete
    BY DEF Answers, Incomplete
  <2> QED BY <1>1, <1>2, <1>3, <2>1, <2>2, <2>3, FailKeeps, WalSizes
<1>12. CASE N + RecordUnits <= Len(file) /\ ~ZeroPadded(file, n)
  <2>1. FailWith("NonZeroPadding", PaddingUnits) /\ UNCHANGED Unread
    BY <1>1, <1>9, <1>10, <1>12 DEF ReadPadding, Unread
  <2>2. ReadAnswer(file, n) = "NonZeroPadding"
    BY <1>4, <1>5, <1>7, <1>12, AnswerOfData
  <2>3. "NonZeroPadding" \in Answers \ {"EndOfLog", "Record"}
    BY DEF Answers, Incomplete
  <2>4. ~IsLog(file)
    BY <1>4, <1>5, <1>12, LogPadded
  <2> QED BY <1>1, <1>2, <1>3, <2>1, <2>2, <2>3, <2>4, FailKeeps, WalSizes
<1>13. CASE N + RecordUnits <= Len(file) /\ ZeroPadded(file, n)
  <2>1. PICK r : r = [reader EXCEPT !.pc = "idle", !.offset = @ + PaddingUnits,
                                    !.nextOffset = @ + RecordUnits]
    OBVIOUS
  <2>2. reader' = Advance(r) /\ got' = Append(got, reader.next) /\ answer' = "Record"
    BY <1>9, <1>10, <1>13, <2>1 DEF ReadPadding
  <2>3. PICK end \in 0 .. Len(file) : end = N + RecordUnits
    BY <1>5, <1>13, WalSizes
  <2>4. reader.offset + PaddingUnits = end /\ reader.nextOffset + RecordUnits = end
    BY <1>1, <1>3, <1>4, <1>5, <1>8, <2>3, OpenState DEF NextInv
  <2>5. /\ r \in [pc : {"closed", "idle", "payload", "padding"},
                  offset : 0 .. Len(file), nextOffset : 0 .. Len(file), next : 0 .. LastSequence,
                  failure : Answers \cup {"None"}, exhausted : BOOLEAN]
        /\ r.pc = "idle" /\ r.offset = end /\ r.nextOffset = end /\ r.next = reader.next
        /\ r.failure = "None" /\ r.exhausted = reader.exhausted
    <3>1. r = [reader EXCEPT !.pc = "idle", !.offset = end, !.nextOffset = end]
      BY <2>1, <2>4
    <3> QED BY <1>1, <1>2, <3>1, OpenState DEF ReaderType
  <2>6. /\ reader' \in [pc : {"closed", "idle", "payload", "padding"},
                        offset : 0 .. Len(file), nextOffset : 0 .. Len(file),
                        next : 0 .. LastSequence,
                        failure : Answers \cup {"None"}, exhausted : BOOLEAN]
        /\ reader'.pc = "idle" /\ reader'.offset = end /\ reader'.nextOffset = end
        /\ reader'.failure = "None"
        /\ reader.next = LastSequence => reader'.exhausted /\ reader'.next = LastSequence
        /\ reader.next # LastSequence => ~reader'.exhausted /\ reader'.next = reader.next + 1
    BY <1>2, <1>5, <2>2, <2>5, AdvanceIs
  <2>7. /\ Len(got') = n + 1 /\ got' \in Seq(FirstSequence .. LastSequence)
        /\ \A k \in 1 .. n : got'[k] = got[k]
        /\ got'[n + 1] = FirstSequence + n
    <3>1. reader.next \in FirstSequence .. LastSequence
      BY <1>7, WalSizes DEF Sequences
    <3> QED BY <1>1, <1>3, <1>7, <2>2, <3>1, OpenState DEF GotInv
  <2>8. (n + 1) * RecordUnits = end
    <3>1. PICK d \in Nat : d = RecordUnits
      BY WalSizes
    <3>2. (n + 1) * d = n * d + d
      BY ProductNext
    <3> QED BY <1>4, <2>3, <3>1, <3>2
  <2>9. ReadAnswer(file, n) = "Record"
    BY <1>4, <1>5, <1>7, <1>13, AnswerOfData
  <2>10. GotInv'
    <3>1. \A i \in 0 .. Len(got') - 1 : ReadAnswer(file, i) = "Record"
      <4>1. \A i \in 0 .. n - 1 : ReadAnswer(file, i) = "Record"
        BY <1>1, <1>3, OpenState DEF GotInv
      <4>2. \A i \in 0 .. Len(got') - 1 : i \in 0 .. n - 1 \/ i = n
        BY <2>7
      <4> QED BY <2>9, <4>1, <4>2
    <3>2. \A k \in 1 .. Len(got') : got'[k] = FirstSequence + k - 1
      <4>1. \A k \in 1 .. n : got[k] = FirstSequence + k - 1
        BY <1>1, <1>3, OpenState DEF GotInv
      <4>2. \A k \in 1 .. Len(got') : k \in 1 .. n \/ k = n + 1
        BY <2>7
      <4>3. FirstSequence + n = FirstSequence + (n + 1) - 1
        BY WalSizes
      <4> QED BY <2>7, <4>1, <4>2, <4>3
    <3>3. Len(got') <= Sequences /\ Len(got') * RecordUnits <= Len(file)
      BY <1>5, <1>7, <2>3, <2>7, <2>8, WalSizes
    <3> QED BY <1>1, <2>7, <3>1, <3>2, <3>3 DEF GotInv
  <2>11. NextInv'
    <3>1. expected' = expected /\ expected.first_sequence = FirstSequence
      BY <1>1, <1>6, OpenState DEF fileHeader
    <3>2. reader.next = LastSequence => Len(got') = Sequences
      BY <1>7, <2>7, WalSizes DEF Sequences
    <3>3. reader.next # LastSequence =>
            /\ reader.next + 1 = FirstSequence + Len(got')
            /\ reader.next + 1 <= LastSequence
      BY <1>7, <2>7, WalSizes DEF Sequences
    <3> QED BY <2>6, <2>7, <2>8, <3>1, <3>2, <3>3 DEF NextInv
  <2>12. CursorInv'
    BY <2>6, <2>7, <2>8 DEF CursorInv
  <2>13. AnswerInv'
    BY <1>1, <2>2, <2>6 DEF AnswerInv, Answers, Delivering
  <2>14. SourceInv' /\ ReaderType'
    BY <1>1, <2>6, OpenState DEF SourceInv, ReaderType, fileHeader
  <2> QED BY <2>2, <2>6, <2>10, <2>11, <2>12, <2>13, <2>14 DEF IInv, Judged
<1> QED BY <1>5, <1>11, <1>12, <1>13, WalSizes

LEMMA ReadIoErrorKeeps ==
  ASSUME IInv, ReadIoError
  PROVE  IInv'
<1>1. "IoError" \in Answers \ {"EndOfLog", "Record"}
  BY DEF Answers, Incomplete
<1>2. reader.pc # "closed" /\ reader.failure = "None" /\ FailWith("IoError", 0) /\ UNCHANGED Unread
  BY DEF ReadIoError, Unread
<1> QED BY <1>1, <1>2, FailKeeps

\* Neither opening nor closing a reader touches the file.
LEMMA ClosedKeeps ==
  ASSUME IInv, UNCHANGED <<prefix, expected, file, writer>>, reader' = Closed, got' = <<>>,
         answer' \in OpenErrors \cup {"None", "IoError"}
  PROVE  IInv'
<1>1. SourceInv /\ Len(file) \in Nat
  BY DEF IInv, SourceInv
<1>2. expected' = expected /\ Closed' = Closed
  BY DEF Closed, Opened
<1>3. reader'.pc = "closed" /\ ReaderType'
  BY <1>1, ClosedType DEF ReaderType
<1>4. SourceInv' /\ GotInv'
  BY <1>1, WalSizes DEF SourceInv, GotInv
<1> QED BY <1>2, <1>3, <1>4 DEF IInv

LEMMA OpenErrorIs ==
  ASSUME NEW status, status = FirstFailure(OpenChecks)
  PROVE  status \in OpenErrors \cup {"None"}
<1>1. PICK c : c = OpenChecks
  OBVIOUS
<1>2. DOMAIN c = 1 .. 12
  BY <1>1 DEF OpenChecks
<1>3. \A k \in 1 .. 12 : c[k].error \in OpenErrors
  BY <1>1 DEF OpenChecks, OpenErrors
<1>4. \/ FirstFailure(c) = "None"
      \/ \E k \in 1 .. 12 : FirstFailure(c) = c[k].error
  BY <1>2, FirstFailureIs
<1> QED BY <1>1, <1>3, <1>4

LEMMA OpenKeeps ==
  ASSUME IInv, Open
  PROVE  IInv'
<1>1. /\ reader.pc = "closed" /\ got = <<>> /\ got' = got
      /\ UNCHANGED <<prefix, expected, file, writer>>
      /\ answer' = FirstFailure(OpenChecks)
      /\ reader' = IF FirstFailure(OpenChecks) = "None" THEN Opened ELSE Closed
  BY DEF Open, fileHeader, IInv
<1>2. CASE FirstFailure(OpenChecks) # "None"
  <2>1. answer' \in OpenErrors \cup {"None", "IoError"} /\ reader' = Closed /\ got' = <<>>
    BY <1>1, <1>2, OpenErrorIs
  <2> QED BY <1>1, <2>1, ClosedKeeps
<1>3. CASE FirstFailure(OpenChecks) = "None"
  <2>1. reader' = Opened /\ answer' = "None"
    BY <1>1, <1>3
  <2>2. /\ reader'.pc = "idle" /\ reader'.offset = 0 /\ reader'.nextOffset = 0
        /\ reader'.next = expected.first_sequence /\ reader'.failure = "None"
        /\ reader'.exhausted = FALSE
    BY <2>1 DEF Opened
  <2>3. expected.first_sequence \in 0 .. LastSequence
    BY ReaderAssumption DEF IInv, SourceInv
  <2>4. SourceInv' /\ Len(file) \in Nat /\ file' = file
    BY <1>1 DEF IInv, SourceInv
  <2>5. ReaderType'
    BY <2>1, <2>3, <2>4 DEF ReaderType, Opened
  <2>6. GotInv' /\ Len(got') = 0
    BY <1>1, <2>4, WalSizes DEF GotInv
  <2>7. 0 * RecordUnits = 0
    BY WalSizes
  <2>8. NextInv'
    BY <1>1, <2>2, <2>3, <2>6, <2>7 DEF NextInv
  <2>9. CursorInv' /\ AnswerInv'
    BY <2>1, <2>2, <2>6, <2>7 DEF CursorInv, AnswerInv, Delivering
  <2> QED BY <2>2, <2>4, <2>5, <2>6, <2>8, <2>9 DEF IInv
<1> QED BY <1>2, <1>3

(***************************************************************************)
(* The invariant is inductive: one case for every action.                  *)
(***************************************************************************)
LEMMA NextKeeps == IInv /\ [Next]_vars => IInv'
<1> SUFFICES ASSUME IInv, [Next]_vars PROVE IInv'
  OBVIOUS
<1>1. CASE Grow
  BY <1>1, GrowKeeps
<1>2. CASE ReadHeader
  BY <1>2, ReadHeaderKeeps
<1>3. CASE ReadPayload
  BY <1>3, ReadPayloadKeeps
<1>4. CASE ReadPadding
  BY <1>4, ReadPaddingKeeps
<1>5. CASE ReadIoError
  BY <1>5, ReadIoErrorKeeps
<1>6. CASE Close
  BY <1>6, ClosedKeeps DEF Close, fileHeader
<1>7. CASE Open
  BY <1>7, OpenKeeps
<1>8. CASE OpenFails
  BY <1>8, ClosedKeeps DEF OpenFails, fileHeader, IInv
<1>9. CASE UNCHANGED vars
  BY <1>9 DEF vars, fileHeader, IInv, SourceInv, ReaderType, GotInv, NextInv, CursorInv,
              AnswerInv, Closed, Opened
<1> QED BY <1>1, <1>2, <1>3, <1>4, <1>5, <1>6, <1>7, <1>8, <1>9 DEF Next, ReadNext

(***************************************************************************)
(* Wherever the reader is in a file, and however much the writer has       *)
(* appended meanwhile, what it has returned is a valid prefix of the log,  *)
(* what it has found so far is there, and its last answer is the file's.   *)
(***************************************************************************)
THEOREM ReaderInvariant == Spec => []IInv
BY InitHolds, NextKeeps, PTL DEF Spec

(***************************************************************************)
(* The records returned are the log from its first sequence, each complete *)
(* and valid in the file, and next_offset is where the next one starts.    *)
(***************************************************************************)
THEOREM ReadsValidLog == Spec => []DeliversValidLog
<1>1. IInv => DeliversValidLog
  <2> SUFFICES ASSUME IInv PROVE DeliversValidLog
    OBVIOUS
  <2>1. GotInv /\ file \in Seq(Units) /\ Len(got) \in Nat
    BY DEF IInv, GotInv, SourceInv
  <2>2. Len(got) <= ValidRecords(file)
    BY <2>1, ValidRecordsIs DEF GotInv
  <2>3. reader.pc # "closed" => reader.nextOffset = Len(got) * RecordUnits
    BY DEF IInv, NextInv
  <2> QED BY <2>1, <2>2, <2>3 DEF DeliversValidLog, GotInv
<1> QED BY <1>1, ReaderInvariant, PTL

(***************************************************************************)
(* On a file nobody writes, the reader stops where the definition of the   *)
(* scan does, and for the same reason.                                     *)
(***************************************************************************)
THEOREM ReaderAgreesWithScan == Spec => []AgreesWithScan
<1>1. IInv => AgreesWithScan
  <2> SUFFICES ASSUME IInv, writer = "stopped", reader.pc # "closed",
                      answer \notin {"None", "Record", "IoError"}
               PROVE  Len(got) = ValidRecords(file) /\ answer = ReadAnswer(file, Len(got))
    BY DEF AgreesWithScan
  <2>1. answer = ReadAnswer(file, Len(got)) /\ answer # "Record"
    BY OpenState DEF AnswerInv, Delivering
  <2>2. GotInv /\ file \in Seq(Units) /\ Len(got) \in Nat
    BY OpenState
  <2>3. Len(got) <= ValidRecords(file)
    BY <2>2, ValidRecordsIs DEF GotInv
  <2>4. ~(Len(got) + 1 <= ValidRecords(file))
    <3>1. SUFFICES ASSUME Len(got) + 1 <= ValidRecords(file) PROVE FALSE
      OBVIOUS
    <3>2. Len(got) \in 0 .. ValidRecords(file) - 1
      BY <2>2, <3>1, ValidRecordsIs
    <3> QED BY <2>1, <2>2, <3>2, ValidRecordsIs
  <2> QED BY <2>1, <2>2, <2>3, <2>4, ValidRecordsIs
<1> QED BY <1>1, ReaderInvariant, PTL

(***************************************************************************)
(* A file that is nothing but the log is never called corrupt.             *)
(***************************************************************************)
THEOREM LogIsNeverCorrupt == Spec => []LogNeverCorrupt
<1>1. IInv => LogNeverCorrupt
  BY DEF IInv, LogNeverCorrupt, AnswerInv, Delivering
<1> QED BY <1>1, ReaderInvariant, PTL

-----------------------------------------------------------------------------
(***************************************************************************)
(* The refinement.  There is a sequence for every record that can be read, *)
(* and nothing is left to read when the next answer is not a record.       *)
(***************************************************************************)
LEMMA RecordsHaveSequences ==
  ASSUME NEW f \in Seq(Units)
  PROVE  ValidRecords(f) \in 0 .. Sequences
<1>1. PICK v \in Nat : v = ValidRecords(f)
  BY ValidRecordsIs
<1>2. SUFFICES ASSUME Sequences + 1 <= v PROVE FALSE
  BY <1>1, WalSizes
<1>3. PICK d \in Nat \ {0} : d = RecordUnits
  BY WalSizes
<1>4. (Sequences + 1) * d <= v * d /\ (Sequences + 1) * d = Sequences * d + d
      /\ Sequences * d \in Nat /\ v * d \in Nat
  BY <1>2, <1>3, WalSizes, ProductMonotonic, ProductNext
<1>5. v * d <= Len(f)
  BY <1>1, <1>3, ValidRecordsIs
<1>6. Sequences * RecordUnits + HeaderUnits <= Len(f)
  BY <1>3, <1>4, <1>5, WalSizes
<1>7. ReadAnswer(f, Sequences) = "UnexpectedSequence"
  BY <1>6, AnswerOfHeader, WalSizes
<1>8. ReadAnswer(f, Sequences) = "Record"
  <2>1. Sequences \in 0 .. v - 1
    BY <1>2, WalSizes
  <2> QED BY <1>1, <2>1, ValidRecordsIs
<1> QED BY <1>7, <1>8

LEMMA RecordsRead ==
  IInv => /\ Len(got) \in Nat /\ Len(got) <= ValidRecords(file)
          /\ ValidRecords(file) \in 0 .. Sequences
<1> SUFFICES ASSUME IInv
             PROVE  /\ Len(got) \in Nat /\ Len(got) <= ValidRecords(file)
                    /\ ValidRecords(file) \in 0 .. Sequences
  OBVIOUS
<1>1. GotInv /\ file \in Seq(Units) /\ Len(got) \in Nat
  BY DEF IInv, GotInv, SourceInv
<1> QED BY <1>1, ValidRecordsIs, RecordsHaveSequences DEF GotInv

LEMMA NothingLeft ==
  ASSUME IInv, ReadAnswer(file, Len(got)) # "Record"
  PROVE  Len(got) = ValidRecords(file)
<1>1. file \in Seq(Units)
  BY DEF IInv, SourceInv
<1>2. SUFFICES ASSUME Len(got) < ValidRecords(file) PROVE FALSE
  BY RecordsRead
<1>3. Len(got) \in 0 .. ValidRecords(file) - 1
  BY <1>2, RecordsRead
<1> QED BY <1>1, <1>3, ValidRecordsIs

LEMMA StateIs ==
  /\ reader.pc = "closed" => ReadState = "closed"
  /\ reader.pc # "closed" /\ reader.failure = "None" => ReadState = "open"
  /\ reader.pc # "closed" /\ reader.failure # "None" => ReadState = "failed"
BY DEF ReadState

LEMMA InitRefines == Init => Reading!Init
<1> SUFFICES ASSUME Init PROVE Reading!Init
  OBVIOUS
<1>1. IInv
  BY InitHolds
<1>2. reader = Closed /\ got = <<>> /\ answer = "None"
  BY DEF Init
<1>3. ReadState = "closed" /\ Len(got) = 0
  BY <1>2, StateIs DEF Closed, Opened
<1> QED BY <1>1, <1>2, <1>3, RecordsRead DEF Reading!Init, Sequences

\* The writer makes at most one more record readable.
LEMMA GrowRefines ==
  ASSUME IInv, IInv', Grow
  PROVE  [Reading!Next]_Reading!vars
<1>1. UNCHANGED <<prefix, expected, writer, reader, got, answer>> /\ writer = "live"
  BY DEF Grow, fileHeader
<1>2. file \in Logs /\ file' \in Logs /\ Len(file) < MaxUnits
  BY <1>1 DEF IInv, SourceInv, Grow
<1>3. PICK n \in 0 .. MaxUnits : n = Len(file) /\ file \in Seq(Units) /\ IsLog(file)
  BY <1>2, LogOfIs DEF Logs
<1>4. Len(file') = n + 1 /\ file' \in Seq(Units) /\ IsLog(file')
  <2>1. file' \in Seq(Units) /\ IsLog(file')
    BY <1>2, LogOfIs DEF Logs
  <2> QED BY <1>3, <2>1 DEF Grow
<1>5. PICK d \in Nat \ {0} : d = RecordUnits
  BY WalSizes
<1>6. PICK m \in Nat, r \in 0 .. d - 1 : n = m * d + r
  <2>1. n \in Nat
    BY <1>3, ReaderAssumption
  <2> QED BY <1>5, <2>1, QuotientAndRest
<1>7. PICK most \in Nat : most = Sequences * d /\ n + 1 <= most
  <2>1. Sequences * d \in Nat /\ MaxUnits \in 0 .. Sequences * d
    BY <1>5, WalSizes, ProductNext, ReaderAssumption DEF Sequences
  <2> QED BY <1>2, <1>3, <2>1
<1>8. PICK p \in Nat : p = m * d /\ (m + 1) * d = p + d
  BY ProductNext
<1>9. m < Sequences
  <2>1. SUFFICES ASSUME Sequences <= m PROVE FALSE
    BY WalSizes
  <2>2. Sequences * d <= m * d
    BY <2>1, WalSizes, ProductMonotonic
  <2> QED BY <1>6, <1>7, <1>8, <2>2
<1>10. ValidRecords(file) = m
  <2>1. Len(file) = m * RecordUnits + r /\ r \in 0 .. RecordUnits - 1 /\ m <= Sequences
    BY <1>3, <1>5, <1>6, <1>9, WalSizes
  <2> QED BY <1>3, <2>1, LogHasAllThatFit
<1>11. ReadState' = ReadState
  BY <1>1 DEF ReadState
<1>12. CASE r + 1 < d
  <2>1. r + 1 \in 0 .. d - 1 /\ n + 1 = m * d + (r + 1)
    BY <1>6, <1>8, <1>12
  <2>2. ValidRecords(file') = m
    BY <1>4, <1>5, <1>9, <2>1, LogHasAllThatFit, WalSizes
  <2> QED BY <1>1, <1>10, <1>11, <2>2 DEF Reading!vars
<1>13. CASE r + 1 = d
  <2>1. 0 \in 0 .. d - 1 /\ n + 1 = (m + 1) * d + 0 /\ m + 1 <= Sequences /\ m + 1 \in Nat
    BY <1>6, <1>8, <1>9, <1>13, WalSizes
  <2>2. ValidRecords(file') = m + 1
    BY <1>4, <1>5, <2>1, LogHasAllThatFit
  <2> QED BY <1>1, <1>9, <1>10, <1>11, <2>2 DEF Reading!Next, Reading!Log, Sequences
<1> QED BY <1>5, <1>12, <1>13

\* A failure the reader reports is an input error, or nothing is left.
LEMMA FailRefines ==
  ASSUME IInv, reader.pc # "closed", reader.failure = "None", UNCHANGED Unread, Judged,
         NEW units, NEW status \in Answers \ {"EndOfLog", "Record"}, FailWith(status, units)
  PROVE  Reading!Fail
<1>1. ReaderType /\ AnswerInv
  BY OpenState
<1>2. /\ reader'.pc = "idle" /\ reader'.failure = status /\ answer' = status
      /\ file' = file /\ got' = got
  BY <1>1 DEF FailWith, ReaderType, Unread
<1>3. status # "None"
  BY DEF Answers, Incomplete
<1>4. ReadState = "open" /\ ReadState' = "failed"
  BY <1>2, <1>3 DEF ReadState
<1>5. answer # status
  BY <1>1, <1>3 DEF AnswerInv, Delivering
<1>6. status = "IoError" \/ Len(got) = ValidRecords(file)
  BY <1>2, <1>5, NothingLeft DEF Judged
<1> QED BY <1>2, <1>4, <1>6 DEF Reading!Fail

LEMMA ReadHeaderRefines ==
  ASSUME IInv, ReadHeader
  PROVE  [Reading!Next]_Reading!vars
<1>1. reader.pc # "closed" /\ reader.failure = "None" /\ UNCHANGED Unread /\ Judged
  BY ReadHeaderKeeps DEF ReadHeader, Unread
<1>2. file' = file /\ got' = got
  BY <1>1 DEF Unread
<1>3. ReadState = "open"
  BY <1>1, StateIs
<1>4. CASE answer' = "EndOfLog" /\ UNCHANGED reader
  <2>1. ReadState' = ReadState
    BY <1>4 DEF ReadState
  <2>2. CASE answer = "EndOfLog"
    BY <1>2, <1>4, <2>1, <2>2 DEF Reading!vars
  <2>3. CASE answer # "EndOfLog"
    <3>1. Len(got) = ValidRecords(file)
      BY <1>1, <1>4, <2>3, NothingLeft DEF Judged
    <3> QED BY <1>2, <1>3, <1>4, <2>1, <3>1 DEF Reading!Next, Reading!AtEnd
  <2> QED BY <2>2, <2>3
<1>5. CASE FailWith("IncompleteRecordHeader", HeaderUnits)
  <2>1. "IncompleteRecordHeader" \in Answers \ {"EndOfLog", "Record"}
    BY DEF Answers, Incomplete
  <2> QED BY <1>1, <1>5, <2>1, FailRefines DEF Reading!Next
<1>6. CASE HeaderError # "None" /\ FailWith(HeaderError, HeaderUnits)
  <2>1. HeaderError \in Answers \ {"EndOfLog", "Record"}
    <3>1. HeaderError \in {"None", "UnexpectedSequence", "InvalidRecordHeader"}
      BY <1>1, OpenState, HeaderErrorIs
    <3> QED BY <1>6, <3>1 DEF Answers
  <2> QED BY <1>1, <1>6, <2>1, FailRefines DEF Reading!Next
<1>7. CASE /\ reader' = [reader EXCEPT !.pc = "payload", !.offset = @ + HeaderUnits]
           /\ UNCHANGED answer
  <2>1. reader'.pc # "closed" /\ reader'.failure = "None"
    BY <1>1, <1>7, OpenState DEF ReaderType
  <2>2. ReadState' = ReadState
    BY <1>3, <2>1 DEF ReadState
  <2> QED BY <1>2, <1>7, <2>2 DEF Reading!vars
<1> QED BY <1>4, <1>5, <1>6, <1>7, Zenon DEF ReadHeader

LEMMA ReadPayloadRefines ==
  ASSUME IInv, ReadPayload
  PROVE  [Reading!Next]_Reading!vars
<1>1. reader.pc = "payload" /\ reader.pc # "closed" /\ UNCHANGED Unread /\ Judged
  BY ReadPayloadKeeps DEF ReadPayload, Unread
<1>2. reader.failure = "None" /\ file' = file /\ got' = got
  BY <1>1, OpenState DEF CursorInv, Unread
<1>3. ASSUME NEW status \in {"IncompletePayload", "InvalidPayloadCrc"},
             FailWith(status, PayloadUnits)
      PROVE  [Reading!Next]_Reading!vars
  <2>1. status \in Answers \ {"EndOfLog", "Record"}
    BY <1>3 DEF Answers, Incomplete
  <2> QED BY <1>1, <1>2, <1>3, <2>1, FailRefines DEF Reading!Next
<1>4. CASE /\ reader' = [reader EXCEPT !.pc = "padding", !.offset = @ + PayloadUnits]
           /\ UNCHANGED answer
  <2>1. reader'.pc # "closed" /\ reader'.failure = "None"
    BY <1>1, <1>2, <1>4, OpenState DEF ReaderType
  <2>2. ReadState' = ReadState
    BY <1>1, <1>2, <2>1 DEF ReadState
  <2> QED BY <1>2, <1>4, <2>2 DEF Reading!vars
<1> QED BY <1>3, <1>4, Zenon DEF ReadPayload

LEMMA ReadPaddingRefines ==
  ASSUME IInv, IInv', ReadPadding
  PROVE  [Reading!Next]_Reading!vars
<1>1. reader.pc = "padding" /\ reader.pc # "closed" /\ UNCHANGED <<fileHeader, file, writer>>
      /\ Judged
  BY ReadPaddingKeeps DEF ReadPadding
<1>2. reader.failure = "None" /\ file' = file
  BY <1>1, OpenState DEF CursorInv
<1>3. ASSUME NEW status \in {"IncompletePadding", "NonZeroPadding"},
             FailWith(status, PaddingUnits), UNCHANGED got
      PROVE  [Reading!Next]_Reading!vars
  <2>1. status \in Answers \ {"EndOfLog", "Record"}
    BY <1>3 DEF Answers, Incomplete
  <2>2. UNCHANGED Unread
    BY <1>1, <1>3 DEF Unread
  <2> QED BY <1>1, <1>2, <1>3, <2>1, <2>2, FailRefines DEF Reading!Next
<1>4. ASSUME NEW r, r = [reader EXCEPT !.pc = "idle", !.offset = @ + PaddingUnits,
                                       !.nextOffset = @ + RecordUnits],
             reader' = Advance(r), got' = Append(got, reader.next), answer' = "Record"
      PROVE  [Reading!Next]_Reading!vars
  <2>1. r.pc = "idle" /\ r.failure = "None"
    BY <1>1, <1>2, <1>4, OpenState DEF ReaderType
  <2>2. reader'.pc = "idle" /\ reader'.failure = "None"
    <3>1. r \in [pc : {"idle"}, offset : {r.offset}, nextOffset : {r.nextOffset},
                 next : {r.next}, failure : {"None"}, exhausted : {r.exhausted}]
      BY <1>1, <1>2, <1>4, OpenState DEF ReaderType
    <3> QED BY <1>4, <3>1 DEF Advance
  <2>3. ReadState = "open" /\ ReadState' = "open"
    BY <1>1, <1>2, <2>2 DEF ReadState
  <2>4. Len(got') = Len(got) + 1
    BY <1>1, <1>4, OpenState DEF GotInv
  <2>5. Len(got') <= ValidRecords(file')
    <3>1. (IInv => /\ Len(got) \in Nat /\ Len(got) <= ValidRecords(file)
                   /\ ValidRecords(file) \in 0 .. Sequences)'
      BY RecordsRead, PTL
    <3> QED BY <3>1
  <2>6. Len(got) < ValidRecords(file)
    BY <1>2, <2>4, <2>5, RecordsRead
  <2> QED BY <1>2, <1>4, <2>3, <2>4, <2>6 DEF Reading!Next, Reading!Deliver
<1> QED BY <1>3, <1>4, Zenon DEF ReadPadding

LEMMA OpenRefines ==
  ASSUME IInv, Open
  PROVE  [Reading!Next]_Reading!vars
<1>1. reader.pc = "closed" /\ file' = file /\ got' = got
      /\ answer' = FirstFailure(OpenChecks)
      /\ reader' = IF FirstFailure(OpenChecks) = "None" THEN Opened ELSE Closed
  BY DEF Open
<1>2. CASE FirstFailure(OpenChecks) = "None"
  <2>1. reader'.pc = "idle" /\ reader'.failure = "None"
    BY <1>1, <1>2 DEF Opened
  <2>2. ReadState = "closed" /\ ReadState' = "open"
    BY <1>1, <2>1 DEF ReadState
  <2> QED BY <1>1, <1>2, <2>2 DEF Reading!Next, Reading!Open
<1>3. CASE FirstFailure(OpenChecks) # "None"
  <2>1. reader'.pc = "closed"
    BY <1>1, <1>3 DEF Closed, Opened
  <2>2. ReadState = "closed" /\ ReadState' = "closed"
    BY <1>1, <2>1 DEF ReadState
  <2>3. answer' \in OpenErrors
    BY <1>1, <1>3, OpenErrorIs
  <2> QED BY <1>1, <2>2, <2>3 DEF Reading!Next, Reading!Refuse
<1> QED BY <1>2, <1>3

LEMMA CloseRefines ==
  ASSUME Close
  PROVE  Reading!Close
<1>1. reader.pc = "idle" /\ reader' = Closed /\ answer' = "None" /\ got' = <<>> /\ file' = file
  BY DEF Close
<1>2. reader'.pc = "closed"
  BY <1>1 DEF Closed, Opened
<1>3. ReadState # "closed" /\ ReadState' = "closed"
  BY <1>1, <1>2 DEF ReadState
<1> QED BY <1>1, <1>3 DEF Reading!Close

LEMMA NextRefines == IInv /\ IInv' /\ [Next]_vars => [Reading!Next]_Reading!vars
<1> SUFFICES ASSUME IInv, IInv', [Next]_vars PROVE [Reading!Next]_Reading!vars
  OBVIOUS
<1>1. CASE Grow
  BY <1>1, GrowRefines
<1>2. CASE ReadHeader
  BY <1>2, ReadHeaderRefines
<1>3. CASE ReadPayload
  BY <1>3, ReadPayloadRefines
<1>4. CASE ReadPadding
  BY <1>4, ReadPaddingRefines
<1>5. CASE ReadIoError
  <2>1. "IoError" \in Answers \ {"EndOfLog", "Record"} /\ UNCHANGED Unread
    BY <1>5 DEF Answers, Incomplete, ReadIoError, Unread
  <2>2. Judged
    BY <1>5 DEF ReadIoError, FailWith, Judged
  <2> QED BY <1>5, <2>1, <2>2, FailRefines DEF ReadIoError, Reading!Next
<1>6. CASE Close
  BY <1>6, CloseRefines DEF Reading!Next
<1>7. CASE Open
  BY <1>7, OpenRefines
<1>8. CASE OpenFails
  BY <1>8 DEF OpenFails, Reading!Next, Reading!Refuse, ReadState
<1>9. CASE UNCHANGED vars
  BY <1>9 DEF vars, Reading!vars, ReadState
<1> QED BY <1>1, <1>2, <1>3, <1>4, <1>5, <1>6, <1>7, <1>8, <1>9 DEF Next, ReadNext

(***************************************************************************)
(* The reader implements the abstract LogReading, with the writer at work  *)
(* between any two of its reads: records one by one, the end and every     *)
(* error but an input error only when nothing is left, nothing after it.   *)
(***************************************************************************)
THEOREM ReaderRefines == Spec => RefinesLogReading
BY ReaderInvariant, InitRefines, NextRefines, PTL DEF Spec, RefinesLogReading, Reading!Spec

-----------------------------------------------------------------------------
(***************************************************************************)
(* The file header is a record of its fields and their checksum, with the  *)
(* fields of a header.                                                     *)
(***************************************************************************)
HeaderFields ==
  {"magic", "version", "header_size", "stream_kind", "flags", "payload_size",
   "payload_schema_version", "alignment", "records_offset", "stream_id", "epoch_id",
   "first_sequence", "manifest_id"}

IsHeader(header) ==
  /\ header = [fields |-> header.fields, crc |-> header.crc]
  /\ header.fields = [name \in HeaderFields |-> header.fields[name]]

LEMMA HeaderOfIs ==
  ASSUME NEW config
  PROVE  IsHeader(HeaderOf(config)) /\ DOMAIN HeaderOf(config).fields = HeaderFields
<1>1. PICK F : F = HeaderOf(config).fields
  OBVIOUS
<1>2. HeaderOf(config) = [fields |-> F, crc |-> F]
  BY <1>1 DEF HeaderOf, Sealed
<1>3. F = [magic |-> FileMagic, version |-> FormatVersion, header_size |-> FileHeaderSize,
          stream_kind |-> config.stream_kind, flags |-> 0,
          payload_size |-> config.payload_size,
          payload_schema_version |-> config.payload_schema_version,
          alignment |-> config.alignment, records_offset |-> RecordsOffset(config),
          stream_id |-> config.stream_id, epoch_id |-> config.epoch_id,
          first_sequence |-> config.first_sequence, manifest_id |-> config.manifest_id]
  BY <1>1 DEF HeaderOf, Sealed
<1>4. DOMAIN F = HeaderFields
  BY <1>3 DEF HeaderFields
<1>5. F = [name \in HeaderFields |-> F[name]]
  BY <1>3, <1>4
<1> QED BY <1>1, <1>2, <1>4, <1>5 DEF IsHeader

\* A header with a field that holds something else is one.
LEMMA ChangedIsHeader ==
  ASSUME NEW header \in ChangedHeaders
  PROVE  IsHeader(header)
<1>1. PICK F : F = HeaderOf(Own).fields
  OBVIOUS
<1>2. F = [x \in HeaderFields |-> F[x]] /\ HeaderOf(Own) = [fields |-> F, crc |-> F]
  BY <1>1, HeaderOfIs DEF IsHeader, HeaderOf, Sealed
<1>3. PICK fields \in ChangedFields :
        header \in {Sealed(fields), [HeaderOf(Own) EXCEPT !.fields = fields]}
  BY DEF ChangedHeaders
<1>4. PICK name \in DOMAIN HeaderValues :
        fields \in {[F EXCEPT ![name] = value] : value \in HeaderValues[name]}
  BY <1>1 DEF ChangedFields
<1>5. fields = [x \in HeaderFields |-> fields[x]]
  BY <1>2, <1>4
<1>6. \E crc : header = [fields |-> fields, crc |-> crc]
  BY <1>2, <1>3 DEF Sealed
<1> QED BY <1>5, <1>6 DEF IsHeader

LEMMA RecordsOffsetFits ==
  ASSUME NEW config, ValidConfig(config),
         config.payload_size \in 0 .. FieldMax, config.alignment \in 0 .. FieldMax
  PROVE  RecordsOffset(config) \in FileHeaderSize .. FieldMax
<1>1. LeastAligned(RecordsOffset(config), FileHeaderSize, config.alignment)
  BY ConfigExact
<1>2. /\ RecordsOffset(config) # 0
      /\ AlignFits(FileHeaderSize, config.alignment, OffsetMax)
      /\ RecordsOffset(config) = AlignUp(FileHeaderSize, config.alignment, OffsetMax)
      /\ RecordsOffset(config) <= FieldMax
  BY DEF ValidConfig, RecordsOffset
<1>3. config.alignment \in Nat \ {0}
  BY WalLayoutAssumption DEF ValidConfig
<1>4. RecordsOffset(config) \in Nat
  BY <1>2, <1>3, WalLayoutAssumption, AlignUpIsLeast
<1> QED BY <1>1, <1>2, <1>4, WalLayoutAssumption DEF LeastAligned

\* A whole file header, however much of it is left and whatever its padding.
LEMMA WholeIs ==
  ASSUME NEW config \in Configs \cup {Own}, ValidConfig(config)
  PROVE  LET whole == Whole(HeaderOf(config))
         IN  /\ whole = [header |-> HeaderOf(config), length |-> RecordsOffset(config),
                         padding |-> "zeros"]
             /\ IsHeader(whole.header) /\ whole.length \in 0 .. FieldMax
<1>1. HeaderOf(config).fields.records_offset = RecordsOffset(config)
  BY DEF HeaderOf, Sealed
<1>2. RecordsOffset(config) \in 0 .. FieldMax
  BY RecordsOffsetFits, ReaderAssumption, WalLayoutAssumption
<1> QED BY <1>1, <1>2, HeaderOfIs DEF Whole

PrefixOk(p) ==
  /\ p.length \in 0 .. FieldMax /\ p.padding \in {"zeros", "other"}
  /\ IsHeader(p.header)

LEMMA PrefixesOk ==
  ASSUME NEW p \in Prefixes
  PROVE  PrefixOk(p)
<1>1. ValidConfig(Own) /\ Own \in Configs \cup {Own}
  BY ReaderAssumption
<1>2. PICK offset : offset = RecordsOffset(Own) /\ offset \in 0 .. FieldMax
  BY <1>1, RecordsOffsetFits, ReaderAssumption, WalLayoutAssumption
<1>3. PICK own : own = HeaderOf(Own) /\ IsHeader(own)
  BY HeaderOfIs
<1>4. PICK whole : whole = Whole(HeaderOf(Own)) /\ whole = [header |-> own, length |-> offset, padding |-> "zeros"]
  BY <1>1, <1>2, <1>3, WholeIs
<1>5. CASE \E c \in {d \in Configs \cup {Own} : ValidConfig(d)} : p = Whole(HeaderOf(c))
  BY <1>5, WholeIs DEF PrefixOk
<1>6. CASE \E n \in 0 .. offset : p = [whole EXCEPT !.length = n]
  <2>1. PICK n \in 0 .. offset : p = [whole EXCEPT !.length = n]
    BY <1>6
  <2>2. p.length = n /\ p.padding = "zeros" /\ p.header = own /\ n \in 0 .. FieldMax
    BY <1>2, <1>4, <2>1, WalLayoutAssumption
  <2> QED BY <1>3, <2>2 DEF PrefixOk
<1>7. CASE p = [whole EXCEPT !.padding = "other"]
  <2>1. p.length = offset /\ p.padding = "other" /\ p.header = own
    BY <1>4, <1>7
  <2> QED BY <1>2, <1>3, <2>1 DEF PrefixOk
<1>8. CASE \E header \in ChangedHeaders : p = [whole EXCEPT !.header = header]
  <2>1. PICK header \in ChangedHeaders : p = [whole EXCEPT !.header = header]
    BY <1>8
  <2>2. p.length = offset /\ p.padding = "zeros" /\ p.header = header
    BY <1>4, <2>1
  <2> QED BY <1>2, <2>2, ChangedIsHeader DEF PrefixOk
<1> QED BY <1>2, <1>4, <1>5, <1>6, <1>7, <1>8 DEF Prefixes

PrefixInv == PrefixOk(prefix)

LEMMA PrefixInvariant == Spec => []PrefixInv
<1>1. Init => PrefixInv
  <2> SUFFICES ASSUME Init PROVE PrefixInv
    OBVIOUS
  <2>1. \/ prefix \in Prefixes
        \/ \E c \in Configs \cup {Own} : ValidConfig(c) /\ prefix = Whole(HeaderOf(c))
    BY ReaderAssumption DEF Init
  <2> QED BY <2>1, PrefixesOk, WholeIs DEF PrefixInv, PrefixOk
<1>2. PrefixInv /\ [Next]_vars => PrefixInv'
  <2> SUFFICES ASSUME PrefixInv, [Next]_vars PROVE PrefixInv'
    OBVIOUS
  <2>1. prefix' = prefix
    BY DEF Next, Grow, ReadNext, ReadHeader, ReadPayload, ReadPadding, ReadIoError,
           Close, Open, OpenFails, fileHeader, vars
  <2> QED BY <2>1 DEF PrefixInv, PrefixOk, IsHeader
<1> QED BY <1>1, <1>2, PTL DEF Spec

(***************************************************************************)
(* Every variable keeps to its type (WalReader's state,                    *)
(* src/include/fexma/wal/reader.hpp).                                      *)
(***************************************************************************)
THEOREM TypeCorrect == Spec => []TypeOK
<1>1. IInv /\ PrefixInv => TypeOK
  <2> SUFFICES ASSUME IInv, PrefixInv PROVE TypeOK
    OBVIOUS
  <2>1. answer \in Answers \cup OpenErrors \cup {"None"}
    BY DEF IInv, AnswerInv, Answers
  <2> QED BY <2>1 DEF IInv, SourceInv, ReaderType, GotInv, PrefixInv, PrefixOk, TypeOK
<1> QED BY <1>1, ReaderInvariant, PrefixInvariant, PTL

-----------------------------------------------------------------------------
(***************************************************************************)
(* What the checks of open come to.                                        *)
(***************************************************************************)
LEMMA OffsetOfAlignment ==
  ASSUME NEW left, NEW right, left.alignment = right.alignment
  PROVE  RecordsOffset(left) = RecordsOffset(right)
BY DEF RecordsOffset

LEMMA OpenChecksAre ==
  ASSUME NEW checks, checks = OpenChecks
  PROVE  LET fields == prefix.header.fields
         IN  /\ DOMAIN checks = 1 .. 12
             /\ checks[1].passed <=> ValidReaderConfig(expected)
             /\ checks[2].passed <=> prefix.length >= FileHeaderSize
             /\ checks[3].passed <=> fields.magic = FileMagic
             /\ checks[4].passed <=> fields.version = FormatVersion
             /\ checks[5].passed <=> fields.header_size = FileHeaderSize
             /\ checks[6].passed <=> prefix.header.crc = fields
             /\ checks[7].passed <=> fields.stream_kind \in KnownKinds
             /\ checks[8].passed <=> fields.flags = 0
             /\ checks[9].passed <=> (/\ ValidConfig(ConfigIn(fields))
                                      /\ fields.records_offset = RecordsOffset(ConfigIn(fields)))
             /\ checks[10].passed <=> SamePersistedConfig(fields, expected)
             /\ checks[11].passed <=> prefix.length >= fields.records_offset
             /\ checks[12].passed <=> (fields.records_offset # FileHeaderSize
                                         => prefix.padding = "zeros")
<1> DEFINE fields == prefix.header.fields
<1>1. DOMAIN checks = 1 .. 12
  BY DEF OpenChecks
<1>2. /\ OpenChecks[1].passed <=> ValidReaderConfig(expected)
      /\ OpenChecks[2].passed <=> prefix.length >= FileHeaderSize
      /\ OpenChecks[3].passed <=> fields.magic = FileMagic
      /\ OpenChecks[4].passed <=> fields.version = FormatVersion
      /\ OpenChecks[5].passed <=> fields.header_size = FileHeaderSize
      /\ OpenChecks[6].passed <=> prefix.header.crc = fields
  BY DEF OpenChecks
<1>3. /\ OpenChecks[7].passed <=> fields.stream_kind \in KnownKinds
      /\ OpenChecks[8].passed <=> fields.flags = 0
      /\ OpenChecks[9].passed <=> (/\ ValidConfig(ConfigIn(fields))
                                   /\ fields.records_offset = RecordsOffset(ConfigIn(fields)))
      /\ OpenChecks[10].passed <=> SamePersistedConfig(fields, expected)
      /\ OpenChecks[11].passed <=> prefix.length >= fields.records_offset
      /\ OpenChecks[12].passed <=> (fields.records_offset # FileHeaderSize
                                      => prefix.padding = "zeros")
  BY DEF OpenChecks
<1> QED BY <1>1, <1>2, <1>3

\* The fields a writer records for a configuration.
LEMMA FieldsOf ==
  ASSUME NEW config
  PROVE  LET fields == HeaderOf(config).fields
         IN  /\ HeaderOf(config) = [fields |-> fields, crc |-> fields]
             /\ fields.magic = FileMagic /\ fields.version = FormatVersion
             /\ fields.header_size = FileHeaderSize /\ fields.flags = 0
             /\ fields.records_offset = RecordsOffset(config)
             /\ \A name \in ConfigFields \ {"capacity"} : fields[name] = config[name]
<1>1. PICK F : F = HeaderOf(config).fields
  OBVIOUS
<1>2. HeaderOf(config) = [fields |-> F, crc |-> F]
  BY <1>1 DEF HeaderOf, Sealed
<1>3. F = [magic |-> FileMagic, version |-> FormatVersion, header_size |-> FileHeaderSize,
          stream_kind |-> config.stream_kind, flags |-> 0,
          payload_size |-> config.payload_size,
          payload_schema_version |-> config.payload_schema_version,
          alignment |-> config.alignment, records_offset |-> RecordsOffset(config),
          stream_id |-> config.stream_id, epoch_id |-> config.epoch_id,
          first_sequence |-> config.first_sequence, manifest_id |-> config.manifest_id]
  BY <1>1 DEF HeaderOf, Sealed
<1>4. \A name \in ConfigFields \ {"capacity"} : F[name] = config[name]
  BY <1>3 DEF ConfigFields
<1> QED BY <1>1, <1>2, <1>3, <1>4

\* The checks are passed by the header of the reader's configuration alone.
LEMMA PassedIsOwn ==
  ASSUME PrefixInv, ConfigInv, NEW checks, checks = OpenChecks,
         \A k \in 1 .. 12 : checks[k].passed
  PROVE  IsOwn
<1> DEFINE fields == prefix.header.fields
           H == HeaderOf(expected).fields
<1>1. /\ ValidReaderConfig(expected)
      /\ fields.magic = FileMagic /\ fields.version = FormatVersion
      /\ fields.header_size = FileHeaderSize /\ fields.flags = 0
      /\ prefix.header.crc = fields
      /\ fields.records_offset = RecordsOffset(ConfigIn(fields))
      /\ SamePersistedConfig(fields, expected)
      /\ prefix.length >= fields.records_offset
      /\ fields.records_offset # FileHeaderSize => prefix.padding = "zeros"
  BY OpenChecksAre
<1>2. /\ prefix.header = [fields |-> fields, crc |-> fields]
      /\ fields = [name \in HeaderFields |-> fields[name]]
  BY <1>1 DEF PrefixInv, PrefixOk, IsHeader
<1>3. DOMAIN expected = ConfigFields /\ DOMAIN Own = ConfigFields
  BY ReaderAssumption DEF ConfigInv
<1>4. \A name \in ConfigFields \ {"capacity"} : fields[name] = expected[name]
  BY <1>1, <1>3 DEF SamePersistedConfig
<1>5. fields.records_offset = RecordsOffset(expected)
  <2>1. ConfigIn(fields).alignment = fields.alignment /\ fields.alignment = expected.alignment
    BY <1>3, <1>4 DEF ConfigIn, ConfigFields
  <2> QED BY <1>1, <2>1, OffsetOfAlignment
<1>6. prefix.header = HeaderOf(expected)
  <2>1. HeaderOf(expected) = [fields |-> H, crc |-> H]
    BY FieldsOf
  <2>2. H = [name \in HeaderFields |-> H[name]]
    BY HeaderOfIs DEF IsHeader
  <2>3. \A name \in HeaderFields : fields[name] = H[name]
    <3>1. /\ H.magic = FileMagic /\ H.version = FormatVersion /\ H.header_size = FileHeaderSize
          /\ H.flags = 0 /\ H.records_offset = RecordsOffset(expected)
          /\ \A name \in ConfigFields \ {"capacity"} : H[name] = expected[name]
      BY FieldsOf
    <3>2. \A name \in HeaderFields :
            \/ name \in {"magic", "version", "header_size", "flags", "records_offset"}
            \/ name \in ConfigFields \ {"capacity"}
      BY DEF HeaderFields, ConfigFields
    <3> HIDE DEF fields, H
    <3> QED BY <1>1, <1>4, <1>5, <3>1, <3>2
  <2>4. fields = H
    <3> HIDE DEF fields, H
    <3> QED BY <1>2, <2>2, <2>3
  <2> QED BY <1>2, <2>1, <2>4
<1>7. FileHeaderPadding(expected) # 0 => fields.records_offset # FileHeaderSize
  BY <1>5, WalLayoutAssumption DEF FileHeaderPadding
<1> QED BY <1>1, <1>5, <1>6, <1>7 DEF IsOwn

\* And by every file that has it.
LEMMA OwnIsPassed ==
  ASSUME PrefixInv, ConfigInv, IsOwn, NEW checks, checks = OpenChecks, NEW k \in 1 .. 12
  PROVE  checks[k].passed
<1> DEFINE fields == prefix.header.fields
<1>1. PICK reading : reading = [expected EXCEPT !.capacity = 1]
  OBVIOUS
<1>2. DOMAIN expected = ConfigFields /\ DOMAIN Own = ConfigFields
  BY ReaderAssumption DEF ConfigInv
<1>3. ValidConfig(reading) /\ reading.alignment = expected.alignment
      /\ reading.payload_size = expected.payload_size
      /\ reading.stream_kind = expected.stream_kind
  BY <1>1, <1>2 DEF IsOwn, ValidReaderConfig, ConfigFields
<1>4. RecordsOffset(expected) \in FileHeaderSize .. FieldMax
  <2>1. reading.payload_size \in 0 .. FieldMax /\ reading.alignment \in 0 .. FieldMax
    BY <1>3, ReaderAssumption DEF ConfigInv
  <2>2. RecordsOffset(reading) \in FileHeaderSize .. FieldMax
    BY <1>3, <2>1, RecordsOffsetFits
  <2> QED BY <1>3, <2>2, OffsetOfAlignment
<1>5. /\ prefix.header = [fields |-> fields, crc |-> fields]
      /\ fields.magic = FileMagic /\ fields.version = FormatVersion
      /\ fields.header_size = FileHeaderSize /\ fields.flags = 0
      /\ fields.records_offset = RecordsOffset(expected)
      /\ \A name \in ConfigFields \ {"capacity"} : fields[name] = expected[name]
  BY FieldsOf DEF IsOwn
<1>6. prefix.header.crc = fields
  <2> HIDE DEF fields
  <2> QED BY <1>5
<1>7. ConfigIn(fields) = reading
  <2> HIDE DEF fields
  <2> QED BY <1>1, <1>2, <1>5 DEF ConfigIn
<1>8. fields.stream_kind \in KnownKinds
  BY <1>3, <1>5 DEF ValidConfig, ConfigFields
<1>9. fields.records_offset = RecordsOffset(ConfigIn(fields)) /\ ValidConfig(ConfigIn(fields))
  BY <1>3, <1>5, <1>7, OffsetOfAlignment
<1>10. SamePersistedConfig(fields, expected)
  BY <1>2, <1>5 DEF SamePersistedConfig
<1>11. prefix.length >= fields.records_offset /\ prefix.length >= FileHeaderSize
  BY <1>4, <1>5, WalLayoutAssumption DEF IsOwn, PrefixInv, PrefixOk
<1>12. fields.records_offset # FileHeaderSize => prefix.padding = "zeros"
  BY <1>4, <1>5, WalLayoutAssumption DEF IsOwn, FileHeaderPadding
<1>13. ValidReaderConfig(expected)
  BY DEF IsOwn
<1>14. \A j \in 1 .. 12 : j \in {1, 2, 3, 4, 5, 6, 7, 8, 9, 10, 11, 12}
  OBVIOUS
<1> HIDE DEF fields
<1> QED BY <1>5, <1>6, <1>8, <1>9, <1>10, <1>11, <1>12, <1>13, <1>14, OpenChecksAre DEF fields

LEMMA OpenAnswersOwn ==
  ASSUME PrefixInv, ConfigInv
  PROVE  FirstFailure(OpenChecks) = "None" <=> IsOwn
<1>1. PICK c : c = OpenChecks
  OBVIOUS
<1>2. DOMAIN c = 1 .. 12
  BY <1>1, OpenChecksAre
<1>3. \A k \in 1 .. 12 : c[k].error # "None"
  BY <1>1 DEF OpenChecks
<1>4. FirstFailure(c) = "None" <=> \A k \in 1 .. 12 : c[k].passed
  <2>1. 12 \in Nat
    OBVIOUS
  <2>2. \/ FirstFailure(c) = "None" /\ \A k \in 1 .. 12 : c[k].passed
        \/ \E k \in 1 .. 12 : ~c[k].passed /\ FirstFailure(c) = c[k].error
    BY <1>2, <2>1, FirstFailureIs, Zenon
  <2> QED BY <1>3, <2>2, Zenon
<1>5. (\A k \in 1 .. 12 : c[k].passed) <=> IsOwn
  BY <1>1, PassedIsOwn, OwnIsPassed
<1> QED BY <1>1, <1>4, <1>5

(***************************************************************************)
(* The reader opens a file exactly when it is one a writer creates for the *)
(* reader's configuration (WalReader::open, src/wal/reader.cpp).           *)
(***************************************************************************)
THEOREM OpensOnlyOwn == Spec => []OpensExactlyOwn
<1>1. Init => OpensExactlyOwn
  BY DEF Init, OpensExactlyOwn, Closed, Opened, OpenErrors
<1>2. /\ IInv /\ IInv' /\ ConfigInv /\ PrefixInv
      /\ OpensExactlyOwn /\ [Next]_vars
      => OpensExactlyOwn'
  <2> SUFFICES ASSUME IInv, IInv', ConfigInv, PrefixInv, OpensExactlyOwn, [Next]_vars
               PROVE  OpensExactlyOwn'
    OBVIOUS
  <2>1. UNCHANGED <<prefix, expected>>
    BY DEF Next, Grow, ReadNext, ReadHeader, ReadPayload, ReadPadding, ReadIoError,
           Close, Open, OpenFails, fileHeader, vars
  <2>2. IsOwn' <=> IsOwn
    BY <2>1 DEF IsOwn
  <2>3. CASE Open
    <3>1. /\ answer' = FirstFailure(OpenChecks)
          /\ reader' = IF FirstFailure(OpenChecks) = "None" THEN Opened ELSE Closed
      BY <2>3 DEF Open
    <3>2. Closed.pc = "closed" /\ "None" \notin OpenErrors
      BY DEF Closed, Opened, OpenErrors
    <3> QED BY <2>2, <3>1, <3>2, OpenAnswersOwn DEF OpensExactlyOwn
  <2>4. CASE reader.pc # "closed" /\ reader'.pc # "closed"
    <3>1. answer' \in Answers \cup {"None"}
      BY <2>4 DEF IInv, AnswerInv
    <3>2. answer' \notin OpenErrors
      BY <3>1 DEF Answers, Incomplete, OpenErrors
    <3> QED BY <2>2, <2>4, <3>2 DEF OpensExactlyOwn
  <2>5. CASE OpenFails
    BY <2>2, <2>5 DEF OpenFails, OpensExactlyOwn, OpenErrors
  <2>6. CASE Close
    <3>1. reader'.pc = "closed" /\ answer' = "None"
      BY <2>6 DEF Close, Closed, Opened
    <3> QED BY <3>1 DEF OpensExactlyOwn, OpenErrors
  <2>7. CASE UNCHANGED <<reader, answer>>
    BY <2>2, <2>7 DEF OpensExactlyOwn
  <2>8. CASE ReadNext \/ ReadIoError
    <3>1. reader.pc # "closed"
      BY <2>8 DEF ReadNext, ReadHeader, ReadPayload, ReadPadding, ReadIoError
    <3>2. reader'.pc # "closed"
      BY <2>8 DEF ReadNext, ReadHeader, ReadPayload, ReadPadding, ReadIoError, FailWith,
                  Advance, IInv, ReaderType
    <3> QED BY <2>4, <3>1, <3>2
  <2> QED BY <2>3, <2>5, <2>6, <2>7, <2>8 DEF Next, Grow, vars
<1>3. Spec => []ConfigInv /\ []PrefixInv /\ []IInv
  BY ConfigInvariant, PrefixInvariant, ReaderInvariant, PTL
<1> QED BY <1>1, <1>2, <1>3, PTL DEF Spec
=============================================================================
