----------------------------- MODULE WalReader ------------------------------
(***************************************************************************)
(* The validated reader (src/wal/reader.cpp) over the physical reader      *)
(* (src/wal/physical_wal_file.cpp), reading a file that a live writer may  *)
(* still be appending to - both ends open the file for shared access - or  *)
(* one that a crash or damage has left behind.  Sizes of a configuration   *)
(* are bytes (module WalLayout), the records behind the header are units.  *)
(***************************************************************************)
EXTENDS WalFile, WalLayout

CONSTANTS Own,           \* the WalConfig of the file whose records are read
          Configs,       \* other configurations, of files and of readers
          HeaderValues,  \* per field of the file header, what it may hold instead
          MaxUnits       \* longest file; a bound of the model

\* The members of WalConfig.
ConfigFields ==
  {"payload_size", "capacity", "alignment", "payload_schema_version", "stream_kind",
   "stream_id", "epoch_id", "first_sequence", "manifest_id"}

\* The persistence stage appends no record after LastSequence
\* (SequenceOverflow, src/wal/persistence.cpp).
ASSUME ReaderAssumption ==
  /\ MaxUnits \in 0 .. (LastSequence - FirstSequence + 1) * RecordUnits
  /\ ValidConfig(Own) /\ Own.first_sequence = FirstSequence
  /\ DOMAIN HeaderValues \subseteq DOMAIN HeaderOf(Own).fields
  /\ \A c \in Configs \cup {Own} :
       /\ DOMAIN c = ConfigFields
       /\ c.payload_size \in 0 .. FieldMax /\ c.alignment \in 0 .. FieldMax
       /\ c.capacity \in 0 .. FieldMax
       /\ c.first_sequence \in 0 .. LastSequence

VARIABLES
  prefix,   \* the file header, the bytes there are of it and its padding
  expected, \* the configuration the reader is given
  file,     \* the units the file holds after them now
  writer,   \* "live" while a writer appends, else "stopped"
  reader,   \* the WalReader and the offset of its descriptor
  got,      \* the sequences returned as Record since open
  answer    \* the last answer of read_next, or the failure of open

fileHeader == <<prefix, expected>>
vars == <<prefix, expected, file, writer, reader, got, answer>>

LogOf(n) == [k \in 1 .. n |-> LogUnit(k)]
Logs == {LogOf(n) : n \in 0 .. MaxUnits}

\* A unit replaced by zeros or by another record's, or a whole record of
\* any sequence after the last.
Damaged(f) == {[f EXCEPT ![k] = v] : k \in 1 .. Len(f), v \in {Zero, <<LastSequence, 1>>}}
Continued(n) == {LogOf(n * RecordUnits) \o RecordImage(s) : s \in FirstSequence .. LastSequence}

DamagedFiles ==
  (UNION {Damaged(f) : f \in Logs})
    \cup (UNION {Continued(n) : n \in 0 .. MaxUnits \div RecordUnits})

\* The error of the first check that fails.
FirstFailure(checks) ==
  LET failing == {k \in DOMAIN checks : ~checks[k].passed}
  IN  IF failing = {} THEN "None" ELSE checks[Min(failing)].error

Opened == [pc |-> "idle", offset |-> 0, next |-> expected.first_sequence, nextOffset |-> 0,
           failure |-> "None", exhausted |-> FALSE]
Closed == [Opened EXCEPT !.pc = "closed", !.next = 0]

Answers == {"EndOfLog", "Record", "IoError", "UnexpectedSequence", "InvalidRecordHeader",
            "InvalidPayloadCrc", "NonZeroPadding"} \cup Incomplete

OpenErrors == {"InvalidConfig", "IncompleteFileHeader", "InvalidFileMagic",
               "UnsupportedFormatVersion", "InvalidFileHeaderSize", "InvalidFileHeaderCrc",
               "InvalidStreamKind", "UnsupportedFlags", "InvalidPhysicalLayout",
               "IdentityMismatch"}

TypeOK ==
  /\ prefix.length \in 0 .. FieldMax /\ prefix.padding \in {"zeros", "other"}
  /\ expected \in Configs \cup {Own}
  /\ writer \in {"live", "stopped"}
  /\ reader \in [pc : {"closed", "idle", "payload", "padding"},
                 offset : 0 .. Len(file), nextOffset : 0 .. Len(file),
                 next : 0 .. LastSequence,
                 failure : Answers \cup {"None"}, exhausted : BOOLEAN]
  /\ got \in Seq(FirstSequence .. LastSequence)
  /\ answer \in Answers \cup OpenErrors \cup {"None"}

Whole(header) == [header |-> header, length |-> header.fields.records_offset, padding |-> "zeros"]

\* Own's header with a field that holds something else, changed with the
\* checksum or under it.
ChangedFields ==
  UNION {{[HeaderOf(Own).fields EXCEPT ![name] = value] : value \in HeaderValues[name]} :
         name \in DOMAIN HeaderValues}
ChangedHeaders ==
  {Sealed(fields) : fields \in ChangedFields}
    \cup {[HeaderOf(Own) EXCEPT !.fields = fields] : fields \in ChangedFields}

\* The file header of another configuration, or Own's: cut, with something
\* in its padding, or changed.
Prefixes ==
  {Whole(HeaderOf(c)) : c \in {d \in Configs \cup {Own} : ValidConfig(d)}}
    \cup {[Whole(HeaderOf(Own)) EXCEPT !.length = n] : n \in 0 .. RecordsOffset(Own)}
    \cup {[Whole(HeaderOf(Own)) EXCEPT !.padding = "other"]}
    \cup {[Whole(HeaderOf(Own)) EXCEPT !.header = header] : header \in ChangedHeaders}

\* Records are read with Own's configuration behind Own's header; any other
\* header has no records behind it.
Init ==
  /\ \/ /\ prefix = Whole(HeaderOf(Own)) /\ expected = Own
        /\ \/ writer = "live" /\ file \in Logs
           \/ writer = "stopped" /\ file \in Logs \cup DamagedFiles
     \/ /\ prefix \in Prefixes /\ expected = Own
        /\ writer = "stopped" /\ file = <<>>
     \/ /\ expected \in Configs
        /\ prefix \in {Whole(HeaderOf(c)) : c \in {d \in {expected, Own} : ValidConfig(d)}}
        /\ writer = "stopped" /\ file = <<>>
  /\ reader = Closed
  /\ got = <<>>
  /\ answer = "None"

\* The writer appends the next unit; it may stop for good wherever it is.
Grow ==
  /\ writer = "live"
  /\ Len(file) < MaxUnits
  /\ file' = Append(file, LogUnit(Len(file) + 1))
  /\ UNCHANGED <<fileHeader, writer, reader, got, answer>>

-----------------------------------------------------------------------------
(***************************************************************************)
(* PhysicalWalReaderAdapter::read of `units` at the current offset.        *)
(***************************************************************************)
ReadStatus(units) ==
  LET left == Len(file) - reader.offset
  IN  CASE left >= units -> "Complete"
        [] left = 0 /\ units # 0 -> "EndOfFile"
        [] OTHER -> "Incomplete"

Bytes(units) == SubSeq(file, reader.offset + 1, reader.offset + units)

After(units) ==
  IF ReadStatus(units) = "Complete" THEN reader.offset + units ELSE Len(file)

\* The read fails and the failure is remembered; the fault only answers it.
ForgetFailure(status, units) ==
  /\ reader' = [reader EXCEPT !.pc = "idle", !.offset = After(units)]
  /\ answer' = status

FailWith(status, units) ==
  /\ reader' = [reader EXCEPT !.pc = "idle", !.offset = After(units), !.failure = status]
  /\ answer' = status

(***************************************************************************)
(* WalReader::read_next: header, payload, padding; the file may grow       *)
(* between the reads.  A failure answers the same from then on.            *)
(***************************************************************************)
HeaderError ==
  LET header == Bytes(HeaderUnits)
      sequence == header[1][1]
      whole == SubSeq(RecordImage(sequence), 1, HeaderUnits)
  IN  FirstFailure(<<[passed |-> ~reader.exhausted, error |-> "UnexpectedSequence"],
                     [passed |-> header = whole, error |-> "InvalidRecordHeader"],
                     [passed |-> sequence = reader.next, error |-> "UnexpectedSequence"]>>)

ReadHeader ==
  /\ reader.pc = "idle"
  /\ reader.failure = "None"
  /\ LET status == ReadStatus(HeaderUnits)
     IN  \/ /\ status = "EndOfFile"
            /\ answer' = "EndOfLog"
            /\ UNCHANGED reader
         \/ /\ status = "Incomplete"
            /\ FailWith("IncompleteRecordHeader", HeaderUnits)
         \/ /\ status = "Complete" /\ HeaderError # "None"
            /\ FailWith(HeaderError, HeaderUnits)
         \/ /\ status = "Complete" /\ HeaderError = "None"
            /\ reader' = [reader EXCEPT !.pc = "payload", !.offset = @ + HeaderUnits]
            /\ UNCHANGED answer
  /\ UNCHANGED <<fileHeader, file, writer, got>>

PayloadValid ==
  Bytes(PayloadUnits) = SubSeq(RecordImage(reader.next), HeaderUnits + 1, DataUnits)

ReadPayload ==
  /\ reader.pc = "payload"
  /\ \/ /\ ReadStatus(PayloadUnits) # "Complete"
        /\ FailWith("IncompletePayload", PayloadUnits)
     \/ /\ ReadStatus(PayloadUnits) = "Complete" /\ ~PayloadValid
        /\ FailWith("InvalidPayloadCrc", PayloadUnits)
     \/ /\ ReadStatus(PayloadUnits) = "Complete" /\ PayloadValid
        /\ reader' = [reader EXCEPT !.pc = "padding", !.offset = @ + PayloadUnits]
        /\ UNCHANGED answer
  /\ UNCHANGED <<fileHeader, file, writer, got>>

\* The sequence after a record: none after the last one there is.  Faults:
\* the counter is not stopped there, or starts over.
NextUnchecked(r) == [r EXCEPT !.next = @ + 1]
NextWraps(r) == [r EXCEPT !.next = IF @ = LastSequence THEN FirstSequence ELSE @ + 1]
Advance(r) ==
  IF r.next = LastSequence THEN [r EXCEPT !.exhausted = TRUE] ELSE [r EXCEPT !.next = @ + 1]

\* The padding is all zeros; the fault reads past it without a look.
PaddingSkipped(units) == TRUE
PaddingValid(units) == \A k \in 1 .. Len(units) : units[k] = Zero

ReadPadding ==
  /\ reader.pc = "padding"
  /\ \/ /\ ReadStatus(PaddingUnits) # "Complete"
        /\ FailWith("IncompletePadding", PaddingUnits)
        /\ UNCHANGED got
     \/ /\ ReadStatus(PaddingUnits) = "Complete" /\ ~PaddingValid(Bytes(PaddingUnits))
        /\ FailWith("NonZeroPadding", PaddingUnits)
        /\ UNCHANGED got
     \/ /\ ReadStatus(PaddingUnits) = "Complete" /\ PaddingValid(Bytes(PaddingUnits))
        /\ reader' = Advance([reader EXCEPT !.pc = "idle", !.offset = @ + PaddingUnits,
                                            !.nextOffset = @ + RecordUnits])
        /\ got' = Append(got, reader.next)
        /\ answer' = "Record"
  /\ UNCHANGED <<fileHeader, file, writer>>

\* read(2) fails wherever the reader is in the file.
ReadIoError ==
  /\ reader.pc # "closed"
  /\ reader.failure = "None"
  /\ FailWith("IoError", 0)
  /\ UNCHANGED <<fileHeader, file, writer, got>>

Close ==
  /\ reader.pc = "idle"
  /\ reader' = Closed
  /\ answer' = "None"
  /\ got' = <<>>
  /\ UNCHANGED <<fileHeader, file, writer>>

(***************************************************************************)
(* WalReader::open: the first of the checks that fails is the answer.      *)
(***************************************************************************)
\* Every field of the configuration that a header records, and the fault of
\* leaving one out.
FirstSequenceIgnored(fields, config) ==
  \A name \in DOMAIN config \ {"capacity", "first_sequence"} : fields[name] = config[name]
SamePersistedConfig(fields, config) ==
  \A name \in DOMAIN config \ {"capacity"} : fields[name] = config[name]

ValidReaderConfig(config) == ValidConfig([config EXCEPT !.capacity = 1])

ConfigIn(fields) == [name \in DOMAIN Own |-> IF name = "capacity" THEN 1 ELSE fields[name]]

OpenChecks ==
  LET fields == prefix.header.fields
      actual == ConfigIn(fields)
      padded == fields.records_offset # FileHeaderSize
  IN  <<[passed |-> ValidReaderConfig(expected), error |-> "InvalidConfig"],
        [passed |-> prefix.length >= FileHeaderSize, error |-> "IncompleteFileHeader"],
        [passed |-> fields.magic = FileMagic, error |-> "InvalidFileMagic"],
        [passed |-> fields.version = FormatVersion, error |-> "UnsupportedFormatVersion"],
        [passed |-> fields.header_size = FileHeaderSize, error |-> "InvalidFileHeaderSize"],
        [passed |-> prefix.header.crc = fields, error |-> "InvalidFileHeaderCrc"],
        [passed |-> fields.stream_kind \in KnownKinds, error |-> "InvalidStreamKind"],
        [passed |-> fields.flags = 0, error |-> "UnsupportedFlags"],
        [passed |-> ValidConfig(actual) /\ fields.records_offset = RecordsOffset(actual),
         error |-> "InvalidPhysicalLayout"],
        [passed |-> SamePersistedConfig(fields, expected), error |-> "IdentityMismatch"],
        [passed |-> prefix.length >= fields.records_offset, error |-> "IncompleteFileHeader"],
        [passed |-> padded => prefix.padding = "zeros", error |-> "InvalidPhysicalLayout"]>>

Open ==
  /\ reader.pc = "closed"
  /\ answer' = FirstFailure(OpenChecks)
  /\ reader' = IF FirstFailure(OpenChecks) = "None" THEN Opened ELSE Closed
  /\ UNCHANGED <<fileHeader, file, writer, got>>

\* The file is not there, or read(2) fails while open reads the header.
OpenFails ==
  /\ reader.pc = "closed"
  /\ answer' = "IoError"
  /\ UNCHANGED <<fileHeader, file, writer, reader, got>>

ReadNext == ReadHeader \/ ReadPayload \/ ReadPadding

Next == Grow \/ ReadNext \/ ReadIoError \/ Close \/ Open \/ OpenFails

Spec == Init /\ [][Next]_vars

-----------------------------------------------------------------------------
\* The file is, to the byte, the one a writer creates for the reader's own
\* configuration, which is one a writer accepts (for some capacity).
IsOwn ==
  /\ ValidReaderConfig(expected)
  /\ prefix.header = HeaderOf(expected)
  /\ prefix.length >= RecordsOffset(expected)
  /\ FileHeaderPadding(expected) # 0 => prefix.padding = "zeros"

(***************************************************************************)
(* The checks of open, in their order, amount to this: the reader opens a  *)
(* file exactly when its header and padding are the ones of a file of its  *)
(* own.  Nothing else that could be read with another stride or as another *)
(* stream is opened, and no file of its own is refused.                    *)
(***************************************************************************)
OpensExactlyOwn ==
  /\ reader.pc # "closed" => IsOwn
  /\ answer \in OpenErrors => ~IsOwn

(***************************************************************************)
(* For every configuration that is accepted, with sizes up to the limits   *)
(* of their types, the checked and the wrapping arithmetic gives what      *)
(* exact arithmetic would: the records begin and follow each other at the  *)
(* least aligned offsets, and the header, the payload and the padding a    *)
(* writer appends are together exactly the stride a reader advances by     *)
(* (doc/FILE_FORMAT.md, "Record").                                         *)
(***************************************************************************)
LeastAligned(offset, size, alignment) ==
  /\ offset % alignment = 0
  /\ size <= offset /\ offset < size + alignment

LayoutExact ==
  ValidReaderConfig(expected) =>
    LET alignment == expected.alignment
        data == RecordHeaderSize + expected.payload_size
    IN  /\ LeastAligned(RecordsOffset(expected), FileHeaderSize, alignment)
        /\ LeastAligned(AlignedRecordSize(expected), data, alignment)
        /\ data + PaddingSize(expected) = AlignedRecordSize(expected)

(***************************************************************************)
(* What has been returned is the log from its first sequence, each record  *)
(* of it complete and valid in the file - also while the writer is half    *)
(* way through the next one - and next_offset is where the next starts:    *)
(* sequence - first_sequence strides in (doc/FILE_FORMAT.md, "Record").    *)
(***************************************************************************)
DeliversValidLog ==
  /\ \A k \in 1 .. Len(got) : got[k] = FirstSequence + k - 1
  /\ Len(got) <= ValidRecords(file)
  /\ reader.pc # "closed" => reader.nextOffset = Len(got) * RecordUnits

(***************************************************************************)
(* On a file nobody is writing, the step by step reader and the definition *)
(* of the scan agree: the same number of records, and for the same reason  *)
(* no more.                                                                *)
(***************************************************************************)
AgreesWithScan ==
  writer = "stopped" /\ reader.pc # "closed" /\ answer \notin {"None", "Record", "IoError"} =>
    /\ Len(got) = ValidRecords(file)
    /\ answer = ReadAnswer(file, Len(got))

(***************************************************************************)
(* A file that holds nothing but the log is never called corrupt, however  *)
(* much of the last record the reader finds.                               *)
(***************************************************************************)
LogNeverCorrupt ==
  reader.pc # "closed" /\ IsLog(file) =>
    answer \in Incomplete \cup {"None", "Record", "EndOfLog", "IoError"}

(***************************************************************************)
(* The reader implements the abstract LogReading, also while the writer    *)
(* appends between any two of its reads: records one by one, the end of    *)
(* the log and every other error only when there is no whole valid record  *)
(* left at that moment, and nothing after an error until it is closed and  *)
(* opened again (src/wal/reader.cpp; what it rejects is listed in          *)
(* doc/FILE_FORMAT.md, "The read-only validated reader rejects").          *)
(***************************************************************************)
ReadState ==
  CASE reader.pc = "closed" -> "closed"
    [] reader.pc # "closed" /\ reader.failure # "None" -> "failed"
    [] reader.pc # "closed" /\ reader.failure = "None" -> "open"

Reading == INSTANCE LogReading WITH
  MaxRecords <- LastSequence - FirstSequence + 1,
  Failures <- Answers \ {"EndOfLog", "Record"}, Refusals <- OpenErrors \cup {"IoError"},
  written <- ValidRecords(file), delivered <- Len(got), state <- ReadState, answer <- answer

RefinesLogReading == Reading!Spec
=============================================================================
