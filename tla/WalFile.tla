------------------------------ MODULE WalFile -------------------------------
(***************************************************************************)
(* The records of a WAL file (doc/FILE_FORMAT.md, "Record") and what the   *)
(* validated reader makes of them, as pure operators.                      *)
(*                                                                         *)
(* A file is the sequence of units after its header.  A unit is the        *)
(* smallest piece a write or a crash can separate: unit k of the record    *)
(* with sequence s is <<s, k>>, a padding unit is Zero, and so is a block  *)
(* that was allocated but never reached the disk.  Checksums are taken to  *)
(* detect every change: a header is valid when its units are those of one  *)
(* sequence, a payload when its units are the ones that were appended.     *)
(***************************************************************************)
EXTENDS Integers, Sequences, FiniteSetsExt

CONSTANTS HeaderUnits,    \* units of a record header (24 bytes)
          PayloadUnits,   \* units of a payload
          PaddingUnits,   \* units of zero padding up to the alignment; may be 0
          FirstSequence,  \* WalConfig::first_sequence
          LastSequence    \* numeric_limits<uint64_t>::max()

ASSUME WalFileAssumption ==
  /\ HeaderUnits \in Nat \ {0}
  /\ PayloadUnits \in Nat \ {0}
  /\ PaddingUnits \in Nat
  /\ FirstSequence \in Nat \ {0}
  /\ LastSequence \in Nat
  /\ FirstSequence <= LastSequence

Zero == <<0, 0>>

DataUnits == HeaderUnits + PayloadUnits
RecordUnits == DataUnits + PaddingUnits

\* What append_record writes for a sequence: header, payload, padding.
RecordImage(s) == [k \in 1 .. RecordUnits |-> IF k <= DataUnits THEN <<s, k>> ELSE Zero]

\* Unit k of the endless file of contiguous records.
LogUnit(k) ==
  RecordImage(FirstSequence + (k - 1) \div RecordUnits)[((k - 1) % RecordUnits) + 1]

IsLog(file) == \A k \in 1 .. Len(file) : file[k] = LogUnit(k)

(***************************************************************************)
(* The answer of read_next for record n (from 0) of a file, the records    *)
(* before it having been read.                                             *)
(***************************************************************************)
Segment(file, n, from, to) == SubSeq(file, n * RecordUnits + from, n * RecordUnits + to)

Cut(file, n, units) == Len(file) < n * RecordUnits + units

ReadAnswer(file, n) ==
  LET image(s) == RecordImage(s)
      header == Segment(file, n, 1, HeaderUnits)
      sequence == FirstSequence + n
  IN  IF ~Cut(file, n, 0) /\ Cut(file, n, 1) THEN "EndOfLog"
      ELSE IF Cut(file, n, HeaderUnits) THEN "IncompleteRecordHeader"
      ELSE IF sequence > LastSequence THEN "UnexpectedSequence"
      ELSE IF header[1][2] = 0 \/ header # SubSeq(image(header[1][1]), 1, HeaderUnits)
        THEN "InvalidRecordHeader"
      ELSE IF header[1][1] # sequence THEN "UnexpectedSequence"
      ELSE IF Cut(file, n, DataUnits) THEN "IncompletePayload"
      ELSE IF Segment(file, n, HeaderUnits + 1, DataUnits) #
                SubSeq(image(sequence), HeaderUnits + 1, DataUnits) THEN "InvalidPayloadCrc"
      ELSE IF Cut(file, n, RecordUnits) THEN "IncompletePadding"
      ELSE IF \E k \in DataUnits + 1 .. RecordUnits : file[n * RecordUnits + k] # Zero
        THEN "NonZeroPadding"
      ELSE "Record"

Incomplete == {"IncompleteRecordHeader", "IncompletePayload", "IncompletePadding"}

(***************************************************************************)
(* scan_wal: read records until the answer is not Record.                  *)
(***************************************************************************)
ValidRecords(file) ==
  Max({n \in 0 .. Len(file) \div RecordUnits :
         \A i \in 0 .. n - 1 : ReadAnswer(file, i) = "Record"})

ScanStatus(file) ==
  LET answer == ReadAnswer(file, ValidRecords(file))
  IN  CASE answer = "EndOfLog" -> "Clean"
        [] answer \in Incomplete -> "IncompleteTail"
        [] OTHER -> "Corrupted"

(***************************************************************************)
(* What a power loss may leave of a file whose first `durable` units are   *)
(* synchronized: any length in between, with any of the blocks after them  *)
(* never written.                                                          *)
(***************************************************************************)
PowerLossImages(file, durable) ==
  UNION {{[k \in 1 .. n |-> IF k \in lost THEN Zero ELSE file[k]] :
            lost \in SUBSET (durable + 1 .. n)} : n \in durable .. Len(file)}
=============================================================================
