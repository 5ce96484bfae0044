----------------------------- MODULE WalLayout ------------------------------
(***************************************************************************)
(* What a WalConfig makes of a WAL file (src/wal/config.cpp and            *)
(* physical_wal_file.cpp): whether it is valid, where the records begin,   *)
(* how far apart they are, and the file header a writer creates for it.    *)
(***************************************************************************)
EXTENDS CheckedSizes

CONSTANTS SizeMax,           \* largest size_t
          FieldMax,          \* largest uint32_t, the type of the sizes in a config
          OffsetMax,         \* largest uint64_t
          PointerAlign,      \* alignof(void*)
          FileHeaderSize,    \* physical_file_header_size
          RecordHeaderSize   \* physical_record_header_size

\* A size fits in size_t, and two sizes and a header in an offset.
ASSUME WalLayoutAssumption ==
  /\ SizeMax \in Nat /\ FieldMax \in Nat /\ OffsetMax \in Nat
  /\ PointerAlign \in Nat \ {0}
  /\ FileHeaderSize \in 1 .. FieldMax /\ RecordHeaderSize \in 1 .. FieldMax
  /\ FieldMax <= SizeMax
  /\ 3 * FieldMax <= OffsetMax

FileMagic == "FLAW"
FormatVersion == 3
KnownKinds == {"Generic", "Command", "Event"}

\* 0 stands for an offset or a size that cannot be had.
AlignedRecordSize(config) ==
  LET raw == RecordHeaderSize + config.payload_size
  IN  IF /\ AddFits(RecordHeaderSize, config.payload_size, OffsetMax)
         /\ AlignFits(raw, config.alignment, OffsetMax)
        THEN AlignUp(raw, config.alignment, OffsetMax) ELSE 0

RecordsOffset(config) ==
  LET offset == AlignUp(FileHeaderSize, config.alignment, OffsetMax)
  IN  IF AlignFits(FileHeaderSize, config.alignment, OffsetMax) /\ offset <= FieldMax
        THEN offset ELSE 0

\* What append_record pads a record with: the raw size is a sum of 32 bits,
\* whose wrap the cast of the difference undoes.  The fault is to take the
\* difference without the cast.
PaddingWide(config) ==
  AlignedRecordSize(config) - Wrap(RecordHeaderSize + config.payload_size, FieldMax)
PaddingSize(config) ==
  Wrap(AlignedRecordSize(config) - Wrap(RecordHeaderSize + config.payload_size, FieldMax), FieldMax)

FileHeaderPadding(config) == RecordsOffset(config) - FileHeaderSize

Identified(config) ==
  config.stream_kind # "Generic" =>
    config.stream_id # 0 /\ config.epoch_id # 0 /\ config.manifest_id # 0

ValidConfig(config) ==
  /\ config.payload_size # 0 /\ config.capacity # 0
  /\ config.alignment >= PointerAlign /\ config.first_sequence # 0
  /\ config.stream_kind \in KnownKinds
  /\ Identified(config)
  /\ PowerOfTwo(config.alignment)
  /\ StorageFits(config, SizeMax)
  /\ RecordsOffset(config) # 0 /\ AlignedRecordSize(config) # 0

(***************************************************************************)
(* The file header.  Its checksum is over all of its other fields, and is  *)
(* those fields here: every change of one without the other is noticed.    *)
(***************************************************************************)
Sealed(fields) == [fields |-> fields, crc |-> fields]

\* PhysicalWalAdapter::create.
HeaderOf(config) ==
  Sealed([magic |-> FileMagic, version |-> FormatVersion, header_size |-> FileHeaderSize,
          stream_kind |-> config.stream_kind, flags |-> 0,
          payload_size |-> config.payload_size,
          payload_schema_version |-> config.payload_schema_version,
          alignment |-> config.alignment, records_offset |-> RecordsOffset(config),
          stream_id |-> config.stream_id, epoch_id |-> config.epoch_id,
          first_sequence |-> config.first_sequence, manifest_id |-> config.manifest_id])
=============================================================================
