---------------------------- MODULE MCWalReader -----------------------------
(***************************************************************************)
(* Instances of WalReader for TLC: four-bit sizes, so that every payload   *)
(* and every alignment there is can be tried, and a stream of its own with *)
(* padding after the file header.                                          *)
(***************************************************************************)
EXTENDS WalReader

OwnConfig ==
  [payload_size |-> 5, capacity |-> 1, alignment |-> 8, payload_schema_version |-> 0,
   stream_kind |-> "Command", stream_id |-> 1, epoch_id |-> 1,
   first_sequence |-> FirstSequence, manifest_id |-> 1]

\* Every payload size and alignment, and Own's with one field changed.
OtherConfigs ==
  {[OwnConfig EXCEPT !.payload_size = size, !.alignment = alignment] :
     size \in 0 .. FieldMax, alignment \in 0 .. FieldMax}
  \cup {[OwnConfig EXCEPT !.stream_kind = kind, !.stream_id = id, !.manifest_id = id] :
          kind \in KnownKinds \cup {"Unknown"}, id \in {0, 1, 2}}
  \cup {[OwnConfig EXCEPT !.epoch_id = id] : id \in {0, 2}}
  \cup {[OwnConfig EXCEPT !.payload_schema_version = 1],
         [OwnConfig EXCEPT !.first_sequence = 0], [OwnConfig EXCEPT !.first_sequence = 1]}

OtherValues ==
  [magic |-> {"RLAW"}, version |-> {2}, header_size |-> {FileHeaderSize - 1},
   stream_kind |-> {"Generic", "Unknown"}, flags |-> {1},
   payload_size |-> {0, 4, FieldMax}, payload_schema_version |-> {1},
   alignment |-> {0, 3, 4, 1}, records_offset |-> {0, FileHeaderSize, 7},
   stream_id |-> {0, 2}, epoch_id |-> {0, 2}, first_sequence |-> {0, 1},
   manifest_id |-> {0, 2}]
=============================================================================
