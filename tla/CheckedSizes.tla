---------------------------- MODULE CheckedSizes ----------------------------
(***************************************************************************)
(* The checked arithmetic that record_tape.cpp, config.cpp and             *)
(* physical_wal_file.cpp each define, and the size of a ring of records    *)
(* they compute with it.  `max` is the largest value of the integer type:  *)
(* every operation that is not preceded by its test wraps, as the type     *)
(* does.                                                                   *)
(***************************************************************************)
EXTENDS Integers

Wrap(n, max) == n % (max + 1)

AddFits(left, right, max) == left <= max - right

\* The fault multiplies without a look at the product.
MulUnchecked(left, right, max) == TRUE
MulFits(left, right, max) == left # 0 => right <= max \div left

\* checked_align_up: the addition is tested, and the fault does not test it.
AlignUnchecked(value, alignment, max) == TRUE
AlignFits(value, alignment, max) == AddFits(value, alignment - 1, max)

AlignUp(value, alignment, max) ==
  (Wrap(value + (alignment - 1), max) \div alignment) * alignment

\* alignment & (alignment - 1) is zero.
PowerOfTwo(n) == \E k \in 0 .. n : n = 2 ^ k

(***************************************************************************)
(* A ring of `capacity` blocks for the payload, each on an alignment.      *)
(***************************************************************************)
Stride(config, max) == AlignUp(config.payload_size, config.alignment, max)

StorageSize(config, max) == Wrap(Stride(config, max) * config.capacity, max)

StorageFits(config, max) ==
  /\ AlignFits(config.payload_size, config.alignment, max)
  /\ MulFits(Stride(config, max), config.capacity, max)
=============================================================================
