--------------------------- MODULE MCPersistence ----------------------------
(***************************************************************************)
(* Two instances of Persistence in one run, chosen at the start.  In the   *)
(* one of the .cfg the ring is larger than a batch and the stream longer   *)
(* than the range of sequences.  In the other, Small, the ring is smaller  *)
(* than a batch and every record has a sequence, so that nothing but a     *)
(* failing write or sync or the end of the process stops the stream.  What *)
(* it may do is within the bounds of the first (at most two records not    *)
(* yet durable, four in all), so the invariants are asked of both.         *)
(***************************************************************************)
EXTENDS Persistence

VARIABLE small   \* which of the two it is

Small == INSTANCE Persistence WITH SyncCount <- 3, Capacity <- 2, MaxPosition <- 4

MCInit == Init /\ small \in BOOLEAN

MCNext ==
  /\ \/ ~small /\ Next
     \/ small /\ Small!Next
  /\ UNCHANGED small

\* Progress is asked of Small, whose roles are fair.
MCSpec == MCInit /\ [][MCNext]_<<vars, small>> /\ (small => Small!Fairness)

(***************************************************************************)
(* Unless a write or sync fails or the process ends, a stream through a    *)
(* ring smaller than a batch is made durable and executed to its end, the  *)
(* record with the last sequence included: the producer waits for the      *)
(* frontier, and persistence does not wait for a full batch.               *)
(***************************************************************************)
SmallRingDrains == small => Small!EverythingExecuted
=============================================================================
