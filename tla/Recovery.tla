------------------------------ MODULE Recovery ------------------------------
(***************************************************************************)
(* recover_incomplete_tail (src/wal/recovery.cpp) on a file a writer left  *)
(* behind, called again and again by its exclusive owner, who may crash,   *)
(* lose power or meet an input or output error between any two of its      *)
(* steps.                                                                  *)
(***************************************************************************)
EXTENDS WalFile

CONSTANTS Durable,       \* records the writer had synchronized; a bound of the model
          UnsyncedUnits, \* units it had written after them (at most a batch)
          MaxFaults      \* crashes, power losses and errors; a bound of the model

\* The writer had a sequence for every record it wrote.
SequencesSuffice ==
  /\ Durable \in Nat /\ UnsyncedUnits \in Nat
  /\ Durable * RecordUnits + UnsyncedUnits
       <= (LastSequence - FirstSequence + 1) * RecordUnits

ASSUME RecoveryAssumption == SequencesSuffice /\ MaxFaults \in Nat

VARIABLES
  file,    \* the units the operating system holds
  disk,    \* the contents a power loss now could leave
  pc,      \* the step of recover_incomplete_tail
  before,  \* its first scan
  result,  \* its answer
  acked,   \* the last answer that was ok: the caller replays these records
  faults

vars == <<file, disk, pc, before, result, acked, faults>>

Scan(f) == [status |-> ScanStatus(f), records |-> ValidRecords(f)]
NoScan == [status |-> "None", records |-> 0]

Offset(records) == records * RecordUnits

Statuses == {"None", "Clean", "Recovered", "Refused", "IoError"}

TypeOK ==
  /\ file \in disk
  /\ pc \in {"idle", "scan", "truncate", "sync", "rescan"}
  /\ before.status \in {"None", "Clean", "IncompleteTail", "Corrupted"}
  /\ result \in Statuses
  /\ acked.status \in {"None", "Clean", "Recovered"}
  /\ faults \in 0 .. MaxFaults

\* The writer was killed, or the power failed, in the middle of a batch.
Init ==
  /\ \E n \in 0 .. UnsyncedUnits :
       LET written == [k \in 1 .. Offset(Durable) + n |-> LogUnit(k)]
           images == PowerLossImages(written, Offset(Durable))
       IN  \/ file = written /\ disk = images
           \/ file \in images /\ disk = {file}
  /\ pc = "idle"
  /\ before = NoScan
  /\ result = "None"
  /\ acked = NoScan
  /\ faults = 0

\* A call returns; the caller keeps what it was told if the status is ok.
\* The fault keeps it whatever the status.
ReturnUnchecked(status, records) ==
  /\ pc' = "idle"
  /\ result' = status
  /\ acked' = [status |-> status, records |-> records]

Return(status, records) ==
  /\ pc' = "idle"
  /\ result' = status
  /\ acked' = IF status \in {"Clean", "Recovered"}
                THEN [status |-> status, records |-> records] ELSE acked

Call ==
  /\ pc = "idle"
  /\ pc' = "scan"
  /\ UNCHANGED <<file, disk, before, result, acked, faults>>

\* The first scan decides: only an incomplete tail is touched.  The fault
\* takes whatever is not clean for repairable.
RepairsCorruption(status) == status # "Clean"
Repairable(status) == status = "IncompleteTail"

ScanBefore ==
  /\ pc = "scan"
  /\ LET scan == Scan(file)
     IN  /\ before' = scan
         /\ \/ /\ scan.status = "Clean"
               /\ Return("Clean", scan.records)
            \/ /\ Repairable(scan.status)
               /\ pc' = "truncate"
               /\ UNCHANGED <<result, acked>>
            \/ /\ scan.status # "Clean" /\ ~Repairable(scan.status)
               /\ Return("Refused", 0)
  /\ UNCHANGED <<file, disk, faults>>

\* ftruncate to the end of the trusted prefix: until it is synchronized a
\* power loss may leave the file at either length.  The faults cut one
\* record too many, and one unit too few.
CutToWholeRecord(records) == Offset(IF records = 0 THEN 0 ELSE records - 1)
CutInsideHeader(records) == Offset(records) + 1
CutTo(records) == Offset(records)

Truncate ==
  /\ pc = "truncate"
  /\ pc' = "sync"
  /\ file' = SubSeq(file, 1, CutTo(before.records))
  /\ disk' = disk \cup {file'}
  /\ UNCHANGED <<before, result, acked, faults>>

\* The synchronization of the truncation, and the fault of leaving it out.
SyncSkipped == UNCHANGED disk
SyncTruncation == disk' = {file}

Sync ==
  /\ pc = "sync"
  /\ pc' = "rescan"
  /\ SyncTruncation
  /\ UNCHANGED <<file, before, result, acked, faults>>

Rescan ==
  /\ pc = "rescan"
  /\ IF /\ Scan(file) = [before EXCEPT !.status = "Clean"]
        /\ Len(file) = Offset(before.records)
       THEN Return("Recovered", before.records)
       ELSE Return("IoError", 0)
  /\ UNCHANGED <<file, disk, before, faults>>

-----------------------------------------------------------------------------
(***************************************************************************)
(* Faults.  An error ends the call with IoError; one of fdatasync or of    *)
(* the close after it may come before or after the data reached the disk.  *)
(***************************************************************************)
CanFault == faults < MaxFaults /\ faults' = faults + 1

Error ==
  /\ CanFault
  /\ pc # "idle"
  /\ Return("IoError", 0)
  /\ disk' \in IF pc = "sync" THEN {disk, {file}} ELSE {disk}
  /\ UNCHANGED <<file, before>>

ProcessCrash ==
  /\ CanFault
  /\ pc # "idle"
  /\ pc' = "idle"
  /\ UNCHANGED <<file, disk, before, result, acked>>

PowerLoss ==
  /\ CanFault
  /\ file' \in disk
  /\ disk' = {file'}
  /\ pc' = "idle"
  /\ UNCHANGED <<before, result, acked>>

Recover == Call \/ ScanBefore \/ Truncate \/ Sync \/ Rescan

Next == Recover \/ Error \/ ProcessCrash \/ PowerLoss

Spec == Init /\ [][Next]_vars

FairSpec == Spec /\ WF_vars(Recover)

-----------------------------------------------------------------------------
(***************************************************************************)
(* No recovery, however often it is interrupted and begun again, loses a   *)
(* record the writer had synchronized - neither in the file nor in what a  *)
(* power loss would leave of it.                                           *)
(***************************************************************************)
DurableKept == \A f \in disk : ValidRecords(f) >= Durable

(***************************************************************************)
(* Only a power loss changes the trusted prefix: recovery removes no       *)
(* complete valid record, synchronized or not.                             *)
(***************************************************************************)
PrefixKept ==
  [][ValidRecords(file') # ValidRecords(file) => ~Recover /\ ~Error /\ ~ProcessCrash]_vars

(***************************************************************************)
(* A file with a complete invalid record is never written                  *)
(* (include/fexma/wal/recovery.hpp, "refused without mutation").           *)
(***************************************************************************)
CorruptionUntouched ==
  [][Recover /\ ScanStatus(file) = "Corrupted" =>
       UNCHANGED <<file, disk>> /\ acked' = acked]_vars

(***************************************************************************)
(* Recovered is a promise about the disk: the records it reports survive   *)
(* any later power loss.                                                   *)
(***************************************************************************)
RecoveredSurvives ==
  acked.status = "Recovered" => \A f \in disk : ValidRecords(f) = acked.records

(***************************************************************************)
(* Whatever a recovery reported ok survives: "After crash, every complete  *)
(* record in the maximal contiguous fully validated prefix is              *)
(* authoritative history and participates in replay" (doc/FILE_FORMAT.md). *)
(***************************************************************************)
AuthoritativeHistoryKept == ValidRecords(file) >= acked.records

(***************************************************************************)
(* Once the faults are over repeated recovery settles: it reports the same *)
(* history ever after, or goes on refusing the file.                       *)
(***************************************************************************)
Settles == <>[](result \in {"Clean", "Refused"})
=============================================================================
