--------------------------- MODULE RecoveryProofs ---------------------------
(***************************************************************************)
(* Theorems of Recovery: every size of header, payload and padding, any    *)
(* number of durable records and of units behind them, any number of       *)
(* faults.                                                                 *)
(***************************************************************************)
EXTENDS Recovery, WalFileProofs

USE RecoveryAssumption, WalFileAssumption DEF SequencesSuffice

(***************************************************************************)
(* Whatever a power loss could leave begins with the durable log.          *)
(***************************************************************************)
BeginsWithDurable(f) ==
  /\ f \in Seq(Units)
  /\ Offset(Durable) <= Len(f)
  /\ \A k \in 1 .. Offset(Durable) : f[k] = LogUnit(k)

DiskInv == file \in disk /\ \A f \in disk : BeginsWithDurable(f)

(***************************************************************************)
(* Between its steps a recovery has the file it scanned, and then a clean  *)
(* one; the second scan is of the only contents a power loss could leave;  *)
(* and a file that was reported recovered is clean and stays what it is.   *)
(***************************************************************************)
StepInv ==
  /\ before \in [status : {"None", "Clean", "IncompleteTail", "Corrupted"}, records : Nat]
  /\ pc = "truncate" => before = Scan(file) /\ before.status = "IncompleteTail"
  /\ pc \in {"sync", "rescan"} => ScanStatus(file) = "Clean"
  /\ pc = "rescan" => disk = {file}
  /\ acked.status = "Recovered" =>
       /\ disk = {file} /\ ValidRecords(file) = acked.records /\ ScanStatus(file) = "Clean"
       /\ pc \in {"idle", "scan"}

IInv == TypeOK /\ DiskInv /\ StepInv

-----------------------------------------------------------------------------
LEMMA Offsets ==
  /\ Durable \in Nat /\ Durable <= Sequences /\ Offset(Durable) \in Nat
  /\ Offset(Durable) + UnsyncedUnits <= Sequences * RecordUnits
<1>1. PICK d \in Nat \ {0} : d = RecordUnits
  BY WalSizes
<1>2. Durable * d \in Nat /\ Sequences * d \in Nat /\ Durable * d <= Sequences * d
  BY <1>1, WalSizes, ProductNext DEF Sequences
<1>3. Durable <= Sequences
  <2>1. SUFFICES ASSUME Sequences + 1 <= Durable PROVE FALSE
    BY WalSizes
  <2>2. (Sequences + 1) * d <= Durable * d /\ (Sequences + 1) * d = Sequences * d + d
    BY <2>1, WalSizes, ProductMonotonic, ProductNext
  <2> QED BY <1>2, <2>2
<1> QED BY <1>1, <1>2, <1>3 DEF Offset, Sequences

LEMMA ScanIs ==
  ASSUME NEW f \in Seq(Units)
  PROVE  /\ Scan(f) \in [status : {"Clean", "IncompleteTail", "Corrupted"}, records : Nat]
         /\ Scan(f).status = ScanStatus(f) /\ Scan(f).records = ValidRecords(f)
<1>1. ValidRecords(f) \in Nat
  BY ValidRecordsIs
<1>2. ScanStatus(f) \in {"Clean", "IncompleteTail", "Corrupted"}
  BY DEF ScanStatus
<1> QED BY <1>1, <1>2 DEF Scan

LEMMA DurableIsValid ==
  ASSUME NEW f, BeginsWithDurable(f)
  PROVE  Durable <= ValidRecords(f) /\ ValidRecords(f) \in Nat
BY Offsets, LogIsValid, ValidRecordsIs DEF BeginsWithDurable, Offset

\* A power loss leaves the durable log.
LEMMA ImageBeginsWithDurable ==
  ASSUME NEW f, BeginsWithDurable(f), NEW image \in PowerLossImages(f, Offset(Durable))
  PROVE  BeginsWithDurable(image)
<1>1. f \in Seq(Units) /\ Offset(Durable) \in 0 .. Len(f)
  BY Offsets DEF BeginsWithDurable
<1>2. /\ image \in Seq(Units) /\ Len(image) \in Offset(Durable) .. Len(f)
      /\ \A k \in 1 .. Offset(Durable) : image[k] = f[k]
  BY <1>1, PowerLossKeeps
<1> QED BY <1>2 DEF BeginsWithDurable

\* A file that ends where its valid records end is clean.
LEMMA WholeRecordsAreClean ==
  ASSUME NEW f \in Seq(Units), Len(f) = ValidRecords(f) * RecordUnits
  PROVE  ScanStatus(f) = "Clean"
<1>1. PICK v \in Nat : v = ValidRecords(f)
  BY ValidRecordsIs
<1>2. PICK n \in Nat : n = v * RecordUnits /\ Len(f) = n
  BY <1>1, WalSizes
<1>3. ~Cut(f, v, 0) /\ Cut(f, v, 1)
  BY <1>2 DEF Cut
<1>4. ReadAnswer(f, v) = "EndOfLog"
  BY <1>3, Zenon DEF ReadAnswer
<1>5. ReadAnswer(f, v) \notin Incomplete
  BY <1>4 DEF Incomplete
<1> QED BY <1>1, <1>4, <1>5 DEF ScanStatus

LEMMA InitInv == Init => IInv
<1> SUFFICES ASSUME Init PROVE IInv
  OBVIOUS
<1>1. PICK n \in 0 .. UnsyncedUnits :
        LET written == [k \in 1 .. Offset(Durable) + n |-> LogUnit(k)]
            images == PowerLossImages(written, Offset(Durable))
        IN  \/ file = written /\ disk = images
            \/ file \in images /\ disk = {file}
  BY DEF Init
<1>2. PICK m \in Nat : m = Offset(Durable) + n /\ Offset(Durable) <= m
  BY Offsets
<1>3. PICK written : written = [k \in 1 .. m |-> LogUnit(k)]
  OBVIOUS
<1>4. \/ file = written /\ disk = PowerLossImages(written, Offset(Durable))
      \/ file \in PowerLossImages(written, Offset(Durable)) /\ disk = {file}
  BY <1>1, <1>2, <1>3
<1>5. BeginsWithDurable(written)
  <2>1. \A k \in 1 .. m : LogUnit(k) \in Units
    <3>1. \A k \in 1 .. m : k \in 1 .. Sequences * RecordUnits
      <4>1. PICK z \in Nat : z = Sequences * RecordUnits
        BY WalSizes
      <4> QED BY <1>2, <4>1, Offsets
    <3> QED BY <3>1, LogUnitIsUnit
  <2>2. written \in [1 .. m -> Units]
    BY <1>3, <2>1
  <2>3. written \in Seq(Units) /\ Len(written) = m
    BY <2>2
  <2> QED BY <1>2, <1>3, <2>3, Offsets DEF BeginsWithDurable
<1>6. written \in PowerLossImages(written, Offset(Durable))
  BY <1>5, Offsets, PowerLossMayKeepAll DEF BeginsWithDurable
<1>7. DiskInv
  BY <1>4, <1>5, <1>6, ImageBeginsWithDurable DEF DiskInv
<1>8. StepInv
  BY DEF Init, NoScan, StepInv
<1>9. TypeOK
  BY <1>7 DEF Init, NoScan, DiskInv, TypeOK, Statuses
<1> QED BY <1>7, <1>8, <1>9 DEF IInv

LEMMA CallInv == IInv /\ Call => IInv'
<1> SUFFICES ASSUME IInv, Call PROVE IInv'
  OBVIOUS
<1>1. TypeOK' /\ DiskInv'
  BY DEF IInv, TypeOK, DiskInv, Call
<1>2. StepInv'
  BY DEF IInv, StepInv, Call, Scan
<1> QED BY <1>1, <1>2 DEF IInv

LEMMA ScanBeforeInv == IInv /\ ScanBefore => IInv'
<1> SUFFICES ASSUME IInv, ScanBefore PROVE IInv'
  OBVIOUS
<1>1. /\ pc = "scan" /\ before' = Scan(file) /\ UNCHANGED <<file, disk, faults>>
      /\ \/ ScanStatus(file) = "Clean" /\ Return("Clean", Scan(file).records)
         \/ /\ ScanStatus(file) = "IncompleteTail" /\ pc' = "truncate"
            /\ UNCHANGED <<result, acked>>
         \/ Return("Refused", 0)
  BY DEF ScanBefore, Repairable, Scan
<1>2. file \in Seq(Units)
  BY DEF IInv, DiskInv, BeginsWithDurable
<1>3. /\ before' \in [status : {"Clean", "IncompleteTail", "Corrupted"}, records : Nat]
      /\ before'.status = ScanStatus(file)
  BY <1>1, <1>2, ScanIs
<1>4. TypeOK' /\ DiskInv'
  BY <1>1, <1>3 DEF IInv, TypeOK, DiskInv, Return, Statuses
<1>5. StepInv'
  BY <1>1, <1>3 DEF IInv, StepInv, Return, Scan
<1> QED BY <1>4, <1>5 DEF IInv

LEMMA TruncateInv == IInv /\ Truncate => IInv'
<1> SUFFICES ASSUME IInv, Truncate PROVE IInv'
  OBVIOUS
<1>1. /\ pc = "truncate" /\ pc' = "sync" /\ disk' = disk \cup {file'}
      /\ file' = SubSeq(file, 1, before.records * RecordUnits)
      /\ UNCHANGED <<before, result, acked, faults>>
  BY DEF Truncate, CutTo, Offset
<1>2. file \in Seq(Units) /\ BeginsWithDurable(file)
  BY DEF IInv, DiskInv, BeginsWithDurable
<1>3. before.records = ValidRecords(file)
  BY <1>1, <1>2, ScanIs DEF IInv, StepInv
<1>4. /\ file' \in Seq(Units) /\ Len(file') = ValidRecords(file) * RecordUnits
      /\ \A k \in 1 .. ValidRecords(file) * RecordUnits : file'[k] = file[k]
  BY <1>1, <1>2, <1>3, CutKeepsValid, Zenon
<1>5. BeginsWithDurable(file')
  <2>1. PICK v \in Nat : v = ValidRecords(file) /\ Durable <= v
    BY <1>2, DurableIsValid
  <2>2. Durable * RecordUnits <= v * RecordUnits /\ v * RecordUnits \in Nat
        /\ Durable * RecordUnits \in Nat
    BY <2>1, WalSizes, ProductMonotonic
  <2> QED BY <1>2, <1>4, <2>1, <2>2 DEF BeginsWithDurable, Offset
<1>6. TypeOK' /\ DiskInv'
  BY <1>1, <1>5 DEF IInv, TypeOK, DiskInv
<1>7. ScanStatus(file') = "Clean"
  <2>1. ValidRecords(file') = ValidRecords(file)
    BY <1>1, <1>2, <1>3, CutKeepsValid, Zenon
  <2>2. Len(file') = ValidRecords(file') * RecordUnits
    BY <1>4, <2>1
  <2> QED BY <1>4, <2>2, WholeRecordsAreClean
<1>8. StepInv'
  BY <1>1, <1>7 DEF IInv, StepInv
<1> QED BY <1>6, <1>8 DEF IInv

LEMMA SyncInv == IInv /\ Sync => IInv'
BY DEF IInv, TypeOK, DiskInv, StepInv, Sync, SyncTruncation

LEMMA RescanInv == IInv /\ Rescan => IInv'
<1> SUFFICES ASSUME IInv, Rescan PROVE IInv'
  OBVIOUS
<1>1. pc = "rescan" /\ UNCHANGED <<file, disk, before, faults>>
  BY DEF Rescan
<1>2. file \in Seq(Units) /\ disk = {file}
  BY <1>1 DEF IInv, DiskInv, StepInv, BeginsWithDurable
<1>3. \/ Return("IoError", 0)
      \/ /\ Return("Recovered", before.records)
         /\ ScanStatus(file) = "Clean" /\ ValidRecords(file) = before.records
  <2>1. CASE Scan(file) = [before EXCEPT !.status = "Clean"]
    <3>1. Scan(file).status = "Clean" /\ Scan(file).records = before.records
      BY <2>1 DEF IInv, StepInv
    <3> QED BY <1>2, <3>1, ScanIs DEF Rescan
  <2>2. CASE Scan(file) # [before EXCEPT !.status = "Clean"]
    BY <2>2 DEF Rescan
  <2> QED BY <2>1, <2>2
<1>4. TypeOK' /\ DiskInv'
  BY <1>1, <1>3 DEF IInv, TypeOK, DiskInv, Return, Statuses
<1>5. StepInv'
  <2>1. pc' = "idle" /\ before' \in [status : {"None", "Clean", "IncompleteTail", "Corrupted"},
                                     records : Nat]
    BY <1>1, <1>3 DEF IInv, StepInv, Return
  <2>2. acked'.status = "Recovered" => ValidRecords(file) = acked'.records /\ ScanStatus(file) = "Clean"
    BY <1>1, <1>3 DEF IInv, StepInv, Return
  <2> QED BY <1>1, <1>2, <2>1, <2>2 DEF StepInv
<1> QED BY <1>4, <1>5 DEF IInv

LEMMA FaultInv == IInv /\ (Error \/ ProcessCrash \/ PowerLoss) => IInv'
<1> SUFFICES ASSUME IInv, Error \/ ProcessCrash \/ PowerLoss PROVE IInv'
  OBVIOUS
<1>0. faults' \in 0 .. MaxFaults
  BY DEF IInv, TypeOK, Error, ProcessCrash, PowerLoss, CanFault
<1>1. CASE Error
  <2>1. /\ pc' = "idle" /\ result' = "IoError" /\ acked' = acked
        /\ disk' \in {disk, {file}} /\ UNCHANGED <<file, before>>
    BY <1>1 DEF Error, Return
  <2> QED BY <1>0, <2>1 DEF IInv, TypeOK, DiskInv, StepInv, Statuses
<1>2. CASE ProcessCrash
  BY <1>0, <1>2 DEF IInv, TypeOK, DiskInv, StepInv, ProcessCrash
<1>3. CASE PowerLoss
  BY <1>0, <1>3 DEF IInv, TypeOK, DiskInv, StepInv, PowerLoss
<1> QED BY <1>1, <1>2, <1>3

LEMMA NextInv == IInv /\ [Next]_vars => IInv'
<1> SUFFICES ASSUME IInv, [Next]_vars PROVE IInv'
  OBVIOUS
<1>1. CASE Recover
  BY <1>1, CallInv, ScanBeforeInv, TruncateInv, SyncInv, RescanInv DEF Recover
<1>2. CASE Error \/ ProcessCrash \/ PowerLoss
  BY <1>2, FaultInv
<1>3. CASE UNCHANGED vars
  BY <1>3 DEF vars, IInv, TypeOK, DiskInv, StepInv
<1> QED BY <1>1, <1>2, <1>3 DEF Next

(***************************************************************************)
(* IInv is an invariant of repeated, interrupted recovery.                 *)
(***************************************************************************)
THEOREM Invariance == Spec => []IInv
BY InitInv, NextInv, PTL DEF Spec

(***************************************************************************)
(* Every variable keeps its type, and the file is one of the contents a    *)
(* power loss could leave.                                                 *)
(***************************************************************************)
THEOREM TypeCorrect == Spec => []TypeOK
<1>1. IInv => TypeOK
  BY DEF IInv
<1> QED BY <1>1, Invariance, PTL

(***************************************************************************)
(* No recovery loses a record the writer had synchronized, in the file or  *)
(* in what a power loss would leave of it (recover_incomplete_tail cuts    *)
(* only where its scan ended).                                             *)
(***************************************************************************)
THEOREM DurableIsKept == Spec => []DurableKept
<1>1. IInv => DurableKept
  BY DurableIsValid, Offsets DEF IInv, DiskInv, DurableKept
<1> QED BY <1>1, Invariance, PTL

(***************************************************************************)
(* What was reported as Recovered survives any later power loss (the       *)
(* truncation is synchronized before the second scan).                     *)
(***************************************************************************)
THEOREM RecoveredIsFinal == Spec => []RecoveredSurvives
<1>1. IInv => RecoveredSurvives
  BY DEF IInv, StepInv, RecoveredSurvives
<1> QED BY <1>1, Invariance, PTL

(***************************************************************************)
(* Recovery, errors and crashes of the process leave the trusted prefix    *)
(* as it is.                                                               *)
(***************************************************************************)
THEOREM PrefixIsKept == Spec => PrefixKept
<1>1. ASSUME IInv, Truncate PROVE ValidRecords(file') = ValidRecords(file)
  <2>1. file \in Seq(Units)
    BY <1>1 DEF IInv, DiskInv, BeginsWithDurable
  <2>2. before.records = ValidRecords(file)
    BY <1>1, <2>1, ScanIs DEF IInv, StepInv, Truncate
  <2>3. file' = SubSeq(file, 1, ValidRecords(file) * RecordUnits)
    BY <1>1, <2>2, Zenon DEF Truncate, CutTo, Offset
  <2> QED BY <2>1, <2>3, CutKeepsValid, Zenon
<1>2. ASSUME IInv, [Next]_vars
      PROVE  [ValidRecords(file') # ValidRecords(file) => ~Recover /\ ~Error /\ ~ProcessCrash]_vars
  <2>1. Call \/ ScanBefore \/ Sync \/ Rescan \/ Error \/ ProcessCrash => file' = file
    BY DEF Call, ScanBefore, Sync, Rescan, Error, ProcessCrash
  <2>2. Recover \/ Error \/ ProcessCrash => ValidRecords(file') = ValidRecords(file)
    BY <1>1, <1>2, <2>1, Zenon DEF Recover
  <2> QED BY <2>2, Zenon
<1> QED BY <1>2, Invariance, PTL DEF Spec, PrefixKept

(***************************************************************************)
(* A file with a complete invalid record is refused and not written        *)
(* (include/fexma/wal/recovery.hpp).                                       *)
(***************************************************************************)
THEOREM CorruptionIsUntouched == Spec => CorruptionUntouched
<1>1. ASSUME IInv, Recover, ScanStatus(file) = "Corrupted"
      PROVE  UNCHANGED <<file, disk>> /\ acked' = acked
  <2>1. file \in Seq(Units)
    BY <1>1 DEF IInv, DiskInv, BeginsWithDurable
  <2>2. pc \notin {"truncate", "sync", "rescan"}
    BY <1>1, <2>1, ScanIs DEF IInv, StepInv
  <2>3. CASE Call
    BY <2>3 DEF Call
  <2>4. CASE ScanBefore
    BY <1>1, <2>4 DEF ScanBefore, Scan, Repairable, Return
  <2> QED BY <1>1, <2>2, <2>3, <2>4 DEF Recover, Truncate, Sync, Rescan
<1> QED BY <1>1, Invariance, PTL DEF Spec, CorruptionUntouched
=============================================================================
