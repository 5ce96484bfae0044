------------------------- MODULE PersistenceProofs --------------------------
(***************************************************************************)
(* Theorems of Persistence: every size of header, payload and padding,     *)
(* every batch, capacity and number of sequences, every failing write and  *)
(* sync, every crash and power loss.                                       *)
(***************************************************************************)
EXTENDS Persistence, WalFileProofs

USE PersistenceAssumption, WalFileAssumption

(***************************************************************************)
(* The positions.  Persistence is between Head and the terminal frontier,  *)
(* a batch begins at its frontier and ends no further than Head, and no    *)
(* call runs once failed.                                                  *)
(***************************************************************************)
CallInv ==
  /\ executed <= frontier /\ frontier <= head /\ head - executed <= Capacity
  /\ frontier <= Sequences
  /\ failed => call.pc = "idle"
  /\ call.pc # "idle" =>
       /\ frontier <= call.current /\ call.current <= call.batchEnd
       /\ call.batchEnd <= head /\ call.batchEnd - frontier <= SyncCount
       /\ call.current <= Sequences
       /\ call.pc = "append" => call.current < call.batchEnd
       /\ call.pc # "append" => call.written = 0

(***************************************************************************)
(* The file.  Up to the durable frontier it is the log, and durable; until *)
(* a power loss all of it is, and while nothing has failed it ends where   *)
(* the call under way is.                                                  *)
(***************************************************************************)
FileInv ==
  /\ file \in Seq(Units)
  /\ frontier * RecordUnits <= durable
  /\ \A k \in 1 .. frontier * RecordUnits : file[k] = LogUnit(k)
  /\ life = "powerLost" => durable = Len(file)
  /\ life # "powerLost" =>
       /\ IsLog(file)
       /\ Len(file) <= (frontier + SyncCount) * RecordUnits
       /\ Len(file) <= Sequences * RecordUnits
       /\ ~failed => Len(file) = IF call.pc = "idle" THEN frontier * RecordUnits
                                 ELSE call.current * RecordUnits + call.written
       /\ call.pc = "publish" => call.current * RecordUnits <= durable

IInv == TypeOK /\ CallInv /\ FileInv

-----------------------------------------------------------------------------
LEMMA Sizes ==
  /\ HeaderUnits \in Nat \ {0} /\ PayloadUnits \in Nat \ {0}
  /\ DataUnits \in Nat \ {0} /\ RecordUnits \in Nat \ {0}
  /\ HeaderUnits < DataUnits /\ DataUnits <= RecordUnits
  /\ Sequences \in Nat \ {0} /\ FirstSequence \in Nat /\ LastSequence \in Nat
  /\ SyncCount \in Nat \ {0} /\ Capacity \in Nat \ {0}
  /\ Position \subseteq Nat /\ 0 \in Position
BY DEF DataUnits, RecordUnits, Sequences, Position

\* The numbers of the invariant.
LEMMA Positions ==
  ASSUME IInv
  PROVE  /\ head \in Nat /\ executed \in Nat /\ frontier \in Nat
         /\ call.current \in Nat /\ call.batchEnd \in Nat
         /\ Capacity \in Nat /\ SyncCount \in Nat \ {0} /\ Sequences \in Nat
BY Sizes DEF IInv, TypeOK

LEMMA Numbers ==
  ASSUME IInv
  PROVE  /\ head \in Nat /\ executed \in Nat /\ frontier \in Nat
         /\ call.current \in Nat /\ call.batchEnd \in Nat /\ call.written \in Nat
         /\ call.written < RecordUnits
         /\ durable \in Nat /\ Len(file) \in Nat /\ durable <= Len(file)
         /\ frontier * RecordUnits \in Nat /\ call.current * RecordUnits \in Nat
<1>1. file \in Seq(Units)
  BY DEF IInv, FileInv
<1>2. /\ head \in Nat /\ executed \in Nat /\ frontier \in Nat
      /\ call.current \in Nat /\ call.batchEnd \in Nat
  BY Sizes DEF IInv, TypeOK
<1>3. call.written \in 0 .. RecordUnits - 1 /\ durable \in 0 .. Len(file)
  BY DEF IInv, TypeOK
<1>4. frontier * RecordUnits \in Nat /\ call.current * RecordUnits \in Nat
  BY <1>2, Sizes, ProductMonotonic
<1> QED BY <1>1, <1>2, <1>3, <1>4, Sizes

CallState == [pc : {"idle", "append", "sync", "publish"}, current : Position,
              batchEnd : Position, written : 0 .. RecordUnits - 1]

-----------------------------------------------------------------------------
LEMMA InitInv == Init => IInv
<1> SUFFICES ASSUME Init PROVE IInv
  OBVIOUS
<1>1. TypeOK
  <2>1. Idle \in CallState
    BY Sizes DEF Idle, CallState
  <2>2. Len(file) = 0 /\ \A k \in 1 .. Len(file) : FALSE
    BY DEF Init
  <2>3. 0 \in Position
    BY Sizes
  <2>4. head \in Position /\ executed \in Position /\ frontier \in Position /\ failed \in BOOLEAN
    BY <2>3 DEF Init
  <2>5. call \in CallState
    BY <2>1 DEF Init
  <2>6. durable \in 0 .. Len(file)
    BY <2>2 DEF Init
  <2>7. life \in {"open", "closed", "crashed", "powerLost"}
    BY DEF Init
  <2> QED BY <2>2, <2>4, <2>5, <2>6, <2>7, Zenon DEF TypeOK, CallState
<1>2. CallInv
  BY Sizes DEF Init, CallInv, Idle
<1>3. 0 * RecordUnits = 0 /\ (0 + SyncCount) * RecordUnits \in Nat /\ Sequences * RecordUnits \in Nat
  BY Sizes, ProductMonotonic
<1>4. FileInv
  BY <1>3 DEF Init, FileInv, IsLog, Idle
<1> QED BY <1>1, <1>2, <1>4 DEF IInv

LEMMA PublishInv == IInv /\ Publish => IInv'
<1> SUFFICES ASSUME IInv, Publish PROVE IInv'
  OBVIOUS
<1>1. TypeOK'
  BY DEF IInv, TypeOK, Publish, Position
<1>2. CallInv'
  <2>1. head' = head + 1 /\ head - executed < Capacity
    BY DEF Publish
  <2>2. CallInv
    BY DEF IInv
  <2> QED BY <2>1, <2>2, Positions DEF CallInv, Publish
<1>3. FileInv'
  BY DEF IInv, FileInv, Publish, IsLog
<1> QED BY <1>1, <1>2, <1>3 DEF IInv

LEMMA ExecuteInv == IInv /\ Execute => IInv'
<1> SUFFICES ASSUME IInv, Execute PROVE IInv'
  OBVIOUS
<1>1. CallInv'
  <2>1. executed' = executed + 1 /\ executed < frontier
    BY DEF Execute
  <2>2. CallInv
    BY DEF IInv
  <2> QED BY <2>1, <2>2, Positions DEF CallInv, Execute
<1>2. TypeOK'
  BY Numbers DEF IInv, TypeOK, CallInv, Execute, Position
<1>3. FileInv'
  BY DEF IInv, FileInv, Execute, IsLog
<1> QED BY <1>1, <1>2, <1>3 DEF IInv

LEMMA BeginInv == IInv /\ Begin => IInv'
<1> SUFFICES ASSUME IInv, Begin PROVE IInv'
  OBVIOUS
<1>1. PICK availableEnd \in frontier + 1 .. head :
        call' = [pc |-> "append", current |-> frontier,
                 batchEnd |-> frontier + BatchSize(availableEnd - frontier), written |-> 0]
  BY DEF Begin, Available
<1>2. /\ call.pc = "idle" /\ ~failed /\ life = "open"
      /\ UNCHANGED <<head, executed, frontier, failed, file, durable, life>>
  BY DEF Begin, Proceeds
<1>3. /\ call'.pc = "append" /\ call'.current = frontier /\ call'.written = 0
      /\ call'.batchEnd \in frontier + 1 .. head
      /\ call'.batchEnd - frontier <= SyncCount
  <2>1. PICK n \in Nat : n = availableEnd - frontier /\ n # 0 /\ frontier + n <= head
    BY Positions
  <2>2. BatchSize(n) \in 1 .. n /\ BatchSize(n) <= SyncCount
    BY <2>1, Positions DEF BatchSize
  <2>3. call'.batchEnd = frontier + BatchSize(n)
    BY <1>1, <2>1
  <2> QED BY <1>1, <2>1, <2>2, <2>3, Positions
<1>4. TypeOK'
  <2>1. call'.batchEnd \in Position
    BY <1>3, Numbers DEF IInv, TypeOK, Position
  <2> QED BY <1>1, <1>2, <1>3, <2>1, Sizes DEF IInv, TypeOK
<1>5. CallInv'
  <2>1. CallInv
    BY DEF IInv
  <2> QED BY <1>2, <1>3, <2>1, Positions DEF CallInv
<1>6. FileInv'
  BY <1>2, <1>3, Numbers DEF IInv, FileInv, IsLog
<1> QED BY <1>4, <1>5, <1>6 DEF IInv

\* A unit that is appended is the next of the log.
LEMMA AppendUnitInv == IInv /\ AppendUnit => IInv'
<1> SUFFICES ASSUME IInv, AppendUnit PROVE IInv'
  OBVIOUS
<1>1. PICK c \in Nat, w \in 0 .. RecordUnits - 1 : c = call.current /\ w = call.written
  BY Numbers, Sizes
<1>2. PICK unit : unit = RecordImage(FirstSequence + c)[w + 1]
  OBVIOUS
<1>3. /\ life = "open" /\ call.pc = "append" /\ c < Sequences
      /\ file' = Append(file, unit)
      /\ UNCHANGED <<head, executed, frontier, failed, durable, life>>
  <2>1. /\ life = "open" /\ call.pc = "append" /\ ~SequenceExhausted
        /\ UNCHANGED <<head, executed, frontier, failed, durable, life>>
    BY DEF AppendUnit
  <2>2. file' = Append(file, unit)
    BY <1>1, <1>2, Zenon DEF AppendUnit
  <2>3. c < Sequences
    BY <1>1, <2>1, Sizes DEF SequenceExhausted, Sequences
  <2> QED BY <2>1, <2>2, <2>3
<1>4. PICK end \in Nat :
        /\ end = call.batchEnd
        /\ ~failed /\ c < end /\ frontier <= c /\ end <= head /\ end - frontier <= SyncCount
        /\ executed <= frontier /\ frontier <= head /\ head - executed <= Capacity
        /\ frontier <= Sequences
  BY <1>1, <1>3, Numbers DEF IInv, CallInv
<1>5. unit \in Units /\ unit = LogUnit(c * RecordUnits + (w + 1)) /\ w + 1 \in 1 .. RecordUnits
  <2>1. PICK k \in 1 .. RecordUnits : k = w + 1
    BY Sizes
  <2>2. unit = RecordImage(FirstSequence + c)[k]
    BY <1>2, <2>1
  <2>3. LogUnit(c * RecordUnits + k) = unit
    BY <2>2, LogUnitOf
  <2>4. unit \in Units
    BY <1>3, <2>2, ImageUnit
  <2> QED BY <2>1, <2>3, <2>4
<1>6. /\ file \in Seq(Units) /\ IsLog(file)
      /\ Len(file) = c * RecordUnits + w /\ c * RecordUnits \in Nat
  BY <1>1, <1>3, <1>4, Numbers DEF IInv, FileInv
<1>7. /\ file' \in Seq(Units) /\ Len(file') = Len(file) + 1
      /\ file'[Len(file) + 1] = unit
      /\ \A k \in 1 .. Len(file) : file'[k] = file[k]
  BY <1>3, <1>5, <1>6
<1>8. Len(file) + 1 = c * RecordUnits + (w + 1)
  BY <1>6
<1>9. IsLog(file')
  <2>1. file'[Len(file) + 1] = LogUnit(Len(file) + 1)
    BY <1>5, <1>7, <1>8
  <2>2. \A k \in 1 .. Len(file) : file'[k] = LogUnit(k)
    BY <1>6, <1>7 DEF IsLog
  <2>3. \A k \in 1 .. Len(file) + 1 : k \in 1 .. Len(file) \/ k = Len(file) + 1
    BY <1>6
  <2> QED BY <1>7, <2>1, <2>2, <2>3 DEF IsLog
<1>10. /\ call'.pc \in {"append", "sync"} /\ call'.batchEnd = end
       /\ call'.current \in {c, c + 1} /\ call'.written \in 0 .. RecordUnits - 1
       /\ call'.pc = "append" => call'.current < end
       /\ call'.pc # "append" => call'.written = 0
       /\ call'.current * RecordUnits + call'.written = c * RecordUnits + (w + 1)
       /\ call' \in CallState
  <2>1. call \in CallState
    BY DEF IInv, TypeOK, CallState
  <2>2. c + 1 \in Position
    BY <1>4, Numbers DEF IInv, TypeOK, Position
  <2>3. CASE w + 1 # RecordUnits
    <3>1. call' = [call EXCEPT !.written = w + 1]
      BY <1>1, <2>3 DEF AppendUnit
    <3>2. /\ call'.pc = "append" /\ call'.batchEnd = end /\ call'.current = c
          /\ call'.written = w + 1
      BY <1>1, <1>3, <1>4, <2>1, <3>1 DEF CallState
    <3>3. w + 1 \in 0 .. RecordUnits - 1
      BY <2>3, Sizes
    <3>4. call' \in CallState
      BY <2>1, <3>1, <3>3 DEF CallState
    <3> QED BY <1>4, <3>2, <3>3, <3>4
  <2>4. CASE w + 1 = RecordUnits
    <3>1. (c + 1) * RecordUnits = c * RecordUnits + RecordUnits
      BY Sizes, ProductNext
    <3>2. PICK pc \in {"append", "sync"} : pc = IF c + 1 = end THEN "sync" ELSE "append"
      OBVIOUS
    <3>3. call' = [call EXCEPT !.written = 0, !.current = c + 1, !.pc = pc]
      BY <1>1, <1>4, <2>4, <3>2 DEF AppendUnit
    <3>4. call'.pc = pc /\ call'.batchEnd = end /\ call'.current = c + 1 /\ call'.written = 0
      BY <1>4, <2>1, <3>3 DEF CallState
    <3>5. call' \in CallState
      <4>1. pc \in {"idle", "append", "sync", "publish"} /\ 0 \in 0 .. RecordUnits - 1
        BY Sizes
      <4> QED BY <2>1, <2>2, <3>3, <4>1 DEF CallState
    <3>6. pc = "append" => c + 1 < end
      BY <1>4, <3>2
    <3> QED BY <2>4, <3>1, <3>2, <3>4, <3>5, <3>6, <1>6, Sizes
  <2> QED BY <2>3, <2>4
<1>12. TypeOK'
  <2>1. \A k \in 1 .. Len(file') : file'[k] \in Units
    BY <1>7
  <2>2. durable' \in 0 .. Len(file')
    BY <1>3, <1>7, Numbers
  <2> QED BY <1>3, <1>10, <2>1, <2>2 DEF IInv, TypeOK, Units, CallState
<1>13. CallInv'
  <2>1. PICK next \in {c, c + 1} : next = call'.current
    BY <1>10
  <2>2. frontier <= next /\ next <= end /\ next <= Sequences
    <3>1. frontier \in Nat /\ Sequences \in Nat /\ next \in Nat
      BY Numbers, Sizes
    <3>2. CASE next = c
      BY <1>3, <1>4, <3>1, <3>2
    <3>3. CASE next = c + 1
      BY <1>3, <1>4, <3>1, <3>3
    <3> QED BY <3>2, <3>3
  <2> QED BY <1>3, <1>4, <1>10, <2>1, <2>2 DEF CallInv
<1>14. Len(file') <= (frontier + SyncCount) * RecordUnits /\ Len(file') <= Sequences * RecordUnits
  <2>1. c * RecordUnits + (w + 1) <= (c + 1) * RecordUnits
    BY <1>1, Sizes, ProductNext
  <2>2. c + 1 <= frontier + SyncCount /\ c + 1 <= Sequences
    <3>1. frontier \in Nat /\ SyncCount \in Nat /\ Sequences \in Nat
      BY Numbers, Sizes
    <3> QED BY <1>3, <1>4, <3>1
  <2>3. /\ (c + 1) * RecordUnits <= (frontier + SyncCount) * RecordUnits
        /\ (c + 1) * RecordUnits <= Sequences * RecordUnits
        /\ (c + 1) * RecordUnits \in Nat
        /\ (frontier + SyncCount) * RecordUnits \in Nat /\ Sequences * RecordUnits \in Nat
    <3>1. c + 1 \in Nat /\ frontier + SyncCount \in Nat
      BY Numbers, Sizes
    <3> QED BY <2>2, <3>1, Sizes, ProductMonotonic
  <2> QED BY <1>6, <1>7, <1>8, <2>1, <2>3
<1>15. FileInv'
  <2>1. ASSUME NEW k \in 1 .. frontier * RecordUnits PROVE file'[k] = LogUnit(k)
    <3>1. k \in 1 .. Len(file) /\ file[k] = LogUnit(k)
      BY Numbers DEF IInv, FileInv
    <3> QED BY <1>7, <3>1
  <2> QED BY <1>3, <1>7, <1>8, <1>9, <1>10, <1>14, <2>1 DEF IInv, FileInv
<1> QED BY <1>12, <1>13, <1>15 DEF IInv

\* A failure ends the call and leaves the file as it is.
LEMMA FailureInv ==
  ASSUME IInv, life = "open", call' = Idle, failed' = TRUE,
         UNCHANGED <<head, executed, frontier, file, durable, life>>
  PROVE  IInv'
<1>1. Idle \in CallState /\ Idle.pc = "idle"
  BY Sizes DEF Idle, CallState
<1>2. TypeOK'
  BY <1>1 DEF IInv, TypeOK, CallState
<1>3. CallInv'
  BY <1>1 DEF IInv, CallInv
<1>4. FileInv'
  BY <1>1 DEF IInv, FileInv, IsLog
<1> QED BY <1>2, <1>3, <1>4 DEF IInv

LEMMA AppendFailInv == IInv /\ AppendFail => IInv'
BY FailureInv DEF AppendFail, Fail

LEMMA SyncFailInv == IInv /\ SyncFail => IInv'
BY FailureInv DEF SyncFail, SyncFailed

LEMMA SyncOkInv == IInv /\ SyncOk => IInv'
<1> SUFFICES ASSUME IInv, SyncOk PROVE IInv'
  OBVIOUS
<1>1. /\ life = "open" /\ call.pc = "sync" /\ durable' = Len(file)
      /\ UNCHANGED <<head, executed, frontier, failed, file, life>>
  BY DEF SyncOk
<1>2. call \in CallState
  BY DEF IInv, TypeOK, CallState
<1>3. /\ call' \in CallState /\ call'.pc = "publish" /\ call'.current = call.current
      /\ call'.batchEnd = call.batchEnd /\ call'.written = call.written
  BY <1>2 DEF SyncOk, CallState
<1>4. TypeOK'
  BY <1>1, <1>3, Numbers DEF IInv, TypeOK, CallState
<1>5. CallInv'
  BY <1>1, <1>3 DEF IInv, CallInv
<1>6. ~failed /\ call.written = 0
  BY <1>1 DEF IInv, CallInv
<1>7. Len(file) = call.current * RecordUnits
  BY <1>1, <1>6, Numbers DEF IInv, FileInv
<1>8. frontier * RecordUnits <= Len(file)
  BY Numbers DEF IInv, FileInv
<1>9. FileInv'
  BY <1>1, <1>3, <1>6, <1>7, <1>8, Numbers DEF IInv, FileInv, IsLog
<1> QED BY <1>4, <1>5, <1>9 DEF IInv

\* The frontier moves up to the records the sync has covered.
LEMMA PublishFrontierInv == IInv /\ PublishFrontier => IInv'
<1> SUFFICES ASSUME IInv, PublishFrontier PROVE IInv'
  OBVIOUS
<1>1. PICK c \in Nat : c = call.current
  BY Positions
<1>2. /\ life = "open" /\ call.pc = "publish" /\ frontier' = c /\ call' = Idle
      /\ UNCHANGED <<head, executed, failed, file, durable, life>>
  BY <1>1 DEF PublishFrontier
<1>3. /\ ~failed /\ frontier <= c /\ c <= head /\ executed <= c
      /\ c <= Sequences /\ call.written = 0 /\ head - executed <= Capacity
  BY <1>1, <1>2, Positions DEF IInv, CallInv
<1>4. Idle \in CallState /\ Idle.pc = "idle"
  BY Sizes DEF Idle, CallState
<1>5. TypeOK'
  <2>1. c \in Position
    BY <1>1 DEF IInv, TypeOK
  <2> QED BY <1>2, <1>4, <2>1 DEF IInv, TypeOK, CallState
<1>6. CallInv'
  BY <1>2, <1>3, <1>4 DEF CallInv
<1>7. /\ Len(file) = c * RecordUnits /\ c * RecordUnits <= durable /\ IsLog(file)
      /\ file \in Seq(Units)
  BY <1>1, <1>2, <1>3, Numbers DEF IInv, FileInv
<1>8. c * RecordUnits <= (c + SyncCount) * RecordUnits /\ c * RecordUnits <= Sequences * RecordUnits
  BY <1>3, Sizes, ProductMonotonic
<1>9. FileInv'
  <2>1. \A k \in 1 .. c * RecordUnits : file[k] = LogUnit(k)
    BY <1>7 DEF IsLog
  <2> QED BY <1>2, <1>4, <1>7, <1>8, <2>1 DEF FileInv, IsLog
<1> QED BY <1>5, <1>6, <1>9 DEF IInv

LEMMA CloseInv == IInv /\ Close => IInv'
BY DEF IInv, TypeOK, CallInv, FileInv, IsLog, Close

LEMMA ProcessCrashInv == IInv /\ ProcessCrash => IInv'
BY DEF IInv, TypeOK, CallInv, FileInv, IsLog, ProcessCrash, Running

LEMMA PowerLossInv == IInv /\ PowerLoss => IInv'
<1> SUFFICES ASSUME IInv, PowerLoss PROVE IInv'
  OBVIOUS
<1>1. /\ file' \in PowerLossImages(file, durable) /\ durable' = Len(file')
      /\ life' = "powerLost"
      /\ UNCHANGED <<head, executed, frontier, call, failed>>
  BY DEF PowerLoss
<1>2. file \in Seq(Units) /\ durable \in 0 .. Len(file)
  BY DEF IInv, TypeOK, FileInv
<1>3. /\ file' \in Seq(Units) /\ Len(file') \in durable .. Len(file)
      /\ \A k \in 1 .. durable : file'[k] = file[k]
  BY <1>1, <1>2, PowerLossKeeps
<1>4. TypeOK'
  <2>1. \A k \in 1 .. Len(file') : file'[k] \in Units
    BY <1>3
  <2>2. durable' \in 0 .. Len(file')
    BY <1>1, <1>3
  <2> QED BY <1>1, <2>1, <2>2 DEF IInv, TypeOK, Units
<1>5. CallInv'
  BY <1>1 DEF IInv, CallInv
<1>6. FileInv'
  <2>1. frontier * RecordUnits <= durable /\ frontier * RecordUnits \in Nat /\ durable \in Nat
    BY Numbers DEF IInv, FileInv
  <2>2. \A k \in 1 .. frontier * RecordUnits : file'[k] = LogUnit(k)
    <3>1. \A k \in 1 .. frontier * RecordUnits : k \in 1 .. durable /\ file[k] = LogUnit(k)
      BY <2>1 DEF IInv, FileInv
    <3> QED BY <1>3, <3>1
  <2>3. frontier * RecordUnits <= Len(file')
    BY <1>3, <2>1
  <2> QED BY <1>1, <1>3, <2>2, <2>3 DEF FileInv
<1> QED BY <1>4, <1>5, <1>6 DEF IInv

LEMMA NextInv == IInv /\ [Next]_vars => IInv'
<1> SUFFICES ASSUME IInv, [Next]_vars PROVE IInv'
  OBVIOUS
<1>1. CASE Publish \/ Execute
  BY <1>1, PublishInv, ExecuteInv
<1>2. CASE Process
  BY <1>2, BeginInv, AppendUnitInv, AppendFailInv, SyncOkInv, SyncFailInv,
     PublishFrontierInv DEF Process
<1>3. CASE Close \/ ProcessCrash \/ PowerLoss
  BY <1>3, CloseInv, ProcessCrashInv, PowerLossInv
<1>4. CASE UNCHANGED vars
  BY <1>4 DEF vars, IInv, TypeOK, CallInv, FileInv, IsLog
<1> QED BY <1>1, <1>2, <1>3, <1>4 DEF Next

(***************************************************************************)
(* IInv is an invariant of persistence.                                    *)
(***************************************************************************)
THEOREM Invariance == Spec => []IInv
BY InitInv, NextInv, PTL DEF Spec

(***************************************************************************)
(* Every variable keeps its type; no record is written with a sequence     *)
(* out of range.                                                           *)
(***************************************************************************)
THEOREM TypeCorrect == Spec => []TypeOK
<1>1. IInv => TypeOK
  BY DEF IInv
<1> QED BY <1>1, Invariance, PTL

(***************************************************************************)
(* Until a power loss the file is the contiguous log, cut anywhere.        *)
(***************************************************************************)
THEOREM FileStaysLog == Spec => []FileIsLog
<1>1. IInv => FileIsLog
  BY DEF IInv, FileInv, FileIsLog
<1> QED BY <1>1, Invariance, PTL

(***************************************************************************)
(* The records of the batch under way are still in the ring                *)
(* (process_until views them one by one after it has read the upstream     *)
(* frontier).                                                              *)
(***************************************************************************)
THEOREM BatchStays == Spec => []BatchRetained
<1>1. ASSUME IInv PROVE BatchRetained
  <2>1. CallInv
    BY <1>1 DEF IInv
  <2> QED BY <1>1, <2>1, Positions DEF CallInv, BatchRetained
<1> QED BY <1>1, Invariance, PTL

LEMMA LossHolds == IInv => LossBounded
<1> SUFFICES ASSUME IInv PROVE LossBounded
  OBVIOUS
<1>1. /\ frontier \in Nat /\ SyncCount \in Nat /\ RecordUnits \in Nat
      /\ durable \in Nat /\ Len(file) \in Nat
  BY Numbers, Sizes
<1>2. CASE life = "powerLost"
  <2>1. Len(file) - durable = 0 /\ SyncCount * RecordUnits \in Nat
    BY <1>1, <1>2, ProductMonotonic DEF IInv, FileInv
  <2> QED BY <2>1 DEF LossBounded
<1>3. CASE life # "powerLost"
  <2>1. /\ frontier * RecordUnits <= durable
        /\ Len(file) <= (frontier + SyncCount) * RecordUnits
    BY <1>3 DEF IInv, FileInv
  <2>2. (frontier + SyncCount) * RecordUnits = frontier * RecordUnits + SyncCount * RecordUnits
    BY <1>1
  <2>3. frontier * RecordUnits \in Nat /\ SyncCount * RecordUnits \in Nat
    BY <1>1, ProductMonotonic
  <2> QED BY <1>1, <2>1, <2>2, <2>3 DEF LossBounded
<1> QED BY <1>2, <1>3

(***************************************************************************)
(* At most sync_count records are ever written and not yet durable.        *)
(***************************************************************************)
THEOREM LossIsBounded == Spec => []LossBounded
BY LossHolds, Invariance, PTL

-----------------------------------------------------------------------------
(***************************************************************************)
(* What persistence has promised is in the validated prefix of the file,   *)
(* whatever interrupts it.                                                 *)
(***************************************************************************)
LEMMA PromisedIsValid == IInv => ValidRecords(file) \in Nat /\ frontier <= ValidRecords(file)
<1> SUFFICES ASSUME IInv PROVE ValidRecords(file) \in Nat /\ frontier <= ValidRecords(file)
  OBVIOUS
<1>1. /\ file \in Seq(Units) /\ frontier * RecordUnits <= durable
      /\ \A k \in 1 .. frontier * RecordUnits : file[k] = LogUnit(k)
  BY DEF IInv, FileInv
<1>2. frontier \in Nat /\ frontier <= Sequences /\ frontier * RecordUnits <= Len(file)
  BY <1>1, Numbers DEF IInv, CallInv
<1> QED BY <1>1, <1>2, LogIsValid, ValidRecordsIs

(***************************************************************************)
(* What a later stage has been given, and what it has executed, a reader   *)
(* would find in the file, whatever has failed or been lost.               *)
(***************************************************************************)
THEOREM PromisedIsRecoverable == Spec => []ExecutedIsRecoverable
<1>1. ASSUME IInv PROVE ExecutedIsRecoverable
  BY <1>1, PromisedIsValid DEF IInv, CallInv, ExecutedIsRecoverable
<1> QED BY <1>1, Invariance, PTL

-----------------------------------------------------------------------------
(***************************************************************************)
(* The refinement.  While the process runs without a failure the records   *)
(* of the log are the ones the call under way has finished.                *)
(***************************************************************************)
LEMMA PhaseIs ==
  ASSUME IInv
  PROVE  /\ ~Running => Phase = "gone"
         /\ Running /\ (failed \/ life = "closed") => Phase = "stopped"
         /\ life = "open" /\ ~failed => Phase = "appending"
         /\ life = "open" => Running
BY DEF Phase, Running

LEMMA Logged ==
  IInv /\ life # "powerLost" /\ ~failed
    => ValidRecords(file) = IF call.pc = "idle" THEN frontier ELSE call.current
<1> SUFFICES ASSUME IInv, life # "powerLost", ~failed
             PROVE  ValidRecords(file) = IF call.pc = "idle" THEN frontier ELSE call.current
  OBVIOUS
<1>1. file \in Seq(Units) /\ IsLog(file)
  BY DEF IInv, FileInv
<1>2. CASE call.pc = "idle"
  <2>1. frontier \in Nat /\ frontier <= Sequences /\ 0 \in 0 .. RecordUnits - 1
    BY Numbers, Sizes DEF IInv, CallInv
  <2>2. Len(file) = frontier * RecordUnits + 0
    BY <1>2, Numbers DEF IInv, FileInv
  <2> QED BY <1>1, <1>2, <2>1, <2>2, LogHasAllThatFit
<1>3. CASE call.pc # "idle"
  <2>1. call.current \in Nat /\ call.current <= Sequences /\ call.written \in 0 .. RecordUnits - 1
    BY <1>3, Numbers, Sizes DEF IInv, CallInv
  <2>2. Len(file) = call.current * RecordUnits + call.written
    BY <1>3 DEF IInv, FileInv
  <2> QED BY <1>1, <1>3, <2>1, <2>2, LogHasAllThatFit
<1> QED BY <1>2, <1>3

LEMMA InitRefines == Init => Log!Init
<1> SUFFICES ASSUME Init PROVE Log!Init
  OBVIOUS
<1>1. IInv
  BY InitInv
<1>2. ValidRecords(file) = 0
  BY <1>1, Logged DEF Init, Idle
<1>3. Phase = "appending"
  BY <1>1, PhaseIs DEF Init
<1> QED BY <1>2, <1>3 DEF Init, Log!Init

\* The state an action leaves to the abstract log.
Unseen == UNCHANGED <<executed, frontier, failed, file, life>>

LEMMA UnseenRefines == Unseen => UNCHANGED Log!vars
BY DEF Unseen, Log!vars, Phase, Running

LEMMA AppendUnitRefines == IInv /\ IInv' /\ AppendUnit => [Log!Next]_Log!vars
<1> SUFFICES ASSUME IInv, IInv', AppendUnit PROVE [Log!Next]_Log!vars
  OBVIOUS
<1>1. /\ life = "open" /\ call.pc = "append" /\ ~failed
      /\ UNCHANGED <<executed, frontier, failed, life>>
  BY DEF AppendUnit, IInv, CallInv
<1>2. Phase = "appending" /\ Phase' = "appending"
  BY <1>1 DEF Phase, Running
<1>3. ValidRecords(file) = call.current
  BY <1>1, Logged
<1>4. ValidRecords(file)' = IF call'.pc = "idle" THEN frontier' ELSE call'.current
  <2>1. life' # "powerLost" /\ ~failed'
    BY <1>1
  <2>2. (IInv /\ life # "powerLost" /\ ~failed
           => ValidRecords(file) = IF call.pc = "idle" THEN frontier ELSE call.current)'
    BY Logged, PTL
  <2> QED BY <2>1, <2>2
<1>5. call'.pc # "idle" /\ (call'.current = call.current \/ call'.current = call.current + 1)
  BY DEF AppendUnit, IInv, TypeOK
<1>6. call.current < MaxPosition
  <2>1. call.current < call.batchEnd /\ call.batchEnd <= head
    BY <1>1 DEF IInv, CallInv
  <2>2. head \in 0 .. MaxPosition
    BY DEF IInv, TypeOK, Position
  <2> QED BY <2>1, <2>2, Numbers
<1>7. CASE call'.current = call.current
  BY <1>1, <1>2, <1>3, <1>4, <1>5, <1>7 DEF Log!vars
<1>8. CASE call'.current = call.current + 1
  BY <1>1, <1>2, <1>3, <1>4, <1>5, <1>6, <1>8 DEF Log!Next, Log!Log
<1> QED BY <1>5, <1>7, <1>8

LEMMA FailureRefines == IInv /\ (AppendFail \/ SyncFail) => Log!Stop
<1> SUFFICES ASSUME IInv, AppendFail \/ SyncFail PROVE Log!Stop
  OBVIOUS
<1>1. /\ life = "open" /\ call.pc # "idle" /\ failed' = TRUE
      /\ UNCHANGED <<executed, frontier, file, life>>
  BY DEF AppendFail, SyncFail, Fail, SyncFailed
<1>2. ~failed
  BY <1>1 DEF IInv, CallInv
<1>3. Phase = "appending" /\ Phase' = "stopped"
  BY <1>1, <1>2 DEF Phase, Running
<1> QED BY <1>1, <1>3 DEF Log!Stop

LEMMA PublishFrontierRefines == IInv /\ PublishFrontier => [Log!Next]_Log!vars
<1> SUFFICES ASSUME IInv, PublishFrontier PROVE [Log!Next]_Log!vars
  OBVIOUS
<1>1. /\ life = "open" /\ call.pc = "publish" /\ frontier' = call.current
      /\ UNCHANGED <<executed, failed, file, life>>
  BY DEF PublishFrontier
<1>2. ~failed /\ frontier <= call.current
  BY <1>1 DEF IInv, CallInv
<1>3. Phase = "appending" /\ Phase' = "appending"
  BY <1>1, <1>2 DEF Phase, Running
<1>4. ValidRecords(file) = call.current
  BY <1>1, <1>2, Logged
<1>5. CASE call.current = frontier
  BY <1>1, <1>3, <1>5 DEF Log!vars
<1>6. CASE frontier < call.current
  <2>1. frontier' \in frontier + 1 .. ValidRecords(file)
    BY <1>1, <1>4, <1>6, Numbers
  <2> QED BY <1>1, <1>3, <2>1 DEF Log!Next, Log!Promise
<1> QED BY <1>2, <1>5, <1>6, Numbers

LEMMA CloseRefines == IInv /\ Close => [Log!Next]_Log!vars
<1> SUFFICES ASSUME IInv, Close PROVE [Log!Next]_Log!vars
  OBVIOUS
<1>1. life = "open" /\ life' = "closed" /\ UNCHANGED <<executed, frontier, failed, file>>
  BY DEF Close
<1>2. CASE failed
  BY <1>1, <1>2 DEF Log!vars, Phase, Running
<1>3. CASE ~failed
  BY <1>1, <1>3 DEF Log!Next, Log!Stop, Phase, Running
<1> QED BY <1>2, <1>3

LEMMA EndRefines == IInv /\ IInv' /\ (ProcessCrash \/ PowerLoss) => Log!Lose
<1> SUFFICES ASSUME IInv, IInv', ProcessCrash \/ PowerLoss PROVE Log!Lose
  OBVIOUS
<1>1. /\ Running /\ life' \in {"crashed", "powerLost"}
      /\ UNCHANGED <<executed, frontier, failed>>
  BY DEF ProcessCrash, PowerLoss
<1>2. Phase # "gone" /\ Phase' = "gone"
  BY <1>1 DEF IInv, TypeOK, Phase, Running
<1>3. ValidRecords(file) \in Nat /\ frontier <= ValidRecords(file)
  BY PromisedIsValid
<1>4. ValidRecords(file)' \in Nat /\ frontier <= ValidRecords(file)'
  <2>1. (IInv => ValidRecords(file) \in Nat /\ frontier <= ValidRecords(file))'
    BY PromisedIsValid, PTL
  <2> QED BY <1>1, <2>1
<1>5. CASE ProcessCrash
  <2>1. ValidRecords(file)' \in frontier .. ValidRecords(file)
    BY <1>3, <1>5, Numbers DEF ProcessCrash
  <2> QED BY <1>1, <1>2, <2>1 DEF Log!Lose
<1>6. CASE PowerLoss
  <2>1. /\ file' \in Seq(Units) /\ Len(file') <= Len(file)
        /\ file \in Seq(Units) /\ IsLog(file) /\ Len(file) <= Sequences * RecordUnits
    <3>1. file \in Seq(Units) /\ durable \in 0 .. Len(file) /\ life # "powerLost"
      BY <1>6 DEF PowerLoss, Running, IInv, TypeOK, FileInv
    <3>2. file' \in Seq(Units) /\ Len(file') \in durable .. Len(file)
      BY <1>6, <3>1, PowerLossKeeps DEF PowerLoss
    <3> QED BY <3>1, <3>2 DEF IInv, FileInv
  <2>2. PICK m \in Nat : m = ValidRecords(file)' /\ m * RecordUnits <= Len(file')
    BY <2>1, ValidRecordsIs
  <2>3. PICK d \in Nat \ {0} : d = RecordUnits
    BY Sizes
  <2>4. m * d \in Nat /\ m * d <= Len(file) /\ m * d <= Sequences * d
    BY <2>1, <2>2, <2>3, ProductNext, Sizes
  <2>5. m <= Sequences
    <3>1. SUFFICES ASSUME Sequences + 1 <= m PROVE FALSE
      BY Sizes
    <3>2. (Sequences + 1) * d <= m * d /\ (Sequences + 1) * d = Sequences * d + d
          /\ Sequences * d \in Nat
      BY <3>1, Sizes, ProductMonotonic, ProductNext
    <3> QED BY <2>4, <3>2
  <2>6. \A k \in 1 .. m * RecordUnits : file[k] = LogUnit(k)
    BY <2>1, <2>3, <2>4 DEF IsLog
  <2>7. m <= ValidRecords(file)
    BY <2>1, <2>3, <2>4, <2>5, <2>6, LogIsValid
  <2>8. ValidRecords(file)' \in frontier .. ValidRecords(file)
    BY <1>3, <1>4, <2>2, <2>7, Numbers
  <2> QED BY <1>1, <1>2, <2>8 DEF Log!Lose
<1> QED BY <1>5, <1>6

LEMMA NextRefines == IInv /\ IInv' /\ [Next]_vars => [Log!Next]_Log!vars
<1> SUFFICES ASSUME IInv, IInv', [Next]_vars PROVE [Log!Next]_Log!vars
  OBVIOUS
<1>1. CASE Publish \/ Begin \/ SyncOk \/ UNCHANGED vars
  BY <1>1, UnseenRefines DEF Publish, Begin, SyncOk, vars, Unseen
<1>2. CASE Execute
  <2>1. Unseen \/ Log!Execute
    BY <1>2 DEF Execute, Log!Execute, Phase, Running
  <2> QED BY <2>1, UnseenRefines DEF Log!Next
<1>3. CASE AppendUnit
  BY <1>3, AppendUnitRefines
<1>4. CASE AppendFail \/ SyncFail
  BY <1>4, FailureRefines DEF Log!Next
<1>5. CASE PublishFrontier
  BY <1>5, PublishFrontierRefines
<1>6. CASE Close
  BY <1>6, CloseRefines
<1>7. CASE ProcessCrash \/ PowerLoss
  BY <1>7, EndRefines DEF Log!Next
<1> QED BY <1>1, <1>2, <1>3, <1>4, <1>5, <1>6, <1>7 DEF Next, Process

(***************************************************************************)
(* Persistence implements the abstract log: what it promises downstream is *)
(* logged before, grows only while nothing has failed, and survives every  *)
(* end of the process.                                                     *)
(***************************************************************************)
THEOREM Refinement == Spec => RefinesDurableLog
BY Invariance, InitRefines, NextRefines, PTL DEF Spec, RefinesDurableLog, Log!Spec

-----------------------------------------------------------------------------
(***************************************************************************)
(* What the end of the process leaves.  While there is a process, and      *)
(* after a crash, what is durable ends with a whole record; a power loss   *)
(* leaves an image of the log there was.                                   *)
(***************************************************************************)
Kept == IF call.pc = "publish" THEN call.current ELSE frontier

Written(n) == [k \in 1 .. n |-> LogUnit(k)]

ImageInv ==
  /\ life # "powerLost" => durable = Kept * RecordUnits
  /\ life = "powerLost" =>
       \E kept \in frontier .. MaxPosition, extra \in 0 .. SyncCount * RecordUnits :
         /\ kept * RecordUnits + extra <= Sequences * RecordUnits
         /\ file \in PowerLossImages(Written(kept * RecordUnits + extra), kept * RecordUnits)

\* The log a process has written, and how much of it is durable.
LEMMA LogLeft ==
  ASSUME IInv, ImageInv, life # "powerLost"
  PROVE  \E kept \in frontier .. MaxPosition, extra \in 0 .. SyncCount * RecordUnits :
           /\ kept * RecordUnits + extra <= Sequences * RecordUnits
           /\ durable = kept * RecordUnits
           /\ file = Written(kept * RecordUnits + extra)
<1>1. PICK kept : kept = Kept
  OBVIOUS
<1>2. kept \in frontier .. MaxPosition
  BY <1>1, Sizes, PersistenceAssumption DEF Kept, IInv, TypeOK, CallInv, Position
<1>3. durable = kept * RecordUnits
  BY <1>1 DEF ImageInv
<1>4. PICK extra : extra = Len(file) - durable
  OBVIOUS
<1>5. durable \in Nat /\ Len(file) \in Nat /\ durable <= Len(file)
  BY Numbers
<1>6. extra \in Nat /\ extra <= SyncCount * RecordUnits
  <2>1. LossBounded
    BY LossHolds
  <2> QED BY <1>4, <1>5, <2>1 DEF LossBounded
<1>7. extra \in 0 .. SyncCount * RecordUnits
  <2>1. SyncCount * RecordUnits \in Nat
    BY Sizes, ProductMonotonic
  <2> QED BY <1>6, <2>1
<1>8. kept * RecordUnits + extra = Len(file)
  BY <1>3, <1>4, <1>5
<1>9. Len(file) <= Sequences * RecordUnits
  BY DEF IInv, FileInv
<1>10. file = Written(Len(file))
  <2>1. file \in Seq(Units) /\ \A k \in 1 .. Len(file) : file[k] = LogUnit(k)
    BY DEF IInv, FileInv, IsLog
  <2> QED BY <2>1 DEF Written
<1> QED BY <1>2, <1>3, <1>7, <1>8, <1>9, <1>10

LEMMA ImageHolds == Init => ImageInv
BY Sizes DEF Init, ImageInv, Kept, Idle

LEMMA ImageKept == IInv /\ ImageInv /\ [Next]_vars => ImageInv'
<1> SUFFICES ASSUME IInv, ImageInv, [Next]_vars PROVE ImageInv'
  OBVIOUS
<1>1. CASE SyncOk
  <2>1. /\ life = "open" /\ life' = "open" /\ call.pc = "sync" /\ durable' = Len(file)
        /\ call' = [call EXCEPT !.pc = "publish"]
    BY <1>1 DEF SyncOk
  <2>2. call'.pc = "publish" /\ call'.current = call.current
    BY <2>1 DEF IInv, TypeOK
  <2>3. Len(file) = call.current * RecordUnits
    <3>1. ~failed /\ call.written = 0
      BY <2>1 DEF IInv, CallInv
    <3>2. Len(file) = call.current * RecordUnits + call.written
      BY <2>1, <3>1, Zenon DEF IInv, FileInv
    <3>3. call.current * RecordUnits \in Nat
      BY Numbers
    <3> QED BY <3>1, <3>2, <3>3
  <2> QED BY <2>1, <2>2, <2>3 DEF ImageInv, Kept
<1>2. CASE PowerLoss
  <2>1. /\ life # "powerLost" /\ life' = "powerLost" /\ frontier' = frontier
        /\ file' \in PowerLossImages(file, durable)
    BY <1>2 DEF PowerLoss, Running
  <2> QED BY <2>1, LogLeft DEF ImageInv
<1>3. CASE Publish \/ Execute \/ Close \/ ProcessCrash \/ UNCHANGED vars
  <2>1. /\ UNCHANGED <<frontier, call, file, durable>>
        /\ life' = "powerLost" <=> life = "powerLost"
    BY <1>3 DEF Publish, Execute, Close, ProcessCrash, Running, vars
  <2> QED BY <2>1 DEF ImageInv, Kept
<1>4. CASE Begin \/ AppendUnit \/ AppendFail \/ SyncFail
  <2>1. /\ UNCHANGED <<frontier, durable, life>> /\ life = "open"
        /\ call.pc # "publish"
    BY <1>4 DEF Begin, AppendUnit, AppendFail, SyncFail
  <2>2. call'.pc # "publish"
    <3>1. CASE AppendUnit
      <4>1. /\ call.pc = "append"
            /\ \/ call' = [call EXCEPT !.written = @ + 1]
               \/ \E pc \in {"append", "sync"} :
                    call' = [call EXCEPT !.written = 0, !.current = @ + 1, !.pc = pc]
        BY <3>1, Zenon DEF AppendUnit
      <4> QED BY <4>1 DEF IInv, TypeOK
    <3>2. CASE Begin \/ AppendFail \/ SyncFail
      BY <3>2 DEF Begin, AppendFail, SyncFail, SyncFailed, Idle
    <3> QED BY <1>4, <3>1, <3>2
  <2> QED BY <2>1, <2>2 DEF ImageInv, Kept
<1>5. CASE PublishFrontier
  BY <1>5 DEF PublishFrontier, ImageInv, Kept, Idle
<1> QED BY <1>1, <1>2, <1>3, <1>4, <1>5 DEF Next, Process

-----------------------------------------------------------------------------
(***************************************************************************)
(* The operators of Recovery's instance are those of Persistence.          *)
(***************************************************************************)
LEMMA RepairSizes ==
  ASSUME NEW kept \in Nat, NEW extra \in Nat
  PROVE  /\ Repair(kept, extra)!RecordUnits = RecordUnits
         /\ \A k : Repair(kept, extra)!LogUnit(k) = LogUnit(k)
BY DEF Repair!LogUnit, LogUnit, Repair!RecordImage, RecordImage, Repair!Zero, Zero,
       Repair!DataUnits, DataUnits, Repair!RecordUnits, RecordUnits

LEMMA RepairImages ==
  ASSUME NEW kept \in Nat, NEW extra \in Nat, NEW f, NEW d
  PROVE  Repair(kept, extra)!PowerLossImages(f, d) = PowerLossImages(f, d)
BY DEF Repair!PowerLossImages, PowerLossImages, Repair!Zero, Zero

Disk == IF life = "powerLost" THEN {file} ELSE PowerLossImages(file, durable)

LEMMA RepairInit ==
  ASSUME NEW kept \in Nat, NEW extra \in Nat, NEW written, NEW images,
         written = Written(kept * RecordUnits + extra),
         images = PowerLossImages(written, kept * RecordUnits),
         \/ file = written /\ Disk = images
         \/ file \in images /\ Disk = {file}
  PROVE  Repair(kept, extra)!Init
<1>1. Repair(kept, extra)!Offset(kept) = kept * RecordUnits
  BY RepairSizes, Zenon DEF Repair!Offset
<1>2. [k \in 1 .. Repair(kept, extra)!Offset(kept) + extra |-> Repair(kept, extra)!LogUnit(k)]
        = written
  BY <1>1, RepairSizes DEF Written
<1>3. Repair(kept, extra)!PowerLossImages(written, Repair(kept, extra)!Offset(kept)) = images
  BY <1>1, RepairImages
<1>4. extra \in 0 .. extra
  OBVIOUS
<1>5. [status |-> "None", records |-> 0] = Repair(kept, extra)!NoScan
  BY DEF Repair!NoScan
<1> QED BY <1>2, <1>3, <1>4, <1>5, Zenon DEF Repair!Init, Disk

LEMMA TakenOver == IInv /\ ImageInv => RecoveryTakesOver
<1> SUFFICES ASSUME IInv, ImageInv, ~Running PROVE RecoveryTakesOver
  BY DEF RecoveryTakesOver
<1>1. PICK kept \in frontier .. MaxPosition, extra \in 0 .. SyncCount * RecordUnits :
        /\ kept * RecordUnits + extra <= Sequences * RecordUnits
        /\ \/ /\ life # "powerLost" /\ durable = kept * RecordUnits
              /\ file = Written(kept * RecordUnits + extra)
           \/ /\ life = "powerLost"
              /\ file \in PowerLossImages(Written(kept * RecordUnits + extra),
                                          kept * RecordUnits)
  <2>1. CASE life = "powerLost"
    BY <2>1 DEF ImageInv
  <2>2. CASE life # "powerLost"
    BY <2>2, LogLeft
  <2> QED BY <2>1, <2>2
<1>2. kept \in Nat /\ extra \in Nat
  BY Positions
<1>3. Repair(kept, extra)!SequencesSuffice
  BY <1>1, <1>2, RepairSizes DEF Repair!SequencesSuffice, Sequences
<1>4. Repair(kept, extra)!Init
  <2>1. \/ /\ file = Written(kept * RecordUnits + extra)
           /\ Disk = PowerLossImages(Written(kept * RecordUnits + extra), kept * RecordUnits)
        \/ /\ file \in PowerLossImages(Written(kept * RecordUnits + extra),
                                       kept * RecordUnits)
           /\ Disk = {file}
    BY <1>1, Zenon DEF Disk
  <2> QED BY <1>2, <2>1, RepairInit
<1> QED BY <1>3, <1>4 DEF RecoveryTakesOver

(***************************************************************************)
(* Whatever ends the process, and wherever it is, it leaves a state that   *)
(* recovery starts from (recover_incomplete_tail, src/wal/recovery.cpp).   *)
(***************************************************************************)
THEOREM HandsOver == Spec => []RecoveryTakesOver
<1>1. Spec => []ImageInv
  BY ImageHolds, ImageKept, Invariance, PTL DEF Spec
<1> QED BY <1>1, TakenOver, Invariance, PTL
=============================================================================
