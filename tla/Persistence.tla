---------------------------- MODULE Persistence -----------------------------
(***************************************************************************)
(* The persistence stage (src/wal/persistence.cpp) over the physical WAL   *)
(* file (src/wal/physical_wal_file.cpp), between the tape's Head and a     *)
(* downstream Slider that may act only on durable records.  The process    *)
(* may crash or lose power between any two system calls.                   *)
(*                                                                         *)
(* The memory order of the frontiers is module Tract's subject: here they  *)
(* are single values, and a stale load is a choice of an older one.        *)
(***************************************************************************)
EXTENDS WalFile

CONSTANTS SyncCount,    \* PersistencePolicy::sync_count
          Capacity,     \* RecordTapeConfig::capacity
          MaxPosition   \* positions the producer publishes; a bound of the model

ASSUME PersistenceAssumption ==
  /\ SyncCount \in Nat \ {0}
  /\ Capacity \in Nat \ {0}
  /\ MaxPosition \in Nat

VARIABLES
  head,      \* the tape's Head
  executed,  \* the terminal frontier, of the Slider after persistence
  frontier,  \* PersistenceCore::frontier_, the durable frontier
  call,      \* the locals of process_until
  failed,    \* PersistenceCore::failed_
  file,      \* the units the operating system holds for the file
  durable,   \* how many of them are known to be on the disk
  life       \* of the process and of the open WAL

vars == <<head, executed, frontier, call, failed, file, durable, life>>

Position == 0 .. MaxPosition
Running == life \in {"open", "closed"}
Idle == [pc |-> "idle", current |-> 0, batchEnd |-> 0, written |-> 0]

TypeOK ==
  /\ head \in Position
  /\ executed \in Position
  /\ frontier \in Position
  /\ call \in [pc : {"idle", "append", "sync", "publish"},
               current : Position, batchEnd : Position, written : 0 .. RecordUnits - 1]
  /\ failed \in BOOLEAN
  /\ \A k \in 1 .. Len(file) :
       file[k] \in {Zero} \cup (FirstSequence .. LastSequence) \X (1 .. DataUnits)
  /\ durable \in 0 .. Len(file)
  /\ life \in {"open", "closed", "crashed", "powerLost"}

\* PersistenceCore::open has created the file and synchronized its header.
Init ==
  /\ head = 0 /\ executed = 0 /\ frontier = 0
  /\ call = Idle
  /\ failed = FALSE
  /\ file = <<>> /\ durable = 0
  /\ life = "open"

-----------------------------------------------------------------------------
(***************************************************************************)
(* The neighbours: RecordTape::try_publish and the downstream Slider.      *)
(***************************************************************************)
Publish ==
  /\ Running
  /\ head - executed < Capacity
  /\ head < MaxPosition
  /\ head' = head + 1
  /\ UNCHANGED <<executed, frontier, call, failed, file, durable, life>>

Execute ==
  /\ Running
  /\ executed < frontier
  /\ executed' = executed + 1
  /\ UNCHANGED <<head, frontier, call, failed, file, durable, life>>

(***************************************************************************)
(* Persistence::process.  Begin is the load of the upstream frontier and   *)
(* the choice of the batch.  After a failure it does nothing.              *)
(***************************************************************************)
\* At most sync_count records, and the fault of taking all there are.
BatchUnlimited(available) == available
BatchSize(available) == IF available < SyncCount THEN available ELSE SyncCount

\* The upstream frontiers the call may have read with something to do, and
\* the faults of waiting for a full batch and of not looking.
FullBatches == frontier + SyncCount .. head
AssumedFull == {frontier + SyncCount}
Available == frontier + 1 .. head

\* process_until does nothing once failed; the fault forgets to ask.
ProceedsAfterFailure == TRUE
Proceeds == ~failed

Begin ==
  /\ life = "open"
  /\ call.pc = "idle"
  /\ Proceeds
  /\ \E availableEnd \in Available :
       call' = [pc |-> "append", current |-> frontier,
                batchEnd |-> frontier + BatchSize(availableEnd - frontier), written |-> 0]
  /\ UNCHANGED <<head, executed, frontier, failed, file, durable, life>>

\* The record has no sequence left to be written with; the fault forgets to
\* ask and the sequence leaves the range there is.
SequenceUnchecked == FALSE
SequenceExhausted == call.current > LastSequence - FirstSequence

\* One unit reaches the end of the file: header, payload and padding in
\* turn, in however many write calls that takes; `written` counts them.
AppendUnit ==
  /\ life = "open"
  /\ call.pc = "append"
  /\ ~SequenceExhausted
  /\ LET image == RecordImage(FirstSequence + call.current)
         done == call.written + 1 = RecordUnits
     IN  /\ file' = Append(file, image[call.written + 1])
         /\ call' = IF ~done THEN [call EXCEPT !.written = @ + 1]
                    ELSE [call EXCEPT !.written = 0, !.current = @ + 1,
                                      !.pc = IF call.current + 1 = call.batchEnd
                                               THEN "sync" ELSE "append"]
  /\ UNCHANGED <<head, executed, frontier, failed, durable, life>>

\* An append fails, in the middle of a record or before it, or has no
\* sequence left: sticky failure, and the batch is abandoned as it lies.
\* The fault reports the failure and does not remember it.
FailSoft == UNCHANGED failed
Fail == failed' = TRUE

AppendFail ==
  /\ life = "open"
  /\ call.pc = "append"
  /\ Fail
  /\ call' = Idle
  /\ UNCHANGED <<head, executed, frontier, file, durable, life>>

SyncOk ==
  /\ life = "open"
  /\ call.pc = "sync"
  /\ durable' = Len(file)
  /\ call' = [call EXCEPT !.pc = "publish"]
  /\ UNCHANGED <<head, executed, frontier, failed, file, life>>

\* fdatasync fails: nothing more is known to be on the disk.  The fault goes
\* on as if it had succeeded.
SyncFailIgnored == call' = [call EXCEPT !.pc = "publish"] /\ UNCHANGED failed
SyncFailed == call' = Idle /\ failed' = TRUE

SyncFail ==
  /\ life = "open"
  /\ call.pc = "sync"
  /\ SyncFailed
  /\ UNCHANGED <<head, executed, frontier, file, durable, life>>

PublishFrontier ==
  /\ life = "open"
  /\ call.pc = "publish"
  /\ frontier' = call.current
  /\ call' = Idle
  /\ UNCHANGED <<head, executed, failed, file, durable, life>>

\* PersistenceCore::close, with the processing role stopped.
Close ==
  /\ life = "open"
  /\ call.pc = "idle"
  /\ life' = "closed"
  /\ UNCHANGED <<head, executed, frontier, call, failed, file, durable>>

(***************************************************************************)
(* The environment.  A process crash leaves the page cache; a power loss   *)
(* leaves the disk.                                                        *)
(***************************************************************************)
ProcessCrash ==
  /\ Running
  /\ life' = "crashed"
  /\ UNCHANGED <<head, executed, frontier, call, failed, file, durable>>

PowerLoss ==
  /\ Running
  /\ file' \in PowerLossImages(file, durable)
  /\ durable' = Len(file')
  /\ life' = "powerLost"
  /\ UNCHANGED <<head, executed, frontier, call, failed>>

Process == Begin \/ AppendUnit \/ AppendFail \/ SyncOk \/ SyncFail \/ PublishFrontier

Next == Publish \/ Execute \/ Process \/ Close \/ ProcessCrash \/ PowerLoss

Spec == Init /\ [][Next]_vars

(***************************************************************************)
(* Every role polls in a loop and write and fdatasync return; nothing      *)
(* makes an input or output succeed, so it is the steps that are fair, not *)
(* their outcomes.                                                         *)
(***************************************************************************)
Fairness == WF_vars(Publish) /\ WF_vars(Execute) /\ WF_vars(Process)

-----------------------------------------------------------------------------
(***************************************************************************)
(* What persistence has handed downstream, and what downstream has         *)
(* executed, is in the file's validated prefix: now, after a process crash *)
(* and after a power loss, whichever write or sync it interrupts           *)
(* (doc/CONTRACT.md, "only then publishes its durable Frontier").          *)
(***************************************************************************)
ExecutedIsRecoverable ==
  /\ executed <= frontier
  /\ frontier <= ValidRecords(file)

(***************************************************************************)
(* The file is always the contiguous log, cut anywhere: no failure or      *)
(* retry leaves a gap, a second copy or half a record followed by more.    *)
(* A run checks RecoveryTakesOver, which asks the same of every file a     *)
(* process can leave; this one is proved beside it.                        *)
(***************************************************************************)
FileIsLog == life # "powerLost" => IsLog(file)

(***************************************************************************)
(* What a power loss can take is bounded by the policy: at most sync_count *)
(* records are ever written and not yet durable.                           *)
(***************************************************************************)
LossBounded == Len(file) - durable <= SyncCount * RecordUnits

(***************************************************************************)
(* The batch under way is still in the ring: none of it is handed back to  *)
(* the producer, so what is appended is what was published.                *)
(***************************************************************************)
BatchRetained ==
  call.pc # "idle" =>
    /\ executed <= frontier /\ frontier <= call.current
    /\ call.batchEnd <= head /\ head - frontier <= Capacity

(***************************************************************************)
(* Persistence implements the abstract DurableLog: the log grows by whole  *)
(* records and the durable frontier only up to its end; after a failure or *)
(* close no record is added and none is promised, whatever is polled       *)
(* ("While Failed", doc/INVARIANTS.md); and no end of the process takes    *)
(* back a record that has been promised.                                   *)
(***************************************************************************)
Phase ==
  CASE ~Running -> "gone"
    [] Running /\ (failed \/ life = "closed") -> "stopped"
    [] life = "open" /\ ~failed -> "appending"

Log == INSTANCE DurableLog WITH
  MaxRecords <- MaxPosition, logged <- ValidRecords(file), promised <- frontier,
  executed <- executed, phase <- Phase

RefinesDurableLog == Log!Spec

(***************************************************************************)
(* However the process ends, what it leaves is what recovery starts from:  *)
(* a log, synchronized up to a whole record and written on for at most a   *)
(* batch, with a sequence for each of its records.  Module Recovery is     *)
(* instantiated with the records that were synchronized and the units      *)
(* after them; before a power loss the disk may hold any image.            *)
(***************************************************************************)
Repair(kept, extra) == INSTANCE Recovery WITH
  Durable <- kept, UnsyncedUnits <- extra, MaxFaults <- 0,
  disk <- IF life = "powerLost" THEN {file} ELSE PowerLossImages(file, durable),
  pc <- "idle", result <- "None", faults <- 0,
  before <- [status |-> "None", records |-> 0], acked <- [status |-> "None", records |-> 0]

RecoveryTakesOver ==
  ~Running =>
    \E kept \in frontier .. MaxPosition, extra \in 0 .. SyncCount * RecordUnits :
      Repair(kept, extra)!SequencesSuffice /\ Repair(kept, extra)!Init

(***************************************************************************)
(* The stream is made durable and executed to its end unless a write or    *)
(* sync fails or the process ends.  It is meant for a stream that has a    *)
(* sequence for every record: any other one fails.                         *)
(***************************************************************************)
EverythingExecuted ==
  <>(failed \/ life # "open" \/ executed = MaxPosition)
=============================================================================
