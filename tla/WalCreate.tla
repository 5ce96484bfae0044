----------------------------- MODULE WalCreate ------------------------------
(***************************************************************************)
(* The creation of a WAL file: PersistenceCore::open over                  *)
(* PhysicalWalAdapter::create (src/wal/physical_wal_file.cpp), called by   *)
(* processes that may be started on the same path, may be killed anywhere  *)
(* and lose power together, and try again after a failure.                 *)
(*                                                                         *)
(* The path names a file or none.  A file begins with FileUnits units, the *)
(* header first and zero padding after it.  Only the directory entry and   *)
(* that prefix matter here: records are the subject of module Persistence. *)
(***************************************************************************)
EXTENDS Integers, FiniteSets

CONSTANTS Writers,       \* the processes
          HeaderUnits,   \* units of the file header (64 bytes)
          PaddingUnits,  \* units of padding up to records_offset; may be 0
          MaxFiles,      \* files created; a bound of the model
          MaxFaults      \* failures, crashes and power losses; a bound of the model

ASSUME WalCreateAssumption ==
  /\ IsFiniteSet(Writers) /\ Writers # {}
  /\ HeaderUnits \in Nat \ {0}
  /\ PaddingUnits \in Nat
  /\ MaxFiles \in Nat \ {0}
  /\ MaxFaults \in Nat

FileUnits == HeaderUnits + PaddingUnits
NoFile == 0
Minimum(a, b) == IF a < b THEN a ELSE b
Files == 1 .. MaxFiles

VARIABLES
  entry,    \* the file the path names, as the operating system has it
  onDisk,   \* what the path may name after a power loss now
  content,  \* of every file: its length, how many units from the first on hold
            \* what was written, and whether that is synchronized
  pc,       \* of every process: the step of create
  mine,     \* of every process: the file its descriptor is open on
  answer,   \* of every process: the last answer of open
  acked,    \* the files open has answered Ok for
  created,  \* files created so far
  faults

vars == <<entry, onDisk, content, pc, mine, answer, acked, created, faults>>

Steps == {"idle", "write", "sync", "syncDirectory", "remove", "syncRemoval"}
Empty == [length |-> 0, valid |-> 0, synced |-> FALSE]

TypeOK ==
  /\ entry \in Files \cup {NoFile}
  /\ onDisk \in SUBSET (Files \cup {NoFile}) /\ entry \in onDisk
  /\ content \in [Files -> [length : 0 .. FileUnits, valid : 0 .. FileUnits, synced : BOOLEAN]]
  /\ pc \in [Writers -> Steps]
  /\ mine \in [Writers -> Files \cup {NoFile}]
  /\ answer \in [Writers -> {"None", "Ok", "FileAlreadyExists", "IoError"}]
  /\ acked \in SUBSET Files
  /\ created \in 0 .. MaxFiles
  /\ faults \in 0 .. MaxFaults

Init ==
  /\ entry = NoFile /\ onDisk = {NoFile}
  /\ content = [i \in Files |-> Empty]
  /\ pc = [w \in Writers |-> "idle"]
  /\ mine = [w \in Writers |-> NoFile]
  /\ answer = [w \in Writers |-> "None"]
  /\ acked = {} /\ created = 0 /\ faults = 0

Goto(w, step) == pc' = [pc EXCEPT ![w] = step]

\* create returns; the descriptor stays open only if it succeeded, and the
\* fault is to leave it open.
AnswerLeaks(w, status) ==
  /\ Goto(w, "idle")
  /\ answer' = [answer EXCEPT ![w] = status]
  /\ acked' = IF status = "Ok" THEN acked \cup {mine[w]} ELSE acked
  /\ UNCHANGED mine

Answer(w, status) ==
  /\ Goto(w, "idle")
  /\ answer' = [answer EXCEPT ![w] = status]
  /\ acked' = IF status = "Ok" THEN acked \cup {mine[w]} ELSE acked
  /\ mine' = IF status = "Ok" THEN mine ELSE [mine EXCEPT ![w] = NoFile]

-----------------------------------------------------------------------------
(***************************************************************************)
(* open(O_CREAT | O_EXCL).  Faults: an existing file is taken over; the    *)
(* loser cleans up after itself.                                           *)
(***************************************************************************)
Create(w) ==
  /\ entry = NoFile
  /\ created < MaxFiles
  /\ created' = created + 1
  /\ entry' = created + 1
  /\ onDisk' = onDisk \cup {entry'}
  /\ mine' = [mine EXCEPT ![w] = entry']
  /\ Goto(w, "write")
  /\ UNCHANGED <<content, answer, acked>>

ExistsTakenOver(w) ==
  /\ entry # NoFile
  /\ mine' = [mine EXCEPT ![w] = entry]
  /\ content' = [content EXCEPT ![entry] = Empty]
  /\ Goto(w, "write")
  /\ UNCHANGED <<entry, onDisk, answer, acked, created>>

ExistsRollsBack(w) ==
  /\ entry # NoFile
  /\ Goto(w, "remove")
  /\ UNCHANGED <<entry, onDisk, content, mine, answer, acked, created>>

Exists(w) ==
  /\ entry # NoFile
  /\ Answer(w, "FileAlreadyExists")
  /\ UNCHANGED <<entry, onDisk, content, created>>

Open(w) ==
  /\ pc[w] = "idle"
  /\ mine[w] = NoFile
  /\ Create(w) \/ Exists(w)
  /\ UNCHANGED faults

\* write_bytes of the header, then of the padding in chunks, and the fault
\* of a chunk too many.
CompleteLate(length) == length > FileUnits
Complete(length) == length = FileUnits

WriteUnit(w) ==
  /\ pc[w] = "write"
  /\ content' = [content EXCEPT ![mine[w]].length = @ + 1, ![mine[w]].valid = @ + 1]
  /\ IF Complete(content'[mine[w]].length) THEN Goto(w, "sync") ELSE UNCHANGED pc
  /\ UNCHANGED <<entry, onDisk, mine, answer, acked, created, faults>>

\* fdatasync of the file.
FileSynced(i) == content' = [content EXCEPT ![i].synced = TRUE]

SyncFile(w) ==
  /\ pc[w] = "sync"
  /\ FileSynced(mine[w])
  /\ Goto(w, "syncDirectory")
  /\ UNCHANGED <<entry, onDisk, mine, answer, acked, created, faults>>

\* fsync of the parent directory.
DirectorySynced == onDisk' = {entry}

SyncDirectory(w) ==
  /\ pc[w] = "syncDirectory"
  /\ DirectorySynced
  /\ Answer(w, "Ok")
  /\ UNCHANGED <<entry, content, created, faults>>

-----------------------------------------------------------------------------
(***************************************************************************)
(* Failures.  rollback_create closes the file, removes the path by name    *)
(* and synchronizes the directory, whose failure it ignores.  A failed     *)
(* synchronization may or may not have reached the disk.                   *)
(***************************************************************************)
CanFault == faults < MaxFaults /\ faults' = faults + 1

OpenFails(w) ==
  /\ CanFault
  /\ pc[w] = "idle" /\ mine[w] = NoFile
  /\ Answer(w, "IoError")
  /\ UNCHANGED <<entry, onDisk, content, created>>

CreateFails(w) ==
  /\ CanFault
  /\ pc[w] \in {"write", "sync", "syncDirectory"}
  /\ Goto(w, "remove")
  /\ \/ UNCHANGED <<content, onDisk>>
     \/ pc[w] = "sync" /\ FileSynced(mine[w]) /\ UNCHANGED onDisk
     \/ pc[w] = "syncDirectory" /\ DirectorySynced /\ UNCHANGED content
  /\ UNCHANGED <<entry, mine, answer, acked, created>>

Remove(w) ==
  /\ pc[w] = "remove"
  /\ entry' = NoFile
  /\ onDisk' = onDisk \cup {NoFile}
  /\ Goto(w, "syncRemoval")
  /\ UNCHANGED <<content, mine, answer, acked, created, faults>>

RemoveFails(w) ==
  /\ CanFault
  /\ pc[w] = "remove"
  /\ Answer(w, "IoError")
  /\ UNCHANGED <<entry, onDisk, content, created>>

SyncRemoval(w) ==
  /\ pc[w] = "syncRemoval"
  /\ DirectorySynced
  /\ Answer(w, "IoError")
  /\ UNCHANGED <<entry, content, created, faults>>

SyncRemovalFails(w) ==
  /\ CanFault
  /\ pc[w] = "syncRemoval"
  /\ Answer(w, "IoError")
  /\ UNCHANGED <<entry, onDisk, content, created>>

\* A process is killed and started again; what the system holds stays.
Restart(w) ==
  /\ CanFault
  /\ pc[w] # "idle" \/ mine[w] # NoFile
  /\ Answer(w, "None")
  /\ UNCHANGED <<entry, onDisk, content, created>>

\* The power fails under every process.  Of a file that is not synchronized
\* any end and any block may be lost.
Lost(c) ==
  IF c.synced THEN {c}
  ELSE UNION {{[length |-> n, valid |-> k, synced |-> TRUE] : k \in 0 .. Minimum(n, c.valid)} :
                n \in 0 .. c.length}

PowerLoss ==
  /\ CanFault
  /\ entry' \in onDisk
  /\ onDisk' = {entry'}
  /\ IF entry' = NoFile THEN UNCHANGED content
     ELSE \E c \in Lost(content[entry']) : content' = [content EXCEPT ![entry'] = c]
  /\ pc' = [w \in Writers |-> "idle"]
  /\ mine' = [w \in Writers |-> NoFile]
  /\ answer' = [w \in Writers |-> "None"]
  /\ UNCHANGED <<acked, created>>

Working(w) ==
  Open(w) \/ WriteUnit(w) \/ SyncFile(w) \/ SyncDirectory(w) \/ Remove(w) \/ SyncRemoval(w)

Failing(w) ==
  OpenFails(w) \/ CreateFails(w) \/ RemoveFails(w) \/ SyncRemovalFails(w) \/ Restart(w)

Next == (\E w \in Writers : Working(w) \/ Failing(w)) \/ PowerLoss

Spec == Init /\ [][Next]_vars

FairSpec == Spec /\ \A w \in Writers : WF_vars(Working(w))

-----------------------------------------------------------------------------
(***************************************************************************)
(* What WalReader::open makes of the file's first FileUnits units.         *)
(***************************************************************************)
HeaderAnswer(c) ==
  CASE c.length < HeaderUnits -> "IncompleteFileHeader"
    [] c.length >= HeaderUnits /\ c.valid < HeaderUnits -> "InvalidFileHeader"
    [] c.valid >= HeaderUnits /\ c.length < FileUnits -> "IncompleteFileHeader"
    [] OTHER -> "Ok"

(***************************************************************************)
(* Ok is a promise: the path names the file it was given for, with a whole *)
(* header and its padding, from then on - through another process's        *)
(* attempts, failures and rollbacks, through kills and power losses.       *)
(***************************************************************************)
AckedKept ==
  \A i \in acked : entry = i /\ HeaderAnswer(content[i]) = "Ok"

(***************************************************************************)
(* No two processes write the same file ("The live writer currently        *)
(* creates only a new exclusive file", doc/FILE_FORMAT.md), and a file     *)
(* that was given to one is never handed to its successor.                 *)
(***************************************************************************)
SoleWriter ==
  /\ \A v, w \in Writers : v # w /\ mine[v] # NoFile => mine[v] # mine[w]
  /\ \A w \in Writers : mine[w] \in acked => answer[w] = "Ok"

(***************************************************************************)
(* A failed creation can be retried: once the faults are over, and with    *)
(* every process trying until it is told Ok or FileAlreadyExists, the path *)
(* does not stay free and nobody is left with an error.                    *)
(***************************************************************************)
Settles ==
  <>[](entry # NoFile /\ \A w \in Writers : answer[w] \in {"Ok", "FileAlreadyExists"})
=============================================================================
