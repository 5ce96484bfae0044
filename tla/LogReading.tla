----------------------------- MODULE LogReading -----------------------------
(***************************************************************************)
(* What WalReader promises to its caller, with no file, header or          *)
(* descriptor in it: a cursor over a log that may still be growing.        *)
(* Records come one by one, the end of the log and every error but an      *)
(* input error only when all there is has been returned, and after an      *)
(* error nothing until the reader is opened again.  Module WalReader is    *)
(* shown to implement this.                                                *)
(***************************************************************************)
EXTENDS Integers

CONSTANTS MaxRecords,  \* records there can be
          Failures,    \* errors of read_next, "IoError" among them
          Refusals     \* errors of open

VARIABLES
  written,    \* the records that can be read now
  delivered,  \* those of them returned since the reader was opened
  state,      \* "closed", "open" or "failed"
  answer      \* the last answer of read_next, or the error of open

vars == <<written, delivered, state, answer>>

Init == written \in 0 .. MaxRecords /\ delivered = 0 /\ state = "closed" /\ answer = "None"

\* One more record can be read.
Log ==
  /\ written < MaxRecords
  /\ written' = written + 1
  /\ UNCHANGED <<delivered, state, answer>>

Open ==
  /\ state = "closed"
  /\ state' = "open"
  /\ answer' = "None"
  /\ UNCHANGED <<written, delivered>>

Refuse ==
  /\ state = "closed"
  /\ answer' \in Refusals
  /\ UNCHANGED <<written, delivered, state>>

Deliver ==
  /\ state = "open"
  /\ delivered < written
  /\ delivered' = delivered + 1
  /\ answer' = "Record"
  /\ UNCHANGED <<written, state>>

AtEnd ==
  /\ state = "open"
  /\ delivered = written
  /\ answer' = "EndOfLog"
  /\ UNCHANGED <<written, delivered, state>>

Fail ==
  /\ state = "open"
  /\ state' = "failed"
  /\ answer' \in Failures
  /\ answer' = "IoError" \/ delivered = written
  /\ UNCHANGED <<written, delivered>>

Close ==
  /\ state # "closed"
  /\ state' = "closed"
  /\ delivered' = 0
  /\ answer' = "None"
  /\ UNCHANGED written

Next == Log \/ Open \/ Refuse \/ Deliver \/ AtEnd \/ Fail \/ Close

Spec == Init /\ [][Next]_vars
=============================================================================
