----------------------------- MODULE DurableLog -----------------------------
(***************************************************************************)
(* What persistence promises to the stages after it, with no file, batch   *)
(* or system call in it.  Records are appended to a log; a prefix of them  *)
(* is promised; what is promised may be executed and is never lost.        *)
(* Module Persistence is shown to implement this.                          *)
(***************************************************************************)
EXTENDS Integers

CONSTANT MaxRecords   \* records there can be; a bound of the model

VARIABLES
  logged,    \* the records that a reader of the log would find now
  promised,  \* those of them that have been promised
  executed,  \* those of them that have been executed downstream
  phase      \* "appending", "stopped" by a failure or by close, or "gone"

vars == <<logged, promised, executed, phase>>

Init == logged = 0 /\ promised = 0 /\ executed = 0 /\ phase = "appending"

Log ==
  /\ phase = "appending"
  /\ logged < MaxRecords
  /\ logged' = logged + 1
  /\ UNCHANGED <<promised, executed, phase>>

Promise ==
  /\ phase = "appending"
  /\ promised' \in promised + 1 .. logged
  /\ UNCHANGED <<logged, executed, phase>>

Execute ==
  /\ phase # "gone"
  /\ executed < promised
  /\ executed' = executed + 1
  /\ UNCHANGED <<logged, promised, phase>>

\* A failure is final: nothing is logged or promised any more.
Stop ==
  /\ phase = "appending"
  /\ phase' = "stopped"
  /\ UNCHANGED <<logged, promised, executed>>

\* The process ends, and may take with it what has not been promised.
Lose ==
  /\ phase # "gone"
  /\ phase' = "gone"
  /\ logged' \in promised .. logged
  /\ UNCHANGED <<promised, executed>>

Next == Log \/ Promise \/ Execute \/ Stop \/ Lose

Spec == Init /\ [][Next]_vars
=============================================================================
