------------------------------ MODULE DemoApp -------------------------------
(***************************************************************************)
(* The demonstration (examples/basic_tract/demo_app.cpp): a producer, a    *)
(* validation stage and a hash stage, each a polling loop on a thread of   *)
(* its own that ends when its work is done or when another has failed, and *)
(* main, which joins them and judges the result.                           *)
(*                                                                         *)
(* Module Tract has the memory order and the slots: here a load reads the  *)
(* latest value and try_publish is atomic.  The tape stays open until the  *)
(* threads have been joined and only one thread publishes, so its other    *)
(* refusals and a position other than the expected one do not occur.       *)
(***************************************************************************)
EXTENDS Integers

CONSTANTS RecordCount,   \* record_count
          Capacity,      \* capacity
          PublishCount   \* policy.publish_count

ASSUME DemoAssumption ==
  /\ RecordCount \in Nat
  /\ Capacity \in Nat \ {0}
  /\ PublishCount \in Nat \ {0}

Validation == 1
Hash == 2
Stage == {Validation, Hash}

VARIABLES
  bad,        \* the first record validation refuses; RecordCount if it refuses none
  head,       \* the tape's Head; the producer's position equals it
  frontier,   \* of the Sliders; the Hash one is the Tail
  call,       \* of the Sliders: the locals of process
  processed,  \* of the modules: the records accepted
  producer,   \* control of the producer thread
  stage,      \* control of the stage threads
  failed,     \* the flag they share
  exit        \* what main returns

vars == <<bad, head, frontier, call, processed, producer, stage, failed, exit>>

Init ==
  /\ bad \in 0 .. RecordCount
  /\ head = 0
  /\ frontier = [i \in Stage |-> 0]
  /\ call = [i \in Stage |-> [current |-> 0, availableEnd |-> 0, sincePublish |-> 0]]
  /\ processed = [i \in Stage |-> 0]
  /\ producer = "loop"
  /\ stage = [i \in Stage |-> "loop"]
  /\ failed = FALSE
  /\ exit = "running"

-----------------------------------------------------------------------------
(***************************************************************************)
(* run_producer.  The fault is a producer that does not look at the flag   *)
(* while the tape is full.                                                 *)
(***************************************************************************)
ProducesAnyway == head = RecordCount
ProducerEnds == head = RecordCount \/ failed

ProducerLoop ==
  /\ producer = "loop"
  /\ producer' = IF ProducerEnds THEN "returned" ELSE "publish"
  /\ UNCHANGED <<bad, head, frontier, call, processed, stage, failed, exit>>

TryPublish ==
  /\ producer = "publish"
  /\ producer' = "loop"
  /\ head' = IF head - frontier[Hash] = Capacity THEN head ELSE head + 1
  /\ UNCHANGED <<bad, frontier, call, processed, stage, failed, exit>>

(***************************************************************************)
(* run_validation_stage and run_hash_stage: the same loop around process.  *)
(***************************************************************************)
Goto(i, step) == stage' = [stage EXCEPT ![i] = step]

StageLoop(i) ==
  /\ stage[i] = "loop"
  /\ Goto(i, IF failed \/ frontier[i] >= RecordCount THEN "returned" ELSE "process")
  /\ UNCHANGED <<bad, head, frontier, call, processed, producer, failed, exit>>

Upstream(i) == IF i = Validation THEN head ELSE frontier[Validation]

Begin(i) ==
  /\ stage[i] = "process"
  /\ IF Upstream(i) = frontier[i]
       THEN Goto(i, "loop") /\ UNCHANGED call
       ELSE /\ call' = [call EXCEPT ![i] = [current |-> frontier[i], sincePublish |-> 0,
                                            availableEnd |-> Upstream(i)]]
            /\ Goto(i, "record")
  /\ UNCHANGED <<bad, head, frontier, processed, producer, failed, exit>>

\* PayloadValidationModule::process and RollingHashModule::process.
Accepts(i, position) == i = Validation => position # bad

\* A record is accepted; the frontier follows every PublishCount records and
\* at the end of the range.
Accept(i) ==
  LET next == call[i].current + 1
      due == call[i].sincePublish + 1 = PublishCount
      last == next = call[i].availableEnd
  IN  /\ stage[i] = "record"
      /\ Accepts(i, call[i].current)
      /\ processed' = [processed EXCEPT ![i] = @ + 1]
      /\ call' = [call EXCEPT ![i].current = next,
                              ![i].sincePublish = IF due THEN 0 ELSE @ + 1]
      /\ frontier' = IF due \/ last THEN [frontier EXCEPT ![i] = next] ELSE frontier
      /\ IF last THEN Goto(i, "loop") ELSE UNCHANGED stage
      /\ UNCHANGED <<bad, head, producer, failed, exit>>

\* What was accepted before the refused record is flushed, and the fault of
\* keeping it.
FlushSkipped(i) == UNCHANGED frontier
Flush(i) == frontier' = [frontier EXCEPT ![i] = call[i].current]

Refuse(i) ==
  /\ stage[i] = "record"
  /\ ~Accepts(i, call[i].current)
  /\ Flush(i)
  /\ Goto(i, "fail")
  /\ UNCHANGED <<bad, head, call, processed, producer, failed, exit>>

ReportFailure(i) ==
  /\ stage[i] = "fail"
  /\ failed' = TRUE
  /\ Goto(i, "returned")
  /\ UNCHANGED <<bad, head, frontier, call, processed, producer, exit>>

(***************************************************************************)
(* main, once the three threads have been joined.                          *)
(***************************************************************************)
Valid ==
  /\ ~failed
  /\ \A i \in Stage : processed[i] = RecordCount
  /\ frontier[Validation] = RecordCount
  /\ frontier[Hash] = head /\ head = RecordCount

Main ==
  /\ producer = "returned" /\ \A i \in Stage : stage[i] = "returned"
  /\ exit = "running"
  /\ exit' = IF Valid THEN "valid" ELSE "invalid"
  /\ UNCHANGED <<bad, head, frontier, call, processed, producer, stage, failed>>

Producer == ProducerLoop \/ TryPublish
Slider(i) == StageLoop(i) \/ Begin(i) \/ Accept(i) \/ Refuse(i) \/ ReportFailure(i)

Next == Producer \/ (\E i \in Stage : Slider(i)) \/ Main

Spec == Init /\ [][Next]_vars

\* Four threads, each of which the system runs again and again.
FairSpec ==
  Spec /\ WF_vars(Producer) /\ (\A i \in Stage : WF_vars(Slider(i))) /\ WF_vars(Main)

-----------------------------------------------------------------------------
(***************************************************************************)
(* The process ends: whichever thread is polling a full tape or an empty   *)
(* range when another fails, or the last records arrive, it returns and is *)
(* joined.                                                                 *)
(***************************************************************************)
Ends == <>(exit # "running")

(***************************************************************************)
(* When it ends, it says "valid" exactly if no record was refused; what    *)
(* the modules have accepted is what the frontiers say; and validation has *)
(* handed on every record before the refused one and none from it on, also *)
(* those that were not yet due for publication.                            *)
(***************************************************************************)
ExitIsExact ==
  exit # "running" =>
    /\ exit = "valid" <=> bad = RecordCount
    /\ processed = frontier
    /\ frontier[Validation] = bad
=============================================================================
