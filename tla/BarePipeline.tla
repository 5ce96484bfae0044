---------------------------- MODULE BarePipeline ----------------------------
(***************************************************************************)
(* The two polling threads of producer_and_slider_wrap_concurrently        *)
(* (tests/core/test_bare_pipeline.cpp): the repository's own example of    *)
(* how a producer and a one-stage tract are run and brought to an end.     *)
(*                                                                         *)
(* Module Tract has the memory order and the slots; here every load reads  *)
(* the latest value, which the threads may do, and try_publish and the     *)
(* steps of process are atomic.                                            *)
(***************************************************************************)
EXTENDS Integers

CONSTANTS MessageCount, Capacity

VARIABLES
  head,          \* the tape's Head; the producer's position equals it
  frontier,      \* of the Slider, and the Tail
  availableEnd,  \* process: its load of the upstream frontier
  producer,      \* control of the producer thread
  consumer,      \* control of the consumer thread
  producerDone,  \* producer_done
  failed

vars == <<head, frontier, availableEnd, producer, consumer, producerDone, failed>>

Init ==
  /\ head = 0 /\ frontier = 0 /\ availableEnd = 0
  /\ producer = "loop" /\ consumer = "loop"
  /\ producerDone = FALSE /\ failed = FALSE

-----------------------------------------------------------------------------
(***************************************************************************)
(* The producer: publish every message, yielding while the tape is full.   *)
(***************************************************************************)
ProducerLoop ==
  /\ producer = "loop"
  /\ producer' = CASE head = MessageCount -> "finish"
                   [] head < MessageCount /\ failed -> "returned"
                   [] OTHER -> "publish"
  /\ UNCHANGED <<head, frontier, availableEnd, consumer, producerDone, failed>>

Publish ==
  /\ producer = "publish"
  /\ head' = IF head - frontier < Capacity THEN head + 1 ELSE head
  /\ producer' = "loop"
  /\ UNCHANGED <<frontier, availableEnd, consumer, producerDone, failed>>

Finish ==
  /\ producer = "finish"
  /\ producerDone' = TRUE
  /\ producer' = "returned"
  /\ UNCHANGED <<head, frontier, availableEnd, consumer, failed>>

-----------------------------------------------------------------------------
(***************************************************************************)
(* The consumer: call process until the last message is behind the         *)
(* frontier; on Empty, take a producer that is done for a lost message.    *)
(***************************************************************************)
Consumed == frontier >= MessageCount

ConsumerLoop ==
  /\ consumer = "loop"
  /\ consumer' = IF Consumed THEN "returned" ELSE "checkFailed"
  /\ UNCHANGED <<head, frontier, availableEnd, producer, producerDone, failed>>

CheckFailed ==
  /\ consumer = "checkFailed"
  /\ consumer' = IF failed THEN "returned" ELSE "process"
  /\ UNCHANGED <<head, frontier, availableEnd, producer, producerDone, failed>>

\* The load at the beginning of Slider::process.
Process ==
  /\ consumer = "process"
  /\ availableEnd' = head
  /\ consumer' = IF head = frontier THEN "empty" ELSE "record"
  /\ UNCHANGED <<head, frontier, producer, producerDone, failed>>

\* The loop of process: one record, or its end.
Record ==
  /\ consumer = "record"
  /\ IF frontier < availableEnd
       THEN frontier' = frontier + 1 /\ UNCHANGED consumer
       ELSE consumer' = "loop" /\ UNCHANGED frontier
  /\ UNCHANGED <<head, availableEnd, producer, producerDone, failed>>

Empty ==
  /\ consumer = "empty"
  /\ IF producerDone /\ frontier # MessageCount
       THEN failed' = TRUE /\ consumer' = "returned"
       ELSE consumer' = "loop" /\ UNCHANGED failed
  /\ UNCHANGED <<head, frontier, availableEnd, producer, producerDone>>

Produce == ProducerLoop \/ Publish \/ Finish
Consume == ConsumerLoop \/ CheckFailed \/ Process \/ Record \/ Empty

Returned == producer = "returned" /\ consumer = "returned"

\* Both threads are joined: nothing happens after that.
Joined == Returned /\ UNCHANGED vars

Next == Produce \/ Consume \/ Joined

Spec == Init /\ [][Next]_vars

-----------------------------------------------------------------------------
(***************************************************************************)
(* The test's verdict on a correct tape and Slider is success: nothing     *)
(* sets the failure flag (test_bare_pipeline.cpp:209, "return !failed").   *)
(***************************************************************************)
NeverFails == ~failed
=============================================================================
