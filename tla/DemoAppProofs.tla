--------------------------- MODULE DemoAppProofs ---------------------------
(***************************************************************************)
(* Theorems of DemoApp: for every number of records, every capacity and    *)
(* every publication policy.                                               *)
(***************************************************************************)
EXTENDS DemoApp, TLAPS

Position == 0 .. RecordCount

TypeInv ==
  /\ bad \in Position /\ head \in Position
  /\ frontier \in [Stage -> Position]
  /\ call \in [Stage -> [current : Position, availableEnd : Position, sincePublish : Nat]]
  /\ processed \in [Stage -> Position]
  /\ stage \in [Stage -> {"loop", "process", "record", "fail", "returned"}]
  /\ failed \in BOOLEAN
  /\ exit \in {"running", "valid", "invalid"}

\* The producer publishes no more than there is to publish.
ProducerInv == producer = "publish" => head < RecordCount

\* A Slider is in the middle of a range its upstream has published, and is
\* behind with its frontier only there.
StageInv(i) ==
  /\ frontier[i] <= Upstream(i)
  /\ stage[i] = "record" =>
       /\ processed[i] = call[i].current
       /\ frontier[i] <= call[i].current /\ call[i].current < call[i].availableEnd
       /\ call[i].availableEnd <= Upstream(i)
  /\ stage[i] # "record" => processed[i] = frontier[i]

\* Only validation refuses, and at one record only; it has flushed what it
\* had accepted before the others can learn of it.
RefusalInv ==
  /\ frontier[Validation] <= bad
  /\ stage[Validation] = "record" => call[Validation].current <= bad
  /\ stage[Validation] = "fail" \/ failed => frontier[Validation] = bad /\ bad < RecordCount
  /\ failed => stage[Validation] = "returned"
  /\ stage[Hash] # "fail"

\* A thread that returned has been told to, or has done everything.
ReturnedInv == \A i \in Stage : stage[i] = "returned" /\ ~failed => frontier[i] = RecordCount

ExitInv ==
  exit # "running" =>
    /\ producer = "returned" /\ \A i \in Stage : stage[i] = "returned"
    /\ exit = "valid" <=> Valid

IInv ==
  /\ TypeInv /\ ProducerInv /\ RefusalInv /\ ReturnedInv /\ ExitInv
  /\ \A i \in Stage : StageInv(i)

LEMMA InitHolds == Init => IInv
<1> SUFFICES ASSUME Init PROVE IInv
  OBVIOUS
<1>1. 0 \in Position /\ 0 \in Nat /\ bad \in Position /\ 0 <= bad
  BY DemoAssumption DEF Init, Position
<1>2. TypeInv
  BY <1>1 DEF Init, TypeInv
<1>3. ProducerInv /\ ReturnedInv /\ ExitInv
  BY DEF Init, ProducerInv, ReturnedInv, ExitInv
<1>4. RefusalInv
  BY <1>1 DEF Init, RefusalInv, Stage, Validation, Hash
<1>5. ASSUME NEW i \in Stage PROVE StageInv(i)
  <2>1. Upstream(i) = 0
    BY DEF Init, Upstream, Stage, Validation, Hash
  <2>2. frontier[i] = 0 /\ processed[i] = 0 /\ stage[i] = "loop"
    BY DEF Init
  <2> QED BY <2>1, <2>2 DEF StageInv
<1> QED BY <1>2, <1>3, <1>4, <1>5 DEF IInv

-----------------------------------------------------------------------------
\* What the invariant says of the numbers of a state.
LEMMA Numbers ==
  ASSUME IInv
  PROVE  /\ RecordCount \in Nat /\ bad \in Nat /\ head \in Nat
         /\ bad <= RecordCount /\ head <= RecordCount
         /\ \A i \in Stage :
              /\ frontier[i] \in Nat /\ processed[i] \in Nat
              /\ call[i].current \in Nat /\ call[i].availableEnd \in Nat
              /\ call[i].sincePublish \in Nat
BY DemoAssumption DEF IInv, TypeInv, Position

\* With a thread still to return, main has not judged.
LEMMA StillRunning ==
  ASSUME IInv, producer # "returned" \/ \E i \in Stage : stage[i] # "returned"
  PROVE  exit = "running"
BY DEF IInv, ExitInv

LEMMA ProducerKeeps ==
  ASSUME IInv, Producer
  PROVE  IInv'
<1>1. /\ exit = "running" /\ exit' = exit
      /\ UNCHANGED <<bad, frontier, call, processed, stage, failed>>
  BY StillRunning DEF Producer, ProducerLoop, TryPublish
<1>2. /\ head' \in Position /\ head <= head'
      /\ producer' = "publish" => head' < RecordCount
  <2>1. CASE ProducerLoop
    <3>1. head' = head /\ head \in Position /\ head \in Nat
      BY <2>1, Numbers DEF ProducerLoop, IInv, TypeInv
    <3>2. producer' = "publish" => head # RecordCount
      BY <2>1 DEF ProducerLoop, ProducerEnds
    <3> QED BY <3>1, <3>2, Numbers
  <2>2. CASE TryPublish
    BY <2>2, Numbers DEF TryPublish, IInv, ProducerInv, Position
  <2> QED BY <2>1, <2>2 DEF Producer
<1>3. \A i \in Stage : Upstream(i) <= Upstream(i)' /\ Upstream(i) \in Nat /\ Upstream(i)' \in Nat
  BY <1>1, <1>2, Numbers DEF Upstream, Position, Stage, Validation, Hash
<1>4. \A i \in Stage : StageInv(i)'
  BY <1>1, <1>3, Numbers DEF IInv, StageInv
<1>5. TypeInv' /\ ProducerInv' /\ RefusalInv' /\ ReturnedInv' /\ ExitInv'
  BY <1>1, <1>2 DEF IInv, TypeInv, ProducerInv, RefusalInv, ReturnedInv, ExitInv
<1> QED BY <1>4, <1>5 DEF IInv

(***************************************************************************)
(* What a step of one Slider leaves alone, and what the other one sees of  *)
(* it: an upstream that has not moved back.                                *)
(***************************************************************************)
Others(i) ==
  /\ UNCHANGED <<bad, head, producer, exit>>
  /\ \A j \in Stage \ {i} :
       /\ frontier'[j] = frontier[j] /\ call'[j] = call[j]
       /\ processed'[j] = processed[j] /\ stage'[j] = stage[j]
  /\ frontier'[i] \in Position /\ frontier[i] <= frontier'[i]

LEMMA OtherKeeps ==
  ASSUME IInv, NEW i \in Stage, Others(i), NEW j \in Stage \ {i}
  PROVE  StageInv(j)'
<1>1. Upstream(j) <= Upstream(j)' /\ Upstream(j) \in Nat /\ Upstream(j)' \in Nat
  BY Numbers DEF Upstream, Position, Stage, Validation, Hash, Others
<1>2. /\ frontier'[j] = frontier[j] /\ call'[j] = call[j]
      /\ processed'[j] = processed[j] /\ stage'[j] = stage[j]
  BY DEF Others
<1>3. StageInv(j)
  BY DEF IInv
<1> QED BY <1>1, <1>2, <1>3, Numbers DEF StageInv

\* Its own upstream is not moved by a Slider.
LEMMA OwnUpstream ==
  ASSUME IInv, NEW i \in Stage, Others(i)
  PROVE  Upstream(i)' = Upstream(i) /\ Upstream(i) \in Nat /\ Upstream(i) <= RecordCount
BY Numbers DEF Upstream, Stage, Validation, Hash, Others, IInv, TypeInv, Position

-----------------------------------------------------------------------------
(***************************************************************************)
(* The steps of a Slider.                                                  *)
(***************************************************************************)
LEMMA StageLoopKeeps ==
  ASSUME IInv, NEW i \in Stage, StageLoop(i)
  PROVE  IInv'
<1>1. /\ stage[i] = "loop" /\ exit = "running"
      /\ UNCHANGED <<bad, head, frontier, call, processed, producer, failed, exit>>
  BY StillRunning DEF StageLoop
<1>2. PICK step \in {"returned", "process"} :
        /\ stage' = [stage EXCEPT ![i] = step]
        /\ step = "returned" => failed \/ frontier[i] >= RecordCount
  BY DEF StageLoop, Goto
<1>3. TypeInv'
  BY <1>1, <1>2 DEF IInv, TypeInv
<1>4. stage'[i] = step /\ \A j \in Stage \ {i} : stage'[j] = stage[j]
  BY <1>2 DEF IInv, TypeInv
<1>5. Others(i)
  BY <1>1, <1>4, Numbers DEF Others, IInv, TypeInv
<1>6. StageInv(i)'
  BY <1>1, <1>4, <1>5, OwnUpstream DEF IInv, StageInv
<1>7. RefusalInv'
  BY <1>1, <1>4 DEF IInv, RefusalInv, Stage, Validation, Hash
<1>8. ReturnedInv'
  <2>1. frontier[i] <= RecordCount
    BY DEF IInv, TypeInv, Position
  <2>2. stage'[i] = "returned" /\ ~failed => frontier[i] = RecordCount
    BY <1>2, <1>4, <2>1, Numbers
  <2> QED BY <1>1, <1>4, <2>2 DEF IInv, ReturnedInv
<1>9. ProducerInv' /\ ExitInv'
  BY <1>1 DEF IInv, ProducerInv, ExitInv
<1> QED BY <1>3, <1>5, <1>6, <1>7, <1>8, <1>9, OtherKeeps DEF IInv

LEMMA BeginKeeps ==
  ASSUME IInv, NEW i \in Stage, Begin(i)
  PROVE  IInv'
<1>1. /\ stage[i] = "process" /\ exit = "running"
      /\ UNCHANGED <<bad, head, frontier, processed, producer, failed, exit>>
  BY StillRunning DEF Begin
<1>2. PICK step \in {"loop", "record"} :
        /\ stage' = [stage EXCEPT ![i] = step]
        /\ step = "loop" => call' = call
        /\ step = "record" =>
             /\ Upstream(i) # frontier[i]
             /\ call' = [call EXCEPT ![i] = [current |-> frontier[i], sincePublish |-> 0,
                                             availableEnd |-> Upstream(i)]]
  <2>1. CASE Upstream(i) = frontier[i]
    BY <2>1 DEF Begin, Goto
  <2>2. CASE Upstream(i) # frontier[i]
    BY <2>2 DEF Begin, Goto
  <2> QED BY <2>1, <2>2
<1>3. Upstream(i) \in Position /\ frontier[i] \in Position /\ 0 \in Nat
  BY DEF Upstream, Stage, Validation, Hash, IInv, TypeInv
<1>4. [current |-> frontier[i], sincePublish |-> 0, availableEnd |-> Upstream(i)]
        \in [current : Position, availableEnd : Position, sincePublish : Nat]
  BY <1>3
<1>5. TypeInv'
  BY <1>1, <1>2, <1>4 DEF IInv, TypeInv
<1>6. /\ stage'[i] = step /\ \A j \in Stage \ {i} : stage'[j] = stage[j] /\ call'[j] = call[j]
      /\ step = "record" => call'[i].current = frontier[i]
                            /\ call'[i].availableEnd = Upstream(i)
  BY <1>2 DEF IInv, TypeInv
<1>7. Others(i)
  BY <1>1, <1>3, <1>6, Numbers DEF Others
<1>8. StageInv(i)'
  <2>1. frontier[i] <= Upstream(i) /\ processed[i] = frontier[i]
    BY <1>1 DEF IInv, StageInv
  <2> QED BY <1>1, <1>2, <1>6, <1>7, <2>1, OwnUpstream, Numbers DEF StageInv
<1>9. RefusalInv'
  BY <1>1, <1>6 DEF IInv, RefusalInv, Stage, Validation, Hash
<1>10. ReturnedInv' /\ ProducerInv' /\ ExitInv'
  BY <1>1, <1>6 DEF IInv, ReturnedInv, ProducerInv, ExitInv
<1> QED BY <1>5, <1>7, <1>8, <1>9, <1>10, OtherKeeps DEF IInv

LEMMA AcceptKeeps ==
  ASSUME IInv, NEW i \in Stage, Accept(i)
  PROVE  IInv'
<1>1. /\ stage[i] = "record" /\ exit = "running" /\ Accepts(i, call[i].current)
      /\ UNCHANGED <<bad, head, producer, failed, exit>>
  BY StillRunning DEF Accept
<1>2. PICK next \in Nat : next = call[i].current + 1
  BY Numbers
<1>3. PICK since \in Nat :
        call' = [call EXCEPT ![i].current = next, ![i].sincePublish = since]
  <2>1. PICK since \in Nat :
          since = IF call[i].sincePublish + 1 = PublishCount THEN 0
                  ELSE call[i].sincePublish + 1
    BY Numbers
  <2>2. call' = [call EXCEPT ![i].current = next, ![i].sincePublish = since]
    BY <1>2, <2>1 DEF Accept, IInv, TypeInv
  <2> QED BY <2>2
<1>4. PICK published \in {frontier[i], next} :
        /\ frontier' = [frontier EXCEPT ![i] = published]
        /\ next = call[i].availableEnd => published = next
  BY <1>2 DEF Accept, IInv, TypeInv
<1>5. /\ processed' = [processed EXCEPT ![i] = processed[i] + 1]
      /\ stage' = IF next = call[i].availableEnd THEN [stage EXCEPT ![i] = "loop"] ELSE stage
  BY <1>2 DEF Accept, Goto
<1>6. StageInv(i)
  BY DEF IInv
<1>7. /\ processed[i] = call[i].current /\ frontier[i] <= next
      /\ next <= call[i].availableEnd /\ call[i].availableEnd <= Upstream(i)
  BY <1>1, <1>2, <1>6, Numbers DEF StageInv
<1>8. next \in Position /\ published \in Position
  <2>1. Upstream(i) \in Position
    BY DEF Upstream, Stage, Validation, Hash, IInv, TypeInv
  <2>2. next \in Position
    BY <1>7, <2>1, Numbers DEF Position
  <2> QED BY <1>4, <2>2 DEF IInv, TypeInv
<1>9. /\ frontier'[i] = published /\ processed'[i] = next
      /\ call'[i].current = next /\ call'[i].availableEnd = call[i].availableEnd
      /\ stage'[i] = IF next = call[i].availableEnd THEN "loop" ELSE "record"
      /\ \A j \in Stage \ {i} : /\ frontier'[j] = frontier[j] /\ call'[j] = call[j]
                                /\ processed'[j] = processed[j] /\ stage'[j] = stage[j]
  BY <1>1, <1>2, <1>3, <1>4, <1>5, <1>7 DEF IInv, TypeInv
<1>10. TypeInv'
  <2>1. call' \in [Stage -> [current : Position, availableEnd : Position, sincePublish : Nat]]
    BY <1>3, <1>8 DEF IInv, TypeInv
  <2>2. processed' \in [Stage -> Position]
    BY <1>2, <1>5, <1>7, <1>8 DEF IInv, TypeInv
  <2>3. stage' \in [Stage -> {"loop", "process", "record", "fail", "returned"}]
    BY <1>5 DEF IInv, TypeInv
  <2> QED BY <1>1, <1>4, <1>8, <2>1, <2>2, <2>3 DEF IInv, TypeInv
<1>11. Others(i)
  BY <1>1, <1>4, <1>7, <1>8, <1>9, Numbers DEF Others
<1>12. StageInv(i)'
  <2>1. Upstream(i)' = Upstream(i)
    BY <1>11, OwnUpstream
  <2>2. published <= next /\ next <= Upstream(i)
    BY <1>4, <1>7, Numbers, OwnUpstream, <1>11
  <2>3. published <= Upstream(i)
    BY <1>4, <1>7, <1>11, <2>2, Numbers, OwnUpstream
  <2>4. next # call[i].availableEnd => next < call[i].availableEnd
    BY <1>7, Numbers
  <2> QED BY <1>4, <1>7, <1>9, <2>1, <2>2, <2>3, <2>4 DEF StageInv
<1>13. RefusalInv'
  <2>1. RefusalInv
    BY DEF IInv
  <2>2. CASE i = Hash
    <3>1. /\ frontier'[Validation] = frontier[Validation] /\ stage'[Hash] # "fail"
          /\ stage'[Validation] = stage[Validation] /\ call'[Validation] = call[Validation]
      BY <1>9, <2>2 DEF Stage, Validation, Hash
    <3> QED BY <1>1, <2>1, <3>1 DEF RefusalInv
  <2>3. CASE i = Validation
    <3>1. call[i].current # bad /\ call[i].current <= bad
      BY <1>1, <2>1, <2>3 DEF Accepts, RefusalInv
    <3>2. next <= bad
      BY <1>2, <3>1, Numbers
    <3>3. published <= bad
      BY <1>4, <2>1, <2>3, <3>2 DEF RefusalInv
    <3>4. stage'[Hash] = stage[Hash] /\ ~failed
      BY <1>1, <1>9, <2>1, <2>3 DEF Stage, Validation, Hash, RefusalInv
    <3> QED BY <1>1, <1>9, <2>1, <2>3, <3>2, <3>3, <3>4 DEF RefusalInv
  <2> QED BY <2>2, <2>3 DEF Stage
<1>14. ReturnedInv'
  BY <1>1, <1>9 DEF IInv, ReturnedInv
<1>15. ProducerInv' /\ ExitInv'
  BY <1>1 DEF IInv, ProducerInv, ExitInv
<1> QED BY <1>10, <1>11, <1>12, <1>13, <1>14, <1>15, OtherKeeps DEF IInv

LEMMA RefuseKeeps ==
  ASSUME IInv, NEW i \in Stage, Refuse(i)
  PROVE  IInv'
<1>1. /\ stage[i] = "record" /\ exit = "running" /\ i = Validation /\ call[i].current = bad
      /\ UNCHANGED <<bad, head, call, processed, producer, failed, exit>>
      /\ stage' = [stage EXCEPT ![i] = "fail"]
      /\ frontier' = [frontier EXCEPT ![i] = call[i].current]
  BY StillRunning DEF Refuse, Accepts, Goto, Flush
<1>2. /\ processed[i] = bad /\ frontier[i] <= bad /\ bad < Upstream(i)
      /\ Upstream(i) \in Nat /\ Upstream(i) <= RecordCount
  <2>1. StageInv(i)
    BY DEF IInv
  <2>2. Upstream(i) = head
    BY <1>1 DEF Upstream
  <2> QED BY <1>1, <2>1, <2>2, Numbers DEF StageInv
<1>3. /\ frontier'[i] = bad /\ stage'[i] = "fail"
      /\ \A j \in Stage \ {i} : frontier'[j] = frontier[j] /\ stage'[j] = stage[j]
  BY <1>1 DEF IInv, TypeInv
<1>4. TypeInv'
  BY <1>1 DEF IInv, TypeInv
<1>5. Others(i)
  BY <1>1, <1>2, <1>3 DEF Others, IInv, TypeInv
<1>6. StageInv(i)'
  BY <1>1, <1>2, <1>3, <1>5, Numbers, OwnUpstream DEF StageInv
<1>7. RefusalInv'
  <2>1. stage'[Hash] = stage[Hash] /\ bad < RecordCount /\ ~failed
    BY <1>1, <1>2, <1>3, Numbers DEF Stage, Validation, Hash, IInv, RefusalInv
  <2> QED BY <1>1, <1>3, <2>1, Numbers DEF IInv, RefusalInv
<1>8. ReturnedInv'
  BY <1>1, <1>3 DEF IInv, ReturnedInv
<1>9. ProducerInv' /\ ExitInv'
  BY <1>1 DEF IInv, ProducerInv, ExitInv
<1> QED BY <1>4, <1>5, <1>6, <1>7, <1>8, <1>9, OtherKeeps DEF IInv

LEMMA ReportFailureKeeps ==
  ASSUME IInv, NEW i \in Stage, ReportFailure(i)
  PROVE  IInv'
<1>1. /\ stage[i] = "fail" /\ exit = "running" /\ failed' = TRUE
      /\ UNCHANGED <<bad, head, frontier, call, processed, producer, exit>>
      /\ stage' = [stage EXCEPT ![i] = "returned"]
  BY StillRunning DEF ReportFailure, Goto
<1>2. i = Validation
  BY <1>1 DEF IInv, RefusalInv, Stage
<1>3. stage'[i] = "returned" /\ \A j \in Stage \ {i} : stage'[j] = stage[j]
  BY <1>1 DEF IInv, TypeInv
<1>4. TypeInv'
  BY <1>1 DEF IInv, TypeInv
<1>5. Others(i)
  BY <1>1, <1>3, Numbers DEF Others, IInv, TypeInv
<1>6. StageInv(i)'
  BY <1>1, <1>3, <1>5, OwnUpstream DEF IInv, StageInv
<1>7. RefusalInv'
  BY <1>1, <1>2, <1>3 DEF IInv, RefusalInv, Stage, Validation, Hash
<1>8. ReturnedInv' /\ ProducerInv' /\ ExitInv'
  BY <1>1 DEF IInv, ReturnedInv, ProducerInv, ExitInv
<1> QED BY <1>4, <1>5, <1>6, <1>7, <1>8, OtherKeeps DEF IInv

(***************************************************************************)
(* main judges when nothing moves any more.                                *)
(***************************************************************************)
LEMMA MainKeeps ==
  ASSUME IInv, Main
  PROVE  IInv'
<1>1. /\ producer = "returned" /\ \A i \in Stage : stage[i] = "returned"
      /\ exit' = IF Valid THEN "valid" ELSE "invalid"
      /\ UNCHANGED <<bad, head, frontier, call, processed, producer, stage, failed>>
  BY DEF Main
<1>2. Valid' <=> Valid
  BY <1>1 DEF Valid
<1>3. ExitInv'
  BY <1>1, <1>2 DEF ExitInv
<1>4. TypeInv' /\ ProducerInv' /\ RefusalInv' /\ ReturnedInv'
  BY <1>1 DEF IInv, TypeInv, ProducerInv, RefusalInv, ReturnedInv
<1>5. \A i \in Stage : StageInv(i)'
  BY <1>1 DEF IInv, StageInv, Upstream
<1> QED BY <1>3, <1>4, <1>5 DEF IInv

LEMMA NextKeeps == IInv /\ [Next]_vars => IInv'
<1> SUFFICES ASSUME IInv, [Next]_vars PROVE IInv'
  OBVIOUS
<1>1. CASE Producer
  BY <1>1, ProducerKeeps
<1>2. ASSUME NEW i \in Stage, Slider(i) PROVE IInv'
  BY <1>2, StageLoopKeeps, BeginKeeps, AcceptKeeps, RefuseKeeps, ReportFailureKeeps DEF Slider
<1>3. CASE Main
  BY <1>3, MainKeeps
<1>4. CASE UNCHANGED vars
  BY <1>4 DEF vars, IInv, TypeInv, ProducerInv, StageInv, Upstream, RefusalInv, ReturnedInv,
              ExitInv, Valid
<1> QED BY <1>1, <1>2, <1>3, <1>4 DEF Next

(***************************************************************************)
(* Where the threads are to each other, whichever of them polls, fails or  *)
(* has returned.                                                           *)
(***************************************************************************)
THEOREM Invariance == Spec => []IInv
BY InitHolds, NextKeeps, PTL DEF Spec

(***************************************************************************)
(* The verdict of main is exact, and so is what validation has handed on.  *)
(***************************************************************************)
THEOREM VerdictIsExact == Spec => []ExitIsExact
<1>1. IInv => ExitIsExact
  <2> SUFFICES ASSUME IInv, exit # "running"
               PROVE  /\ exit = "valid" <=> bad = RecordCount
                      /\ processed = frontier
                      /\ frontier[Validation] = bad
    BY DEF ExitIsExact
  <2>1. (\A i \in Stage : stage[i] = "returned") /\ (exit = "valid" <=> Valid)
    BY DEF IInv, ExitInv
  <2>2. \A i \in Stage : processed[i] = frontier[i] /\ frontier[i] <= Upstream(i)
    BY <2>1 DEF IInv, StageInv
  <2>3. processed = frontier
    BY <2>2 DEF IInv, TypeInv
  <2>4. Validation \in Stage /\ Hash \in Stage /\ Upstream(Validation) = head
    BY DEF Stage, Upstream
  <2>5. RefusalInv /\ ReturnedInv
    BY DEF IInv
  <2>6. CASE failed
    BY <2>1, <2>3, <2>5, <2>6, Numbers DEF RefusalInv, Valid
  <2>7. CASE ~failed
    <3>1. \A i \in Stage : frontier[i] = RecordCount
      BY <2>1, <2>5, <2>7 DEF ReturnedInv
    <3>2. bad = RecordCount /\ head = RecordCount
      BY <2>2, <2>4, <2>5, <3>1, Numbers DEF RefusalInv
    <3>3. Valid
      BY <2>2, <2>4, <2>7, <3>1, <3>2 DEF Valid
    <3> QED BY <2>1, <2>3, <2>4, <3>1, <3>2, <3>3
  <2> QED BY <2>6, <2>7
<1> QED BY <1>1, Invariance, PTL
=============================================================================
