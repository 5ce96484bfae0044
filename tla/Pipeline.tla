------------------------------ MODULE Pipeline ------------------------------
(***************************************************************************)
(* What a tract promises, with no threads, buffers or memory order in it:  *)
(* a bounded pipeline.  front[0] counts the published records (Head) and   *)
(* front[i] counts the records stage i has finished and handed on          *)
(* (doc/CONTRACT.md, "Frontier").  A record is recycled only when the      *)
(* terminal stage has handed it on, so at most Capacity records lie        *)
(* between front[0] and front[N].  With N = 0 the terminal frontier is     *)
(* Head itself and nothing is ever retained.                               *)
(***************************************************************************)
EXTENDS Integers

CONSTANTS N,            \* number of stages
          Capacity,     \* records the tape can retain
          MaxPosition   \* numeric_limits<Position>::max()

VARIABLE front

Boundary == 0 .. N
Stage == 1 .. N

Init == front = [l \in Boundary |-> 0]

Publish ==
  /\ front[0] - front[N] < Capacity
  /\ front[0] < MaxPosition
  /\ front' = [front EXCEPT ![0] = @ + 1]

Advance(i) ==
  \E n \in front[i] + 1 .. front[i - 1] : front' = [front EXCEPT ![i] = n]

Next == Publish \/ \E i \in Stage : Advance(i)

Spec == Init /\ [][Next]_front

FairSpec == Spec /\ WF_front(Publish) /\ \A i \in Stage : WF_front(Advance(i))

(***************************************************************************)
(* The frontiers form a descending chain of width at most Capacity         *)
(* (doc/INVARIANTS.md, "tail <= head", "head - tail <= capacity").         *)
(***************************************************************************)
Bounded ==
  /\ \A i \in Stage : front[i] <= front[i - 1]
  /\ front[0] - front[N] <= Capacity

(***************************************************************************)
(* Every position the counter can hold is published and reaches the end of *)
(* the pipeline: backpressure never wedges it.                             *)
(***************************************************************************)
AllDelivered == <>(front = [l \in Boundary |-> MaxPosition])
=============================================================================
