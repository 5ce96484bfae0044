------------------------------- MODULE Tract --------------------------------
(***************************************************************************)
(* A tract: one RecordTape, the producer that publishes into it and a      *)
(* chain of N Sliders, each bound to the frontier of the one before, every *)
(* one of them on a thread of its own (include/fexma/record_tract/         *)
(* slider.hpp, src/record_tract/record_tape.cpp).  No lock is taken: the   *)
(* threads meet only in the release stores and acquire loads of N + 1      *)
(* counters, and everything else - which slot may be overwritten, which    *)
(* record may be read - rests on those.                                    *)
(*                                                                         *)
(* Memory.  Location 0 is Head and location i the frontier of stage i;     *)
(* thread l is the only writer of location l, and the terminal frontier    *)
(* the tape reads as its tail is location N (Head itself when N = 0).  A   *)
(* release store to l leaves a message in released[l]: the view of its     *)
(* writer, m[l] being the value stored and m[k] the newest value of k that *)
(* happens before the store.  A thread may load any message no older than  *)
(* its own view, so a load may be stale for as long as the hardware likes, *)
(* and an acquire load joins the view of the message into the reader's.    *)
(* Consecutive loads of one thread are one step: no interleaving is lost,  *)
(* since a message stays readable once stored and a later load may still   *)
(* return it.                                                              *)
(*                                                                         *)
(* slot is ordinary memory.  It is modelled as one current value, which is *)
(* what the program sees provided its accesses are ordered: DataRaceFree   *)
(* is the proof obligation that makes that sound.                          *)
(***************************************************************************)
EXTENDS Integers

CONSTANTS N,            \* number of stages; 0 leaves the tape without any
          Capacity,     \* RecordTapeConfig::capacity
          MaxPosition,  \* numeric_limits<Position>::max()
          ReadCount,    \* [Stage -> ExecutionPolicy::read_count]
          PublishCount, \* [Stage -> ExecutionPolicy::publish_count]
          Updaters,     \* stages whose module writes its record (try_write)
          Observers     \* threads that only call try_view

Loc == 0 .. N
Stage == 1 .. N
Tail == N
Thread == Loc \cup Observers
Position == 0 .. MaxPosition

ASSUME TractAssumption ==
  /\ N \in Nat
  /\ Capacity \in Nat \ {0}
  /\ MaxPosition \in Nat \ {0}
  /\ ReadCount \in [Stage -> Nat \ {0}]
  /\ PublishCount \in [Stage -> Nat \ {0}]
  /\ Updaters \subseteq Stage
  /\ Observers \cap Loc = {}

VARIABLES
  released,    \* [Loc -> set of views]: the messages of each location
  seen,        \* [Thread -> view]: what happens before the thread's next step
  slot,        \* the ring: the position each slot holds and who updated it
  producer,    \* where the publishing thread is in try_publish
  stage,       \* the locals of each Slider::process
  accepted,    \* how many records each stage's module has accepted
  answer,      \* the last answer each observer got
  terminated   \* a fail-fast branch called std::terminate

vars == <<released, seen, slot, producer, stage, accepted, answer, terminated>>

View == [Loc -> Position]
Zero == [l \in Loc |-> 0]

\* The latest value stored to l: its only writer knows it.
Frontier(l) == seen[l][l]

Idle(p) == [pc |-> "idle", current |-> p, end |-> p, pass |-> p, since |-> 0]

TypeOK ==
  /\ released \in [Loc -> SUBSET View]
  /\ seen \in [Thread -> View]
  /\ slot \in [0 .. Capacity - 1 -> [pos : Position \cup {-1}, by : SUBSET Stage]]
  /\ producer \in {"idle", "copy", "store"}
  /\ stage \in [Stage -> [pc : {"idle", "view", "module", "updated", "publish", "flush"},
                          current : Position, end : Position, pass : Position,
                          since : Position]]
  /\ accepted \in [Stage -> Position]
  /\ answer \in [Observers -> [pos : Position,
                               status : {"none", "Ok", "Reclaimed", "Unpublished"}]]
  /\ terminated \in BOOLEAN

Init ==
  /\ released = [l \in Loc |-> {Zero}]
  /\ seen = [t \in Thread |-> Zero]
  /\ slot = [k \in 0 .. Capacity - 1 |-> [pos |-> -1, by |-> {}]]
  /\ producer = "idle"
  /\ stage = [i \in Stage |-> Idle(0)]
  /\ accepted = [i \in Stage |-> 0]
  /\ answer = [o \in Observers |-> [pos |-> 0, status |-> "none"]]
  /\ terminated = FALSE

(***************************************************************************)
(* Memory operations.  Acquire(view, l) is the set of views a thread may   *)
(* hold after an acquire load of l; the value it read is the l of that     *)
(* view.  RelaxedLoad is the same load without the acquire.                *)
(***************************************************************************)
Join(u, v) == [l \in Loc |-> IF u[l] >= v[l] THEN u[l] ELSE v[l]]

Readable(view, l) == {m \in released[l] : m[l] >= view[l]}

RelaxedLoad(view, l) == {[view EXCEPT ![l] = m[l]] : m \in Readable(view, l)}

Acquire(view, l) == {Join(view, m) : m \in Readable(view, l)}

\* The frontier stage i is constructed with, and the fault of wiring every
\* stage to Head.
WiredToHead(i) == 0
Upstream(i) == i - 1

\* The load of the upstream frontier, and the fault of not acquiring.
UpstreamRelaxed(i) == RelaxedLoad(seen[i], Upstream(i))
LoadUpstream(i) == Acquire(seen[i], Upstream(i))

\* The producer's load of the tail, and its faults: not an acquire; the
\* tail of an earlier call used again.
TailRelaxed == RelaxedLoad(seen[0], Tail)
TailCached == {seen[0]}
LoadTail == Acquire(seen[0], Tail)

\* The two loads at the top of try_view and try_write, tail before head,
\* and the fault of making them in the other order.
HeadThenTail(view) ==
  UNION {{[tail |-> b[Tail], head |-> a[0], view |-> b] : b \in Acquire(a, Tail)} :
            a \in Acquire(view, 0)}

TailThenHead(view) ==
  UNION {{[tail |-> a[Tail], head |-> b[0], view |-> b] : b \in Acquire(a, 0)} :
            a \in Acquire(view, Tail)}

\* A release store of p to its own location by thread l.
Release(l, p) ==
  LET message == [seen[l] EXCEPT ![l] = p]
  IN  /\ released' = [released EXCEPT ![l] = @ \cup {message}]
      /\ seen' = [seen EXCEPT ![l] = message]

Retained(r, p) == r.tail <= p /\ p < r.head

ViewStatus(r, p) ==
  IF p < r.tail THEN "Reclaimed" ELSE IF p >= r.head THEN "Unpublished" ELSE "Ok"

SlotOf(p) == p % Capacity

(***************************************************************************)
(* The producer: RecordTape::try_publish.  The two fail-fast checks set    *)
(* terminated; Full and PositionExhausted leave the tape as it was.        *)
(***************************************************************************)
FullOffByOne(distance) == distance > Capacity
Full(distance) == distance = Capacity

ExhaustedUnchecked(head) == FALSE
Exhausted(head) == head = MaxPosition

BeginPublish ==
  /\ producer = "idle"
  /\ \E view \in LoadTail :
       LET distance == seen[0][0] - view[Tail]
       IN  /\ seen' = [seen EXCEPT ![0] = view]
           /\ terminated' = (distance < 0 \/ distance > Capacity)
           /\ producer' = IF Full(distance) \/ Exhausted(seen[0][0])
                            THEN "idle" ELSE "copy"
  /\ UNCHANGED <<released, slot, stage, accepted, answer>>

CopyPayload ==
  /\ producer = "copy"
  /\ producer' = "store"
  /\ slot' = [slot EXCEPT ![SlotOf(seen[0][0])] = [pos |-> seen[0][0], by |-> {}]]
  /\ UNCHANGED <<released, seen, stage, accepted, answer, terminated>>

PublishHead ==
  /\ producer = "store"
  /\ producer' = "idle"
  /\ Release(0, seen[0][0] + 1)
  /\ UNCHANGED <<slot, stage, accepted, answer, terminated>>

(***************************************************************************)
(* A stage: Slider::process.  Begin is its two loads; each record is then  *)
(* looked up (View), handed to the module, and counted.                    *)
(***************************************************************************)
PassEnd(i, current, end) ==
  current + (IF ReadCount[i] <= end - current THEN ReadCount[i] ELSE end - current)

Begin(i) ==
  /\ stage[i].pc = "idle"
  /\ \E view \in LoadUpstream(i) :
       LET current == seen[i][i]
           end == view[Upstream(i)]
       IN  /\ seen' = [seen EXCEPT ![i] = view]
           /\ terminated' = (end < current)
           /\ stage' = [stage EXCEPT ![i] =
                 IF end <= current THEN Idle(current)   \* Empty
                 ELSE [pc |-> "view", current |-> current, end |-> end,
                       pass |-> PassEnd(i, current, end), since |-> 0]]
  /\ UNCHANGED <<released, slot, producer, accepted, answer>>

\* RecordTape::try_view of the current position; any answer but Ok is fatal.
ViewRecord(i) ==
  /\ stage[i].pc = "view"
  /\ \E r \in TailThenHead(seen[i]) :
       /\ seen' = [seen EXCEPT ![i] = r.view]
       /\ terminated' = ~Retained(r, stage[i].current)
  /\ stage' = [stage EXCEPT ![i].pc = "module"]
  /\ UNCHANGED <<released, slot, producer, accepted, answer>>

\* The module writes into its record with RecordTape::try_write.
UpdateRecord(i) ==
  /\ stage[i].pc = "module"
  /\ i \in Updaters
  /\ \E r \in TailThenHead(seen[i]) :
       /\ seen' = [seen EXCEPT ![i] = r.view]
       /\ terminated' = (r.tail > r.head)
       /\ slot' = IF Retained(r, stage[i].current)
                    THEN [slot EXCEPT ![SlotOf(stage[i].current)].by = @ \cup {i}]
                    ELSE slot
  /\ stage' = [stage EXCEPT ![i].pc = "updated"]
  /\ UNCHANGED <<released, producer, accepted, answer>>

\* The module is about to answer.
Answering(i) ==
  stage[i].pc = IF i \in Updaters THEN "updated" ELSE "module"

\* A publication is due after publish_count records and after the last one.
PublishLate(i, since, atEnd) == since > PublishCount[i] \/ atEnd
PublishDue(i, since, atEnd) == since = PublishCount[i] \/ atEnd

ModuleOk(i) ==
  /\ Answering(i)
  /\ LET s == stage[i]
         next == s.current + 1
     IN  stage' = [stage EXCEPT ![i] =
           [s EXCEPT !.pc = IF PublishDue(i, s.since + 1, next = s.end)
                              THEN "publish" ELSE "view",
                     !.current = next,
                     !.pass = IF next = s.pass THEN PassEnd(i, next, s.end) ELSE s.pass,
                     !.since = s.since + 1]]
  /\ accepted' = [accepted EXCEPT ![i] = stage[i].current + 1]
  /\ UNCHANGED <<released, seen, slot, producer, answer, terminated>>

\* ModuleFailed: flush() publishes the accepted prefix, if there is one.
FlushNothing(s) == Idle(s.current - s.since)
FlushOnFailure(s) ==
  IF s.since = 0 THEN Idle(s.current) ELSE [s EXCEPT !.pc = "flush"]

ModuleFail(i) ==
  /\ Answering(i)
  /\ stage' = [stage EXCEPT ![i] = FlushOnFailure(stage[i])]
  /\ UNCHANGED <<released, seen, slot, producer, accepted, answer, terminated>>

PublishFrontier(i) ==
  /\ stage[i].pc \in {"publish", "flush"}
  /\ Release(i, stage[i].current)
  /\ stage' = [stage EXCEPT ![i] =
       IF stage[i].pc = "flush" \/ stage[i].current = stage[i].end
         THEN Idle(stage[i].current)
         ELSE [stage[i] EXCEPT !.pc = "view", !.since = 0]]
  /\ UNCHANGED <<slot, producer, accepted, answer, terminated>>

(***************************************************************************)
(* A thread outside the chain asks for any position (README, inspection of *)
(* the tape): RecordTape::try_view.                                        *)
(***************************************************************************)
Observe(o) ==
  /\ \E p \in 0 .. MaxPosition - 1, r \in TailThenHead(seen[o]) :
       /\ seen' = [seen EXCEPT ![o] = r.view]
       /\ answer' = [answer EXCEPT ![o] = [pos |-> p, status |-> ViewStatus(r, p)]]
       /\ terminated' = (r.tail > r.head)
  /\ UNCHANGED <<released, slot, producer, stage, accepted>>

Produce == BeginPublish \/ CopyPayload \/ PublishHead

Process(i) ==
  \/ Begin(i) \/ ViewRecord(i) \/ UpdateRecord(i)
  \/ ModuleOk(i) \/ ModuleFail(i) \/ PublishFrontier(i)

Next ==
  /\ ~terminated
  /\ \/ Produce
     \/ \E i \in Stage : Process(i)
     \/ \E o \in Observers : Observe(o)

Spec == Init /\ [][Next]_vars

(***************************************************************************)
(* Fairness.  Every thread calls its function in a loop (the demo and the  *)
(* pipeline tests do), and a load that could see something new eventually  *)
(* does ([intro.progress]: a store becomes visible in finite time), which  *)
(* is weak fairness of the loading step up to stuttering.  A module that   *)
(* may fail eventually accepts the record it is offered over and over.     *)
(***************************************************************************)
ProcessFairly(i) ==
  /\ WF_vars(~terminated /\ Begin(i))
  /\ WF_vars(~terminated /\ ViewRecord(i))
  /\ WF_vars(~terminated /\ UpdateRecord(i))
  /\ WF_vars(~terminated /\ (ModuleOk(i) \/ ModuleFail(i)))
  /\ WF_vars(~terminated /\ PublishFrontier(i))
  /\ SF_vars(~terminated /\ ModuleOk(i))

FairSpec == Spec /\ WF_vars(~terminated /\ Produce) /\ \A i \in Stage : ProcessFairly(i)

-----------------------------------------------------------------------------
(***************************************************************************)
(* No interleaving and no stale load drives a fail-fast branch: a tail     *)
(* beyond head, a distance beyond capacity, an upstream frontier behind    *)
(* the stage, or a record that try_view refuses to a stage.                *)
(***************************************************************************)
NeverTerminates == ~terminated

(***************************************************************************)
(* Every access to a slot happens after the accesses it conflicts with: a  *)
(* stage touches a record only when the producer's copy and every upstream *)
(* stage's accesses happen before, and the producer overwrites a slot only *)
(* when every stage's accesses to its old record happen before.  Holding a *)
(* value of l above p means everything l did to record p happens before.   *)
(***************************************************************************)
Touching(i) == stage[i].pc \in {"module", "updated"}

DataRaceFree ==
  /\ \A i \in Stage : Touching(i) =>
       \A j \in 0 .. i - 1 : seen[i][j] > stage[i].current
  /\ producer = "copy" =>
       \A i \in Stage : seen[0][i] > seen[0][0] - Capacity

(***************************************************************************)
(* No two threads are in one slot at the same time: neither the producer   *)
(* and a stage nor two stages, which may be one lap of the ring apart.     *)
(***************************************************************************)
SlotExclusive ==
  \A i \in Stage : Touching(i) =>
    /\ producer = "copy" => SlotOf(stage[i].current) # SlotOf(seen[0][0])
    /\ \A j \in Stage \ {i} :
         Touching(j) => SlotOf(stage[i].current) # SlotOf(stage[j].current)

(***************************************************************************)
(* The record a module is shown is the one published at that position,     *)
(* carrying what every updater upstream of it wrote and nothing from       *)
(* downstream.                                                             *)
(***************************************************************************)
ReadsPublished ==
  \A i \in Stage : Touching(i) =>
    LET record == slot[SlotOf(stage[i].current)]
    IN  /\ record.pos = stage[i].current
        /\ record.by \ {i} = Updaters \cap 1 .. i - 1

(***************************************************************************)
(* A module is shown every position in turn: the one it is shown is the    *)
(* first it has not accepted, across passes, publications, failures and    *)
(* retries.                                                                *)
(***************************************************************************)
DeliveredInOrder ==
  \A i \in Stage : Touching(i) => stage[i].current = accepted[i]

(***************************************************************************)
(* A stage holds back at most publish_count accepted records, fewer while  *)
(* it is working on the next one, and none between calls of process().     *)
(***************************************************************************)
PublicationLag ==
  \A i \in Stage :
    LET lag == accepted[i] - Frontier(i)
    IN  /\ lag \in 0 .. PublishCount[i]
        /\ stage[i].pc \in {"view", "module", "updated"} => lag < PublishCount[i]
        /\ stage[i].pc = "idle" => lag = 0

(***************************************************************************)
(* A position try_view answers Ok for is retained: head has not passed it  *)
(* by more than the capacity, so its slot still holds it                   *)
(* (doc/INVARIANTS.md, "Ok - position is retained and published").         *)
(***************************************************************************)
OkMeansRetained ==
  [][\A o \in Observers :
       answer'[o] # answer[o] /\ answer'[o].status = "Ok" =>
         seen'[o][0] - answer'[o].pos <= Capacity]_answer

(***************************************************************************)
(* The inductive invariant behind the safety properties.  A view is        *)
(* Coherent when it descends along the chain - knowing that stage i has    *)
(* handed on a record is knowing that every stage before it has - and is   *)
(* ahead of no frontier.  Every view held or published is, a running call  *)
(* stays below the upstream frontier it has seen, and the producer has     *)
(* room when it writes.                                                    *)
(***************************************************************************)
Descending(v) == \A j, k \in Loc : j <= k => v[k] <= v[j]

Coherent(v) ==
  /\ v \in View
  /\ Descending(v)
  /\ \A k \in Loc : v[k] <= Frontier(k)

ViewsCoherent ==
  /\ \A t \in Thread : Coherent(seen[t])
  /\ \A l \in Loc : \A m \in released[l] : Coherent(m)

\* A running call has the records before `current` counted since the last
\* publication, and reads no further than the upstream frontier it saw.
StageInv(i) ==
  LET s == stage[i]
  IN  /\ accepted[i] = s.current
      /\ s.since = s.current - Frontier(i)
      /\ s.since <= PublishCount[i]
      /\ s.end <= seen[i][i - 1]
      /\ s.current <= s.end
      /\ s.pc = "idle" => s.since = 0
      /\ s.pc \in {"view", "module", "updated"} =>
           s.current < s.end /\ s.since < PublishCount[i]

ProducerInv ==
  /\ seen[0][0] - seen[0][Tail] <= Capacity
  /\ producer # "idle" =>
       seen[0][0] - seen[0][Tail] < Capacity /\ seen[0][0] < MaxPosition

IInv ==
  /\ TypeOK
  /\ ViewsCoherent
  /\ \A i \in Stage : StageInv(i)
  /\ ProducerInv
  /\ ~terminated

(***************************************************************************)
(* The tract implements the abstract pipeline: whatever the threads see of *)
(* each other, the frontiers they store behave as the chain of counters.   *)
(***************************************************************************)
Abstract == INSTANCE Pipeline WITH front <- [l \in Loc |-> Frontier(l)]

RefinesPipeline == Abstract!Spec

(***************************************************************************)
(* The frontiers stored are a descending chain no wider than the capacity  *)
(* (doc/INVARIANTS.md, "tail <= head", "head - tail <= capacity").         *)
(***************************************************************************)
BoundariesHold == Abstract!Bounded

(***************************************************************************)
(* Under the fairness above it implements the fair pipeline: space that is *)
(* freed is used and a record that is handed on is taken, though modules   *)
(* fail and every load may be stale.                                       *)
(***************************************************************************)
RefinesFairPipeline == Abstract!FairSpec

(***************************************************************************)
(* So every position there is gets published and handed on by every stage: *)
(* backpressure never wedges the tract.                                    *)
(***************************************************************************)
DeliversAll == Abstract!AllDelivered
=============================================================================
