--------------------------- MODULE TapeLifecycle ----------------------------
(***************************************************************************)
(* The one lifetime of a RecordTape (src/record_tract/record_tape.cpp) and *)
(* of the frontiers its tail may refer to: every sequence of calls, legal  *)
(* and not, that one owner makes on the tape, with the roles stopped       *)
(* around open and close as the contract asks.  Of the ring it has the     *)
(* layout, in bytes; what the slots hold is the subject of module Tract.   *)
(***************************************************************************)
EXTENDS CheckedSizes

CONSTANTS Frontiers,     \* frontiers of stages that may be the terminal one
          Configs,       \* the RecordTapeConfigs that open is called with
          SizeMax,       \* largest size_t
          PointerAlign,  \* alignof(void*)
          MaxHead        \* positions published; a bound of the model

VARIABLES
  open,        \* open_
  openedOnce,  \* opened_once_
  tail,        \* what tail_frontier_ points at
  ring,        \* buffer_: its bytes, stride and payload size; capacity_
  head,        \* head_boundary_
  frontier,    \* the value of each frontier
  alive,       \* the frontiers that have not been destroyed
  closed,      \* close() has returned at least once
  answer,      \* the last answer, "None" when it was void
  terminated,  \* std::terminate was called
  dangling     \* a call has read a frontier that is not there

vars == <<open, openedOnce, tail, ring, head, frontier, alive, closed, answer,
          terminated, dangling>>

NoRing == [size |-> 0, stride |-> 0, payload |-> 0, capacity |-> 0]

Own == "head_boundary_"
Null == "nullptr"

ASSUME LifecycleAssumption ==
  /\ SizeMax \in Nat /\ PointerAlign \in Nat \ {0} /\ MaxHead \in Nat
  /\ Own \notin Frontiers /\ Null \notin Frontiers
  /\ \A c \in Configs : /\ c.payload_size \in 0 .. SizeMax
                       /\ c.capacity \in 0 .. SizeMax
                       /\ c.alignment \in 0 .. SizeMax

Answers == {"None", "Ok", "InvalidConfig", "AllocationFailed", "AlreadyOpen",
            "Full", "Reclaimed", "Unpublished", "Closed"}

TypeOK ==
  /\ open \in BOOLEAN /\ openedOnce \in BOOLEAN
  /\ tail \in Frontiers \cup {Own, Null}
  /\ ring \in [size : 0 .. SizeMax, stride : 0 .. SizeMax, payload : 0 .. SizeMax,
              capacity : 0 .. SizeMax]
  /\ head \in 0 .. MaxHead
  /\ frontier \in [Frontiers -> 0 .. MaxHead]
  /\ alive \in SUBSET Frontiers
  /\ closed \in BOOLEAN /\ terminated \in BOOLEAN /\ dangling \in BOOLEAN
  /\ answer \in Answers

Init ==
  /\ open = FALSE /\ openedOnce = FALSE
  /\ tail = Own
  /\ ring = NoRing
  /\ head = 0
  /\ frontier = [f \in Frontiers |-> 0]
  /\ alive = Frontiers
  /\ closed = FALSE /\ terminated = FALSE /\ dangling = FALSE
  /\ answer = "None"

Terminate ==
  /\ terminated' = TRUE
  /\ UNCHANGED <<open, openedOnce, tail, ring, head, frontier, alive, closed, answer, dangling>>

-----------------------------------------------------------------------------
(***************************************************************************)
(* SetTailRef and open.  Faults: the topology is not frozen; a closed tape *)
(* may be opened again.                                                    *)
(***************************************************************************)
NotFrozen == FALSE
Frozen == openedOnce

SetTailRef(f) ==
  /\ ~terminated
  /\ f \in alive
  /\ \/ Frozen /\ Terminate
     \/ /\ ~Frozen
        /\ tail' = f
        /\ answer' = "None"
        /\ UNCHANGED <<open, openedOnce, ring, head, frontier, alive, closed, terminated, dangling>>

Reopenable == FALSE
Spent == openedOnce

ValidRuntimeConfig(c) ==
  /\ c.payload_size # 0 /\ c.capacity # 0
  /\ c.alignment >= PointerAlign
  /\ PowerOfTwo(c.alignment)
  /\ StorageFits(c, SizeMax)

RingOf(c) ==
  [size |-> StorageSize(c, SizeMax), stride |-> Stride(c, SizeMax),
   payload |-> c.payload_size, capacity |-> c.capacity]

\* The ring can be allocated, or not.
OpenNew(c) ==
  /\ ~open /\ ~Spent
  /\ \/ /\ ~ValidRuntimeConfig(c)
        /\ answer' = "InvalidConfig"
        /\ UNCHANGED <<open, openedOnce, ring, head>>
     \/ /\ ValidRuntimeConfig(c)
        /\ answer' = "AllocationFailed"
        /\ UNCHANGED <<open, openedOnce, ring, head>>
     \/ /\ ValidRuntimeConfig(c)
        /\ answer' = "Ok"
        /\ open' = TRUE /\ openedOnce' = TRUE
        /\ ring' = RingOf(c)
        /\ head' = 0
  /\ UNCHANGED <<tail, frontier, alive, closed, terminated, dangling>>

Open(c) ==
  /\ ~terminated
  /\ \/ /\ open
        /\ answer' = "AlreadyOpen"
        /\ UNCHANGED <<open, openedOnce, tail, ring, head, frontier, alive, closed,
                       terminated, dangling>>
     \/ ~open /\ Spent /\ Terminate
     \/ OpenNew(c)

(***************************************************************************)
(* close does nothing on a tape that is not open.                          *)
(***************************************************************************)
Close ==
  /\ ~terminated
  /\ closed' = TRUE
  /\ answer' = "None"
  /\ IF open
       THEN /\ open' = FALSE
            /\ tail' = Null
            /\ ring' = [NoRing EXCEPT !.capacity = ring.capacity]
       ELSE UNCHANGED <<open, tail, ring>>
  /\ UNCHANGED <<openedOnce, head, frontier, alive, terminated, dangling>>

-----------------------------------------------------------------------------
(***************************************************************************)
(* The runtime operations look at is_open before anything else, and the    *)
(* fault is not to.  A read of a frontier that is gone ends the model.     *)
(***************************************************************************)
AlwaysUsable == TRUE
Usable == open

TailGone == tail = Null \/ (tail # Own /\ tail \notin alive)
Tail == IF tail = Own THEN head ELSE frontier[tail]

Dangle ==
  /\ dangling' = TRUE
  /\ UNCHANGED <<open, openedOnce, tail, ring, head, frontier, alive, closed, answer, terminated>>

TryPublish ==
  /\ ~terminated /\ ~dangling
  /\ IF ~Usable THEN answer' = "Closed" /\ UNCHANGED <<head, terminated, dangling>>
     ELSE IF TailGone THEN Dangle
     ELSE IF Tail > head \/ head - Tail > ring.capacity THEN Terminate
     ELSE IF head - Tail = ring.capacity THEN answer' = "Full" /\ UNCHANGED <<head, terminated, dangling>>
     ELSE /\ head < MaxHead
          /\ head' = head + 1
          /\ answer' = "Ok"
          /\ UNCHANGED <<terminated, dangling>>
  /\ UNCHANGED <<open, openedOnce, tail, ring, frontier, alive, closed>>

\* Buffer::block_at_slot: where the payload of a slot is in the ring.
BlockAt(slot) == Wrap(slot * ring.stride, SizeMax)

\* try_view and try_write, which differ in what they do with the slot.
Access(position) ==
  /\ ~terminated /\ ~dangling
  /\ IF ~Usable THEN answer' = "Closed" /\ UNCHANGED <<terminated, dangling>>
     ELSE IF TailGone THEN Dangle
     ELSE IF Tail > head THEN Terminate
     ELSE /\ answer' = CASE position < Tail -> "Reclaimed"
                         [] position >= Tail /\ position >= head -> "Unpublished"
                         [] OTHER -> "Ok"
          /\ UNCHANGED <<terminated, dangling>>
  /\ UNCHANGED <<open, openedOnce, tail, ring, head, frontier, alive, closed>>

\* The terminal stage accepts a record of those that are published, and the
\* fault of accepting one more.
OneBeyond(f) == frontier[f] <= head
Available(f) == frontier[f] < head

Advance(f) ==
  /\ ~terminated
  /\ open /\ tail = f /\ f \in alive
  /\ Available(f)
  /\ frontier' = [frontier EXCEPT ![f] = @ + 1]
  /\ UNCHANGED <<open, openedOnce, tail, ring, head, alive, closed, answer, terminated, dangling>>

\* The owner of a frontier is destroyed: one the tape does not refer to at
\* any time, the one it does only after close() has returned.
Destroy(f) ==
  /\ ~terminated
  /\ f \in alive
  /\ tail # f \/ closed
  /\ alive' = alive \ {f}
  /\ UNCHANGED <<open, openedOnce, tail, ring, head, frontier, closed, answer, terminated, dangling>>

Use ==
  \/ \E f \in Frontiers : SetTailRef(f) \/ Advance(f) \/ Destroy(f)
  \/ \E c \in Configs : Open(c)
  \/ TryPublish
  \/ \E position \in 0 .. MaxHead : Access(position)

\* Every owner, and the owner that closes only a tape it has opened.
Next == Use \/ Close
NextOpened == Use \/ (openedOnce /\ Close)

Spec == Init /\ [][Next]_vars
SpecOpened == Init /\ [][NextOpened]_vars

-----------------------------------------------------------------------------
(***************************************************************************)
(* No call reads a frontier through a reference whose owner is gone ("The  *)
(* terminal Frontier owner may be destroyed after `close()` returns",      *)
(* record_tape.hpp:63-64).                                                 *)
(***************************************************************************)
NeverDangling == ~dangling

(***************************************************************************)
(* While a tape is open it has a tail that can be read, not above Head nor *)
(* more than the ring behind it, whatever was called before in whatever    *)
(* order: a tape that could be opened a second time would have none, or    *)
(* one that Head starts below, and one whose tail could be set while it is *)
(* open would take over a frontier that has seen nothing of it.            *)
(***************************************************************************)
BoundariesHold == open => ~TailGone /\ Tail <= head /\ head - Tail <= ring.capacity

(***************************************************************************)
(* Whatever sizes, capacity and alignment open accepts, near the limits of *)
(* size_t or not, the blocks of all slots are inside the allocation, each  *)
(* with room for the whole payload, and none reaches into another.         *)
(***************************************************************************)
SlotsInRing ==
  open => \A slot \in 0 .. ring.capacity - 1 :
            /\ BlockAt(slot) + ring.payload <= ring.size
            /\ \A later \in slot + 1 .. ring.capacity - 1 :
                 BlockAt(slot) + ring.payload <= BlockAt(later)
=============================================================================
