------------------------ MODULE TapeLifecycleProofs -------------------------
(***************************************************************************)
(* Theorems of TapeLifecycle for an owner that closes only a tape it has   *)
(* opened: every number of frontiers, every set of configurations, every   *)
(* width of size_t and every bound on Head.  They rest on the checked      *)
(* arithmetic (CheckedSizes), which is exact whenever its tests pass.      *)
(***************************************************************************)
EXTENDS TapeLifecycle, TLAPS

-----------------------------------------------------------------------------
(***************************************************************************)
(* A number that fits its type does not wrap.                              *)
(***************************************************************************)
LEMMA WrapExact ==
  ASSUME NEW max \in Nat, NEW n \in 0 .. max
  PROVE  Wrap(n, max) = n
BY DEF Wrap

(***************************************************************************)
(* Division with remainder.                                                *)
(***************************************************************************)
LEMMA Remainder ==
  ASSUME NEW n \in Nat, NEW d \in Nat \ {0}
  PROVE  /\ n \div d \in Nat /\ (n \div d) * d \in Nat
         /\ (n \div d) * d <= n /\ n < (n \div d) * d + d
OBVIOUS

LEMMA MultipleDivides ==
  ASSUME NEW q \in Nat, NEW d \in Nat \ {0}
  PROVE  ((q * d) % d) = 0
OBVIOUS

(***************************************************************************)
(* A product is monotonic in each of its factors.                          *)
(***************************************************************************)
LEMMA ProductMonotonic ==
  ASSUME NEW a \in Nat, NEW b \in Nat, NEW c \in Nat, a <= b
  PROVE  a * c <= b * c /\ a * c \in Nat /\ b * c \in Nat
OBVIOUS

(***************************************************************************)
(* checked_align_up, when it succeeds, answers the least multiple of the   *)
(* alignment that is not below the value, and that one fits the type.      *)
(***************************************************************************)
THEOREM AlignUpExact ==
  ASSUME NEW max \in Nat, NEW value \in Nat, NEW alignment \in Nat \ {0},
         AlignFits(value, alignment, max)
  PROVE  /\ AlignUp(value, alignment, max) \in 0 .. max
         /\ (AlignUp(value, alignment, max) % alignment) = 0
         /\ value <= AlignUp(value, alignment, max)
         /\ AlignUp(value, alignment, max) < value + alignment
<1> DEFINE biased == value + (alignment - 1)
           quotient == biased \div alignment
<1>1. biased \in 0 .. max
  BY DEF AlignFits, AddFits
<1>2. AlignUp(value, alignment, max) = quotient * alignment
  BY <1>1, WrapExact DEF AlignUp
<1>3. /\ quotient \in Nat /\ quotient * alignment \in Nat
      /\ quotient * alignment <= biased /\ biased < quotient * alignment + alignment
  BY <1>1, Remainder
<1>4. ((quotient * alignment) % alignment) = 0
  BY <1>3, MultipleDivides
<1> QED BY <1>1, <1>2, <1>3, <1>4

(***************************************************************************)
(* checked_mul, when it succeeds, has a product that fits the type.        *)
(***************************************************************************)
THEOREM MulExact ==
  ASSUME NEW max \in Nat, NEW left \in Nat, NEW right \in Nat, MulFits(left, right, max)
  PROVE  /\ left * right \in 0 .. max
         /\ Wrap(left * right, max) = left * right
<1>1. left * right \in 0 .. max
  <2>1. CASE left = 0
    BY <2>1
  <2>2. CASE left # 0
    <3>1. right <= max \div left
      BY <2>2 DEF MulFits
    <3>2. (max \div left) \in Nat /\ (max \div left) * left <= max
      BY <2>2, Remainder
    <3>3. right * left <= (max \div left) * left /\ right * left \in Nat
      BY <3>1, <3>2, ProductMonotonic
    <3>4. left * right = right * left
      OBVIOUS
    <3> QED BY <3>2, <3>3, <3>4
  <2> QED BY <2>1, <2>2
<1> QED BY <1>1, WrapExact

(***************************************************************************)
(* The ring of a configuration that passes the tests: its stride holds the *)
(* payload, is aligned, and its size is that of `capacity` strides.        *)
(***************************************************************************)
THEOREM StorageExact ==
  ASSUME NEW max \in Nat, NEW config,
         config.payload_size \in Nat, config.capacity \in Nat,
         config.alignment \in Nat \ {0}, StorageFits(config, max)
  PROVE  /\ Stride(config, max) \in 0 .. max
         /\ config.payload_size <= Stride(config, max)
         /\ (Stride(config, max) % config.alignment) = 0
         /\ Stride(config, max) * config.capacity \in 0 .. max
         /\ StorageSize(config, max) = Stride(config, max) * config.capacity
<1>1. /\ Stride(config, max) \in 0 .. max
      /\ config.payload_size <= Stride(config, max)
      /\ (Stride(config, max) % config.alignment) = 0
  BY AlignUpExact DEF StorageFits, Stride
<1>2. MulFits(Stride(config, max), config.capacity, max)
  BY DEF StorageFits
<1> QED BY <1>1, <1>2, MulExact DEF StorageSize

-----------------------------------------------------------------------------
USE LifecycleAssumption

(***************************************************************************)
(* A tape has one lifetime, and until it is closed the frontier it refers  *)
(* to is its own or one that is alive.                                     *)
(***************************************************************************)
LifetimeInv ==
  /\ open => openedOnce /\ ~closed
  /\ closed => openedOnce
  /\ ~closed => tail = Own \/ tail \in alive
  /\ ~dangling

(***************************************************************************)
(* Nothing is published or accepted before open; while the tape is open    *)
(* only the terminal frontier has moved, and its layout is that of a       *)
(* configuration that was found valid.                                     *)
(***************************************************************************)
RingInv ==
  /\ ~openedOnce => head = 0 /\ \A f \in Frontiers : frontier[f] = 0
  /\ open => /\ \A f \in Frontiers : f # tail => frontier[f] = 0
             /\ tail # Own => /\ frontier[tail] <= head
                              /\ head - frontier[tail] <= ring.capacity
             /\ \E c \in Configs : ValidRuntimeConfig(c) /\ ring = RingOf(c)

IInv == TypeOK /\ LifetimeInv /\ RingInv

(***************************************************************************)
(* The ring of a valid configuration: types, and where the blocks are.     *)
(***************************************************************************)
LEMMA ValidRing ==
  ASSUME NEW c \in Configs, ValidRuntimeConfig(c)
  PROVE  /\ RingOf(c) \in [size : 0 .. SizeMax, stride : 0 .. SizeMax, payload : 0 .. SizeMax,
                           capacity : 0 .. SizeMax]
         /\ RingOf(c).capacity \in Nat \ {0}
         /\ RingOf(c).payload <= RingOf(c).stride
         /\ RingOf(c).size = RingOf(c).stride * RingOf(c).capacity
<1>1. /\ c.payload_size \in 0 .. SizeMax /\ c.capacity \in 0 .. SizeMax /\ c.capacity # 0
      /\ c.alignment \in Nat \ {0} /\ StorageFits(c, SizeMax)
  BY DEF ValidRuntimeConfig
<1>2. /\ Stride(c, SizeMax) \in 0 .. SizeMax
      /\ c.payload_size <= Stride(c, SizeMax)
      /\ Stride(c, SizeMax) * c.capacity \in 0 .. SizeMax
      /\ StorageSize(c, SizeMax) = Stride(c, SizeMax) * c.capacity
  <2>1. c.payload_size \in Nat /\ c.capacity \in Nat
    BY <1>1
  <2> QED BY <1>1, <2>1, StorageExact
<1> QED BY <1>1, <1>2 DEF RingOf

(***************************************************************************)
(* The blocks of a ring whose strides fit do not wrap, and are apart.      *)
(***************************************************************************)
LEMMA BlocksApart ==
  ASSUME NEW stride \in Nat, NEW capacity \in Nat, NEW payload \in 0 .. stride,
         stride * capacity <= SizeMax,
         NEW slot \in 0 .. capacity - 1
  PROVE  /\ slot * stride \in 0 .. SizeMax
         /\ slot * stride + payload <= stride * capacity
         /\ \A later \in slot + 1 .. capacity - 1 : slot * stride + payload <= later * stride
<1>1. ASSUME NEW n \in slot + 1 .. capacity
      PROVE  slot * stride + payload <= n * stride /\ n * stride \in Nat
  <2>1. (slot + 1) * stride <= n * stride /\ n * stride \in Nat
    BY ProductMonotonic, slot + 1 \in Nat, n \in Nat
  <2>2. (slot + 1) * stride = slot * stride + stride
    OBVIOUS
  <2>3. slot * stride \in Nat
    OBVIOUS
  <2> QED BY <2>1, <2>2, <2>3
<1>2. capacity * stride = stride * capacity /\ slot * stride \in Nat
  OBVIOUS
<1>3. slot * stride + payload <= stride * capacity
  BY <1>1, <1>2, capacity \in slot + 1 .. capacity
<1> QED BY <1>1, <1>2, <1>3

-----------------------------------------------------------------------------
(***************************************************************************)
(* Every tape begins in the invariant, and every call keeps it.            *)
(***************************************************************************)
LEMMA InitInv == Init => IInv
<1> SUFFICES ASSUME Init PROVE IInv
  OBVIOUS
<1>1. NoRing \in [size : 0 .. SizeMax, stride : 0 .. SizeMax, payload : 0 .. SizeMax,
                  capacity : 0 .. SizeMax]
  BY DEF NoRing
<1>2. 0 \in 0 .. MaxHead
  OBVIOUS
<1>3. frontier \in [Frontiers -> 0 .. MaxHead] /\ head \in 0 .. MaxHead
  BY <1>2 DEF Init
<1>4. TypeOK
  BY <1>1, <1>3 DEF Init, TypeOK, Answers
<1>5. LifetimeInv /\ RingInv
  BY DEF Init, LifetimeInv, RingInv
<1> QED BY <1>4, <1>5 DEF IInv

LEMMA TerminateInv == IInv /\ Terminate => IInv'
BY DEF IInv, TypeOK, LifetimeInv, RingInv, Terminate

LEMMA SetTailRefInv ==
  ASSUME IInv, NEW f \in Frontiers, SetTailRef(f)
  PROVE  IInv'
<1>1. CASE Frozen /\ Terminate
  BY <1>1, TerminateInv
<1>2. CASE ~Frozen
  BY <1>2 DEF IInv, TypeOK, LifetimeInv, RingInv, SetTailRef, Frozen, Answers, Terminate
<1> QED BY <1>1, <1>2 DEF SetTailRef

LEMMA OpenInv ==
  ASSUME IInv, NEW c \in Configs, Open(c)
  PROVE  IInv'
<1>1. CASE open
  BY <1>1 DEF IInv, TypeOK, LifetimeInv, RingInv, Open, OpenNew, Terminate, Answers
<1>2. CASE ~open /\ Spent /\ Terminate
  BY <1>2, TerminateInv
<1>3. CASE OpenNew(c)
  <2>1. CASE answer' \in {"InvalidConfig", "AllocationFailed"} /\ UNCHANGED <<open, openedOnce, ring, head>>
    BY <1>3, <2>1 DEF IInv, TypeOK, LifetimeInv, RingInv, OpenNew, Answers
  <2>2. CASE /\ ValidRuntimeConfig(c) /\ answer' = "Ok" /\ open' /\ openedOnce'
             /\ ring' = RingOf(c) /\ head' = 0
    <3>1. TypeOK'
      BY <1>3, <2>2, ValidRing DEF IInv, TypeOK, OpenNew, Answers
    <3>2. LifetimeInv'
      BY <1>3, <2>2 DEF IInv, TypeOK, LifetimeInv, OpenNew, Spent
    <3>3. \A f \in Frontiers : frontier'[f] = 0
      BY <1>3, <2>2 DEF IInv, RingInv, OpenNew, Spent
    <3>4. tail' # Own => tail' \in Frontiers
      BY <1>3, <2>2 DEF IInv, TypeOK, LifetimeInv, OpenNew, Spent
    <3>5. RingInv'
      BY <2>2, <3>3, <3>4, ValidRing DEF RingInv
    <3> QED BY <3>1, <3>2, <3>5 DEF IInv
  <2> QED BY <1>3, <2>1, <2>2 DEF OpenNew
<1> QED BY <1>1, <1>2, <1>3 DEF Open

LEMMA CloseInv == IInv /\ openedOnce /\ Close => IInv'
<1> SUFFICES ASSUME IInv, openedOnce, Close PROVE IInv'
  OBVIOUS
<1>1. ring' \in [size : 0 .. SizeMax, stride : 0 .. SizeMax, payload : 0 .. SizeMax,
                 capacity : 0 .. SizeMax]
  BY DEF Close, NoRing, IInv, TypeOK
<1>2. tail' \in Frontiers \cup {Own, Null} /\ open' = FALSE
  BY DEF Close, IInv, TypeOK
<1>3. TypeOK'
  BY <1>1, <1>2 DEF Close, IInv, TypeOK, Answers
<1>4. LifetimeInv' /\ RingInv'
  BY <1>2 DEF Close, IInv, LifetimeInv, RingInv
<1> QED BY <1>3, <1>4 DEF IInv

\* A tape that is open has a tail to read.
LEMMA TailThere ==
  ASSUME IInv, open
  PROVE  /\ ~TailGone /\ (tail # Own => tail \in Frontiers)
         /\ Tail \in Nat /\ head \in Nat /\ ring.capacity \in Nat \ {0}
         /\ Tail <= head /\ head - Tail <= ring.capacity
<1>1. tail = Own \/ tail \in alive
  BY DEF IInv, LifetimeInv
<1>2. ring.capacity \in Nat \ {0}
  BY ValidRing DEF IInv, RingInv
<1> QED BY <1>1, <1>2 DEF IInv, TypeOK, RingInv, TailGone, Tail, Null, Own

LEMMA TryPublishInv == IInv /\ TryPublish => IInv'
<1> SUFFICES ASSUME IInv, TryPublish PROVE IInv'
  OBVIOUS
<1>1. CASE ~open
  BY <1>1 DEF IInv, TypeOK, LifetimeInv, RingInv, TryPublish, Usable, Answers
<1>2. CASE open
  <2>1. CASE UNCHANGED <<head, terminated, dangling>> /\ answer' \in Answers
    BY <2>1 DEF IInv, TypeOK, LifetimeInv, RingInv, TryPublish
  <2>2. CASE /\ head < MaxHead /\ head' = head + 1 /\ answer' = "Ok" /\ UNCHANGED <<terminated, dangling>>
             /\ head - Tail # ring.capacity
    <3>1. tail # Own => head' - frontier[tail] <= ring.capacity /\ frontier[tail] <= head'
      BY <1>2, <2>2, TailThere DEF Tail, IInv, TypeOK
    <3> QED BY <1>2, <2>2, <3>1 DEF IInv, TypeOK, LifetimeInv, RingInv, TryPublish, Answers
  <2> QED BY <1>2, <2>1, <2>2, TailThere DEF TryPublish, Usable, Answers
<1> QED BY <1>1, <1>2 DEF IInv, TypeOK

LEMMA AccessInv ==
  ASSUME IInv, NEW position \in 0 .. MaxHead, Access(position)
  PROVE  IInv'
<1>1. answer' \in Answers /\ UNCHANGED <<terminated, dangling>>
  <2>1. CASE ~open
    BY <2>1 DEF Access, Usable, Answers
  <2>2. CASE open
    BY <2>2, TailThere DEF Access, Usable, Answers
  <2> QED BY <2>1, <2>2 DEF IInv, TypeOK
<1> QED BY <1>1 DEF IInv, TypeOK, LifetimeInv, RingInv, Access

LEMMA AdvanceInv ==
  ASSUME IInv, NEW f \in Frontiers, Advance(f)
  PROVE  IInv'
<1>1. /\ open /\ tail = f /\ tail # Own
      /\ frontier[f] \in 0 .. MaxHead /\ head \in 0 .. MaxHead /\ ring.capacity \in Nat
      /\ frontier[f] < head /\ head - frontier[f] <= ring.capacity
  BY TailThere DEF Advance, Available, IInv, TypeOK, RingInv, Own
<1>2. /\ frontier'[f] = frontier[f] + 1
      /\ \A g \in Frontiers : g # f => frontier'[g] = frontier[g]
      /\ frontier' \in [Frontiers -> 0 .. MaxHead]
  BY <1>1 DEF Advance, IInv, TypeOK
<1>3. TypeOK' /\ LifetimeInv'
  BY <1>2 DEF Advance, IInv, TypeOK, LifetimeInv
<1>4. RingInv'
  BY <1>1, <1>2 DEF Advance, IInv, TypeOK, LifetimeInv, RingInv
<1> QED BY <1>3, <1>4 DEF IInv

LEMMA DestroyInv ==
  ASSUME IInv, NEW f \in Frontiers, Destroy(f)
  PROVE  IInv'
BY DEF IInv, TypeOK, LifetimeInv, RingInv, Destroy

LEMMA NextInv == IInv /\ [NextOpened]_vars => IInv'
<1> SUFFICES ASSUME IInv, [NextOpened]_vars PROVE IInv'
  OBVIOUS
<1>1. ASSUME NEW f \in Frontiers, SetTailRef(f) \/ Advance(f) \/ Destroy(f)
      PROVE  IInv'
  BY <1>1, SetTailRefInv, AdvanceInv, DestroyInv
<1>2. ASSUME NEW c \in Configs, Open(c)
      PROVE  IInv'
  BY <1>2, OpenInv
<1>3. CASE TryPublish
  BY <1>3, TryPublishInv
<1>4. ASSUME NEW position \in 0 .. MaxHead, Access(position)
      PROVE  IInv'
  BY <1>4, AccessInv
<1>5. CASE openedOnce /\ Close
  BY <1>5, CloseInv
<1>6. CASE UNCHANGED vars
  BY <1>6 DEF vars, IInv, TypeOK, LifetimeInv, RingInv
<1> QED BY <1>1, <1>2, <1>3, <1>4, <1>5, <1>6 DEF NextOpened, Use

(***************************************************************************)
(* IInv is an invariant of every tape that is closed only once opened.     *)
(***************************************************************************)
THEOREM Invariance == SpecOpened => []IInv
BY InitInv, NextInv, PTL DEF SpecOpened

(***************************************************************************)
(* The type invariant.                                                     *)
(***************************************************************************)
THEOREM TypeCorrect == SpecOpened => []TypeOK
<1>1. IInv => TypeOK
  BY DEF IInv
<1> QED BY <1>1, Invariance, PTL

(***************************************************************************)
(* No call reads a frontier whose owner is gone: while the tape is open    *)
(* its tail is its own or alive, for it can be destroyed only after close, *)
(* and a closed tape is never open again.                                  *)
(***************************************************************************)
THEOREM NoDanglingTail == SpecOpened => []NeverDangling
<1>1. IInv => NeverDangling
  BY DEF IInv, LifetimeInv, NeverDangling
<1> QED BY <1>1, Invariance, PTL

(***************************************************************************)
(* The tail of an open tape is there, never above Head nor more than the   *)
(* ring behind it: it is open once, and no other frontier than the one set *)
(* before open has moved.                                                  *)
(***************************************************************************)
THEOREM Boundaries == SpecOpened => []BoundariesHold
<1>1. IInv => BoundariesHold
  BY TailThere DEF BoundariesHold
<1> QED BY <1>1, Invariance, PTL

(***************************************************************************)
(* The blocks of every accepted configuration are inside the ring and      *)
(* apart, for every width of size_t.                                       *)
(***************************************************************************)
THEOREM SlotsApart == SpecOpened => []SlotsInRing
<1>1. IInv => SlotsInRing
  <2> SUFFICES ASSUME IInv, open,
                      NEW slot \in 0 .. ring.capacity - 1
               PROVE  /\ BlockAt(slot) + ring.payload <= ring.size
                      /\ \A later \in slot + 1 .. ring.capacity - 1 :
                           BlockAt(slot) + ring.payload <= BlockAt(later)
    BY DEF SlotsInRing
  <2>1. /\ ring.stride \in Nat /\ ring.capacity \in Nat /\ ring.payload \in 0 .. ring.stride
        /\ ring.stride * ring.capacity <= SizeMax
        /\ ring.size = ring.stride * ring.capacity
    BY ValidRing DEF IInv, RingInv
  <2>2. ASSUME NEW n \in 0 .. ring.capacity - 1
        PROVE  BlockAt(n) = n * ring.stride
    <3>1. n * ring.stride \in 0 .. SizeMax
      BY <2>1, BlocksApart
    <3> QED BY <3>1, WrapExact DEF BlockAt
  <2> QED BY <2>1, <2>2, BlocksApart
<1> QED BY <1>1, Invariance, PTL
=============================================================================
