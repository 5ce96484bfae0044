---------------------------- MODULE TractProofs -----------------------------
(***************************************************************************)
(* What holds of a tract of any length, capacity and policy.               *)
(*                                                                         *)
(* The argument is about views.  A view a thread holds or a message        *)
(* carries is Coherent: it descends along the chain, and it is not ahead   *)
(* of any frontier.  Joins and releases keep that, and from it every       *)
(* fail-fast test is unreachable and every access ordered: a stage that    *)
(* has read `end` from the stage before has, through it, everything        *)
(* upstream of it, and a producer that has read the tail has everything    *)
(* every stage did to the records before it.                               *)
(***************************************************************************)
EXTENDS Tract, TLAPS

USE TractAssumption
USE DEF Upstream

-----------------------------------------------------------------------------
\* Every location is a thread's, and the chain is contiguous.
LEMMA Chain ==
  /\ Loc \subseteq Int
  /\ Loc \subseteq Thread
  /\ 0 \in Loc
  /\ Tail \in Loc
  /\ \A i \in Stage : i \in Loc /\ i - 1 \in Loc /\ i \in Nat \ {0} /\ i <= Tail
  /\ \A l \in Loc : l >= 0 /\ l <= Tail
BY SMT DEF Loc, Stage, Thread, Tail

\* Joining two coherent views gives a coherent view that is behind neither.
LEMMA JoinCoherent ==
  ASSUME NEW u, NEW v, Coherent(u), Coherent(v), TypeOK
  PROVE  /\ Coherent(Join(u, v))
         /\ \A k \in Loc : Join(u, v)[k] >= u[k] /\ Join(u, v)[k] >= v[k]
<1>1. u \in View /\ v \in View
  BY DEF Coherent
<1>2. Join(u, v) \in View
  BY <1>1, SMT DEF Join, View, Position
<1>3. \A k \in Loc : Join(u, v)[k] = IF u[k] >= v[k] THEN u[k] ELSE v[k]
  BY DEF Join
<1>4. \A k \in Loc : u[k] \in Int /\ v[k] \in Int
  BY <1>1, SMT DEF View, Position
<1>5. \A k \in Loc : Join(u, v)[k] >= u[k] /\ Join(u, v)[k] >= v[k]
  BY <1>3, <1>4, SMT
<1>6. Descending(Join(u, v))
  <2> SUFFICES ASSUME NEW j \in Loc, NEW k \in Loc, j <= k
               PROVE  Join(u, v)[k] <= Join(u, v)[j]
    BY DEF Descending
  <2>1. u[k] <= u[j] /\ v[k] <= v[j]
    BY DEF Coherent, Descending
  <2> QED
    BY <1>3, <1>4, <2>1, SMT
<1>7. \A k \in Loc : Join(u, v)[k] <= Frontier(k)
  BY <1>3 DEF Coherent
<1> QED
  BY <1>2, <1>5, <1>6, <1>7 DEF Coherent

\* So does an acquire load.
LEMMA AcquireCoherent ==
  ASSUME NEW view, Coherent(view), NEW l \in Loc, NEW v \in Acquire(view, l),
         ViewsCoherent, TypeOK
  PROVE  /\ Coherent(v)
         /\ \A k \in Loc : v[k] >= view[k]
<1>1. PICK m \in released[l] : v = Join(view, m)
  BY DEF Acquire, Readable
<1>2. Coherent(m)
  BY <1>1 DEF ViewsCoherent
<1> QED
  BY <1>1, <1>2, JoinCoherent

\* try_view's two loads read a tail that is not beyond head, and neither is
\* behind what the thread already knew.
LEMMA TailThenHeadCoherent ==
  ASSUME NEW t \in Thread, NEW r \in TailThenHead(seen[t]), ViewsCoherent, TypeOK
  PROVE  /\ Coherent(r.view)
         /\ \A k \in Loc : r.view[k] >= seen[t][k]
         /\ r.tail <= r.head
         /\ r.tail <= Frontier(Tail)
         /\ r.head >= seen[t][0]
<1>1. PICK a \in Acquire(seen[t], Tail) : \E b \in Acquire(a, 0) :
        r = [tail |-> a[Tail], head |-> b[0], view |-> b]
  BY DEF TailThenHead
<1>2. PICK b \in Acquire(a, 0) : r = [tail |-> a[Tail], head |-> b[0], view |-> b]
  BY <1>1
<1>3. Coherent(seen[t])
  BY DEF ViewsCoherent
<1>4. Coherent(a) /\ \A k \in Loc : a[k] >= seen[t][k]
  BY <1>1, <1>3, AcquireCoherent, Chain
<1>5. Coherent(b) /\ \A k \in Loc : b[k] >= a[k]
  BY <1>2, <1>4, AcquireCoherent, Chain
<1>6. a[Tail] <= a[0]
  BY <1>4, Chain DEF Coherent, Descending
<1>7. \A k \in Loc : a[k] \in Int /\ b[k] \in Int /\ seen[t][k] \in Int
  BY <1>3, <1>4, <1>5, SMT DEF Coherent, View, Position
<1> QED
  BY <1>2, <1>4, <1>5, <1>6, <1>7, Chain, SMT DEF Coherent

\* A load moves no frontier and keeps every view coherent.
LEMMA LoadStep ==
  ASSUME ViewsCoherent, TypeOK, NEW t \in Thread, NEW v, Coherent(v),
         \A k \in Loc : v[k] >= seen[t][k],
         seen' = [seen EXCEPT ![t] = v], released' = released
  PROVE  /\ seen' \in [Thread -> View]
         /\ ViewsCoherent'
         /\ \A l \in Loc : Frontier(l)' = Frontier(l)
         /\ seen'[t] = v
         /\ \A u \in Thread : u # t => seen'[u] = seen[u]
<1>1. seen \in [Thread -> View] /\ v \in View
  BY DEF TypeOK, Coherent
<1>2. seen'[t] = v /\ \A u \in Thread : u # t => seen'[u] = seen[u]
  BY <1>1
<1>3. \A l \in Loc : Frontier(l)' = Frontier(l)
  <2> SUFFICES ASSUME NEW l \in Loc PROVE seen'[l][l] = seen[l][l]
    BY DEF Frontier
  <2>1. CASE l = t
    <3>1. v[l] >= seen[l][l] /\ v[l] <= seen[l][l]
      BY <2>1 DEF Coherent, Frontier
    <3>2. v[l] \in Int /\ seen[l][l] \in Int
      BY <1>1, <2>1, SMT DEF View, Position
    <3> QED
      BY <3>1, <3>2, <2>1, <1>2, SMT
  <2>2. CASE l # t
    BY <2>2, <1>2, Chain
  <2> QED
    BY <2>1, <2>2
<1>4. \A w : Coherent(w) => Coherent(w)'
  BY <1>3 DEF Coherent, Descending
<1>5. ViewsCoherent'
  <2>1. \A u \in Thread : Coherent(seen'[u])
    BY <1>2 DEF ViewsCoherent
  <2> QED
    BY <2>1, <1>4 DEF ViewsCoherent, Coherent, Descending, Frontier
<1> QED
  BY <1>1, <1>2, <1>3, <1>5

\* A release store by the owner of l raises its frontier to p and no other.
LEMMA ReleaseStep ==
  ASSUME ViewsCoherent, TypeOK, NEW l \in Loc, NEW p \in Position,
         p >= Frontier(l), l # 0 => p <= seen[l][l - 1], Release(l, p)
  PROVE  /\ released' \in [Loc -> SUBSET View]
         /\ seen' \in [Thread -> View]
         /\ ViewsCoherent'
         /\ Frontier(l)' = p
         /\ \A k \in Loc : k # l => seen'[l][k] = seen[l][k]
         /\ \A u \in Thread : u # l => seen'[u] = seen[u]
<1> DEFINE message == [seen[l] EXCEPT ![l] = p]
<1>1. /\ released' = [released EXCEPT ![l] = @ \cup {message}]
      /\ seen' = [seen EXCEPT ![l] = message]
  BY DEF Release
<1>2. seen \in [Thread -> View] /\ released \in [Loc -> SUBSET View] /\ l \in Thread
  BY Chain DEF TypeOK
<1>3. seen[l] \in View /\ Coherent(seen[l])
  BY <1>2 DEF ViewsCoherent
<1>4. /\ message \in View
      /\ message[l] = p
      /\ \A k \in Loc : k # l => message[k] = seen[l][k]
  BY <1>3 DEF View
<1>5. /\ seen'[l] = message
      /\ \A u \in Thread : u # l => seen'[u] = seen[u]
  BY <1>1, <1>2
<1>6. released' \in [Loc -> SUBSET View] /\ seen' \in [Thread -> View]
  BY <1>1, <1>2, <1>4
<1>7. /\ Frontier(l)' = p
      /\ \A k \in Loc : Frontier(k)' >= Frontier(k)
  <2>1. Frontier(l)' = p
    BY <1>4, <1>5 DEF Frontier
  <2>2. \A k \in Loc : k # l => Frontier(k)' = Frontier(k)
    BY <1>5, Chain DEF Frontier
  <2>3. \A k \in Loc : Frontier(k) \in Int
    BY <1>2, Chain, SMT DEF Frontier, View, Position
  <2> QED
    BY <2>1, <2>2, <2>3, SMT
<1>8. Descending(message)
  <2> SUFFICES ASSUME NEW j \in Loc, NEW k \in Loc, j <= k
               PROVE  message[k] <= message[j]
    BY DEF Descending
  <2>1. \A h \in Loc : seen[l][h] \in Int
    BY <1>3, SMT DEF View, Position
  <2>2. p \in Int
    BY SMT DEF Position
  <2>3. CASE k = l /\ j # l
    <3>1. l # 0 /\ l - 1 \in Loc /\ j <= l - 1
      BY <2>3, SMT DEF Loc
    <3>2. seen[l][l - 1] <= seen[l][j]
      BY <3>1, <1>3 DEF Coherent, Descending
    <3> QED
      BY <3>1, <3>2, <2>1, <2>2, <2>3, <1>4, SMT
  <2>4. CASE j = l /\ k # l
    <3>1. seen[l][k] <= seen[l][l]
      BY <2>4, <1>3 DEF Coherent, Descending
    <3> QED
      BY <3>1, <2>1, <2>2, <2>4, <1>4, SMT DEF Frontier
  <2>5. CASE j = l /\ k = l
    BY <2>5, <2>2, <1>4, SMT
  <2>6. CASE j # l /\ k # l
    BY <2>6, <1>3, <1>4 DEF Coherent, Descending
  <2> QED
    BY <2>3, <2>4, <2>5, <2>6
<1>9. \A w : Coherent(w) =>
        w \in View /\ Descending(w) /\ \A k \in Loc : w[k] <= seen'[k][k]
  <2> SUFFICES ASSUME NEW w, Coherent(w), NEW k \in Loc
               PROVE  w[k] <= seen'[k][k]
    BY DEF Coherent
  <2>1. w[k] <= Frontier(k) /\ Frontier(k) <= Frontier(k)'
    BY <1>7 DEF Coherent
  <2>2. w[k] \in Int /\ Frontier(k) \in Int /\ Frontier(k)' \in Int
    BY <1>2, <1>6, Chain, SMT DEF Coherent, Frontier, View, Position
  <2> QED
    BY <2>1, <2>2, SMT DEF Frontier
<1>10. \A k \in Loc : message[k] <= seen'[k][k]
  <2>1. \A k \in Loc : k # l => message[k] <= seen'[k][k]
    BY <1>3, <1>4, <1>9
  <2>2. message[l] <= seen'[l][l]
    BY <1>4, <1>5, SMT DEF Position
  <2> QED
    BY <2>1, <2>2
<1>11. ViewsCoherent'
  <2>1. \A u \in Thread : seen'[u] \in View /\ Descending(seen'[u])
                          /\ \A k \in Loc : seen'[u][k] <= seen'[k][k]
    BY <1>4, <1>5, <1>8, <1>9, <1>10 DEF ViewsCoherent
  <2>2. \A h \in Loc : \A m \in released'[h] :
          m \in View /\ Descending(m) /\ \A k \in Loc : m[k] <= seen'[k][k]
    <3> SUFFICES ASSUME NEW h \in Loc, NEW m \in released'[h]
                 PROVE  m \in View /\ Descending(m) /\ \A k \in Loc : m[k] <= seen'[k][k]
      OBVIOUS
    <3>1. m \in released[h] \/ m = message
      BY <1>1, <1>2
    <3>2. CASE m \in released[h]
      BY <3>2, <1>9 DEF ViewsCoherent
    <3> QED
      BY <3>1, <3>2, <1>4, <1>8, <1>10
  <2> QED
    BY <2>1, <2>2 DEF ViewsCoherent, Coherent, Descending, Frontier
<1> QED
  BY <1>4, <1>5, <1>6, <1>7, <1>11

-----------------------------------------------------------------------------
\* The types IInv gives to the numbers the steps compute with.
LEMMA Numbers ==
  ASSUME TypeOK
  PROVE  /\ \A t \in Thread, l \in Loc : seen[t][l] \in Position
         /\ \A i \in Stage : /\ stage[i].current \in Position /\ stage[i].end \in Position
                             /\ stage[i].pass \in Position /\ stage[i].since \in Position
                             /\ accepted[i] \in Position
                             /\ ReadCount[i] \in Nat \ {0} /\ PublishCount[i] \in Nat \ {0}
         /\ Position \subseteq Nat
         /\ \A p \in Position : p <= MaxPosition
<1>1. Position \subseteq Nat /\ \A p \in Position : p <= MaxPosition
  BY SMT DEF Position
<1>2. \A t \in Thread, l \in Loc : seen[t][l] \in Position
  BY DEF TypeOK, View
<1>3. \A i \in Stage : /\ stage[i].current \in Position /\ stage[i].end \in Position
                       /\ stage[i].pass \in Position /\ stage[i].since \in Position
                       /\ accepted[i] \in Position
  BY DEF TypeOK
<1>4. \A i \in Stage : ReadCount[i] \in Nat \ {0} /\ PublishCount[i] \in Nat \ {0}
  OBVIOUS
<1> QED
  BY <1>1, <1>2, <1>3, <1>4

\* The frontiers never rise along the chain, and stage i's is within its
\* upstream's reach.
LEMMA FrontierChain ==
  ASSUME TypeOK, ViewsCoherent
  PROVE  /\ \A j, k \in Loc : j <= k => Frontier(k) <= Frontier(j)
         /\ \A i \in Stage : seen[i][i - 1] <= Frontier(i - 1)
<1>1. \A j, k \in Loc : j <= k => Frontier(k) <= Frontier(j)
  <2> SUFFICES ASSUME NEW j \in Loc, NEW k \in Loc, j <= k
               PROVE  Frontier(k) <= Frontier(j)
    OBVIOUS
  <2>1. Coherent(seen[k])
    BY Chain DEF ViewsCoherent
  <2>2. seen[k][k] <= seen[k][j] /\ seen[k][j] <= Frontier(j)
    BY <2>1 DEF Coherent, Descending
  <2>3. seen[k][k] \in Int /\ seen[k][j] \in Int /\ Frontier(j) \in Int
    BY Numbers, Chain, SMT DEF Frontier
  <2> QED
    BY <2>2, <2>3, SMT DEF Frontier
<1>2. \A i \in Stage : seen[i][i - 1] <= Frontier(i - 1)
  BY Chain DEF ViewsCoherent, Coherent
<1> QED
  BY <1>1, <1>2

\* A pass ends no later than the range, so all its positions are valid.
LEMMA PassEndInRange ==
  ASSUME NEW i \in Stage, NEW current \in Position, NEW end \in Position, current <= end
  PROVE  PassEnd(i, current, end) \in Position
<1>1. ReadCount[i] \in Nat \ {0}
  OBVIOUS
<1> QED
  BY <1>1, SMT DEF PassEnd, Position

\* A stage's step that leaves the other threads' views alone keeps their
\* invariants.
LEMMA OthersKeep ==
  ASSUME NEW i \in Stage, \A j \in Stage \ {i} : StageInv(j),
         \A j \in Stage \ {i} : stage'[j] = stage[j] /\ accepted'[j] = accepted[j],
         \A u \in Thread : u # i => seen'[u] = seen[u]
  PROVE  \A j \in Stage \ {i} : StageInv(j)'
BY Chain DEF StageInv, Frontier

LEMMA InitInv == Init => IInv
<1> SUFFICES ASSUME Init PROVE IInv
  OBVIOUS
<1>1. 0 \in Position /\ Zero \in View
  BY SMT DEF Position, Zero, View
<1>2. TypeOK
  <2>1. \A i \in Stage : stage[i] = Idle(0)
    BY DEF Init
  <2>2. stage \in [Stage -> [pc : {"idle", "view", "module", "updated", "publish", "flush"},
                             current : Position, end : Position, pass : Position,
                             since : Position]]
    BY <1>1, <2>1, SMT DEF Init, Idle
  <2>3. /\ released \in [Loc -> SUBSET View]
        /\ seen \in [Thread -> View]
        /\ accepted \in [Stage -> Position]
    BY <1>1 DEF Init
  <2>4. slot \in [0 .. Capacity - 1 -> [pos : Position \cup {-1}, by : SUBSET Stage]]
    BY SMT DEF Init
  <2>5. answer \in [Observers -> [pos : Position,
                                 status : {"none", "Ok", "Reclaimed", "Unpublished"}]]
    BY <1>1, SMT DEF Init
  <2> QED
    BY <2>2, <2>3, <2>4, <2>5 DEF Init, TypeOK
<1>3. \A l \in Loc : Zero[l] = 0 /\ Frontier(l) = 0
  BY Chain DEF Init, Zero, Frontier
<1>4. Coherent(Zero)
  BY <1>1, <1>3, SMT DEF Coherent, Descending
<1>5. ViewsCoherent
  BY <1>4 DEF ViewsCoherent, Init
<1>6. \A i \in Stage : StageInv(i)
  <2> SUFFICES ASSUME NEW i \in Stage PROVE StageInv(i)
    OBVIOUS
  <2>1. stage[i] = Idle(0) /\ accepted[i] = 0 /\ seen[i][i - 1] = 0 /\ Frontier(i) = 0
    BY <1>3, Chain DEF Init
  <2>2. PublishCount[i] \in Nat \ {0}
    OBVIOUS
  <2> QED
    BY <2>1, <2>2, SMT DEF StageInv, Idle
<1>7. ProducerInv
  BY <1>3, Chain, SMT DEF ProducerInv, Init
<1> QED
  BY <1>2, <1>5, <1>6, <1>7 DEF IInv, Init

-----------------------------------------------------------------------------
\* The producer reads a tail that is behind Head by at most the capacity.
LEMMA BeginPublishInv ==
  ASSUME IInv, BeginPublish
  PROVE  IInv'
<1> USE DEF IInv
<1>1. PICK view \in LoadTail :
        LET distance == seen[0][0] - view[Tail]
        IN  /\ seen' = [seen EXCEPT ![0] = view]
            /\ terminated' = (distance < 0 \/ distance > Capacity)
            /\ producer' = IF Full(distance) \/ Exhausted(seen[0][0])
                             THEN "idle" ELSE "copy"
  BY DEF BeginPublish
<1>2. 0 \in Thread /\ Coherent(seen[0])
  BY Chain DEF ViewsCoherent
<1>3. Coherent(view) /\ \A k \in Loc : view[k] >= seen[0][k]
  BY <1>1, <1>2, AcquireCoherent, Chain DEF LoadTail
<1>4. UNCHANGED <<released, slot, stage, accepted, answer>>
  BY DEF BeginPublish
<1>5. /\ seen' \in [Thread -> View]
      /\ ViewsCoherent'
      /\ \A l \in Loc : Frontier(l)' = Frontier(l)
      /\ seen'[0] = view
      /\ \A u \in Thread : u # 0 => seen'[u] = seen[u]
  BY <1>1, <1>2, <1>3, <1>4, LoadStep
<1>6. seen'[0][0] = seen[0][0]
  BY <1>5, Chain DEF Frontier
<1>7. view[Tail] \in Position /\ seen[0][0] \in Position /\ seen[0][Tail] \in Position
  BY <1>2, <1>3, Chain, Numbers DEF Coherent, View
<1>8. view[Tail] <= seen[0][0] /\ view[Tail] >= seen[0][Tail]
  <2>1. view[Tail] <= view[0] /\ view[0] <= Frontier(0)
    BY <1>3, Chain DEF Coherent, Descending
  <2>2. view[0] \in Int
    BY <1>3, Chain, SMT DEF Coherent, View, Position
  <2> QED
    BY <2>1, <2>2, <1>3, <1>7, Chain, Numbers, SMT DEF Frontier
<1>9. seen[0][0] - view[Tail] \in 0 .. Capacity
  BY <1>7, <1>8, Numbers, SMT DEF ProducerInv
<1>10. ~terminated'
  <2>1. ~(seen[0][0] - view[Tail] < 0) /\ ~(seen[0][0] - view[Tail] > Capacity)
    BY <1>9, SMT
  <2> QED
    BY <1>1, <2>1, Zenon
<1>11. ProducerInv'
  <2>1. producer' # "idle" =>
          seen[0][0] - view[Tail] # Capacity /\ seen[0][0] # MaxPosition
    BY <1>1, Zenon DEF Full, Exhausted
  <2>2. seen[0][0] <= MaxPosition /\ seen[0][0] \in Int /\ view[Tail] \in Int
    BY <1>7, Numbers, SMT
  <2>3. /\ seen[0][0] - view[Tail] <= Capacity
        /\ producer' # "idle" =>
             seen[0][0] - view[Tail] < Capacity /\ seen[0][0] < MaxPosition
    BY <1>9, <2>1, <2>2, SMT
  <2> QED
    BY <2>3, <1>5, <1>6 DEF ProducerInv
<1>12. TypeOK'
  BY <1>1, <1>4, <1>5, <1>10 DEF TypeOK
<1>13. \A i \in Stage : StageInv(i)'
  <2> SUFFICES ASSUME NEW i \in Stage PROVE StageInv(i)'
    OBVIOUS
  <2>1. i # 0 /\ i \in Thread /\ i \in Loc
    BY Chain, SMT
  <2>2. seen'[i] = seen[i]
    BY <2>1, <1>5
  <2> QED
    BY <2>2, <1>4 DEF StageInv, Frontier
<1> QED
  BY <1>5, <1>10, <1>11, <1>12, <1>13

LEMMA CopyPayloadInv ==
  ASSUME IInv, CopyPayload
  PROVE  IInv'
<1> USE DEF IInv, CopyPayload
<1>1. seen[0][0] \in Position
  BY Chain, Numbers
<1>2. TypeOK'
  BY <1>1 DEF TypeOK
<1>3. ViewsCoherent'
  BY DEF ViewsCoherent, Coherent, Descending, Frontier
<1>4. \A i \in Stage : StageInv(i)'
  BY DEF StageInv, Frontier
<1>5. ProducerInv'
  BY DEF ProducerInv
<1> QED
  BY <1>2, <1>3, <1>4, <1>5

LEMMA PublishHeadInv ==
  ASSUME IInv, PublishHead
  PROVE  IInv'
<1> USE DEF IInv
<1>1. /\ producer = "store" /\ producer' = "idle"
      /\ Release(0, seen[0][0] + 1)
      /\ UNCHANGED <<slot, stage, accepted, answer, terminated>>
  BY DEF PublishHead
<1>2. seen[0][0] \in Position /\ seen[0][Tail] \in Position
  BY Chain, Numbers
<1>3. seen[0][0] < MaxPosition /\ seen[0][0] - seen[0][Tail] < Capacity
  BY <1>1 DEF ProducerInv
<1>4. seen[0][0] + 1 \in Position /\ seen[0][0] + 1 >= Frontier(0)
  BY <1>2, <1>3, SMT DEF Position, Frontier
<1>5. /\ released' \in [Loc -> SUBSET View]
      /\ seen' \in [Thread -> View]
      /\ ViewsCoherent'
      /\ Frontier(0)' = seen[0][0] + 1
      /\ \A k \in Loc : k # 0 => seen'[0][k] = seen[0][k]
      /\ \A u \in Thread : u # 0 => seen'[u] = seen[u]
  BY <1>1, <1>4, Chain, ReleaseStep
<1>6. TypeOK'
  BY <1>1, <1>5 DEF TypeOK
<1>7. \A i \in Stage : StageInv(i)'
  <2> SUFFICES ASSUME NEW i \in Stage PROVE StageInv(i)'
    OBVIOUS
  <2>1. i # 0 /\ i \in Thread
    BY Chain, SMT
  <2> QED
    BY <2>1, <1>1, <1>5 DEF StageInv, Frontier
<1>8. ProducerInv'
  <2>1. CASE Tail = 0
    <3>1. seen'[0][0] - seen'[0][Tail] = 0
      BY <2>1, <1>2, <1>5, Numbers, SMT DEF Frontier
    <3> QED
      BY <3>1, <1>1, SMT DEF ProducerInv
  <2>2. CASE Tail # 0
    BY <2>2, <1>1, <1>2, <1>3, <1>5, Chain, Numbers, SMT DEF ProducerInv, Frontier
  <2> QED
    BY <2>1, <2>2
<1> QED
  BY <1>1, <1>5, <1>6, <1>7, <1>8

-----------------------------------------------------------------------------
\* The state a stage's locals have the type of.
StageState == [pc : {"idle", "view", "module", "updated", "publish", "flush"},
               current : Position, end : Position, pass : Position, since : Position]

\* A load by a stage or an observer, one that leaves the producer, the slots
\* and the other threads alone, keeps what the producer's step needs.
LEMMA ProducerKeeps ==
  ASSUME ProducerInv, producer' = producer, seen'[0] = seen[0]
  PROVE  ProducerInv'
BY DEF ProducerInv

\* The upstream frontier a stage reads is not behind it, and bounds the range.
LEMMA BeginInv ==
  ASSUME IInv, NEW i \in Stage, Begin(i)
  PROVE  IInv'
<1> USE DEF IInv
<1>1. PICK view \in LoadUpstream(i) :
        LET current == seen[i][i]
            end == view[i - 1]
        IN  /\ seen' = [seen EXCEPT ![i] = view]
            /\ terminated' = (end < current)
            /\ stage' = [stage EXCEPT ![i] =
                  IF end <= current THEN Idle(current)
                  ELSE [pc |-> "view", current |-> current, end |-> end,
                        pass |-> PassEnd(i, current, end), since |-> 0]]
  BY DEF Begin
<1>2. UNCHANGED <<released, slot, producer, accepted, answer>> /\ stage[i].pc = "idle"
  BY DEF Begin
<1>3. i \in Thread /\ i \in Loc /\ i - 1 \in Loc /\ i # 0 /\ i - 1 <= i
  BY Chain, SMT
<1>4. Coherent(seen[i])
  BY <1>3 DEF ViewsCoherent
<1>5. Coherent(view) /\ \A k \in Loc : view[k] >= seen[i][k]
  BY <1>1, <1>3, <1>4, AcquireCoherent DEF LoadUpstream
<1>6. /\ seen' \in [Thread -> View]
      /\ ViewsCoherent'
      /\ \A l \in Loc : Frontier(l)' = Frontier(l)
      /\ seen'[i] = view
      /\ \A u \in Thread : u # i => seen'[u] = seen[u]
  BY <1>1, <1>2, <1>3, <1>5, LoadStep
<1> DEFINE current == seen[i][i]
           end == view[i - 1]
<1>7. current \in Position /\ end \in Position /\ current \in Nat /\ end \in Nat
  BY <1>3, <1>5, Numbers DEF Coherent, View
<1>8. current <= end
  <2>1. view[i] <= view[i - 1] /\ view[i] >= seen[i][i]
    BY <1>3, <1>5 DEF Coherent, Descending
  <2>2. view[i] \in Int
    BY <1>3, <1>5, SMT DEF Coherent, View, Position
  <2> QED
    BY <2>1, <2>2, <1>7, SMT
<1>9. terminated' = FALSE
  <2>1. ~(end < current)
    BY <1>7, <1>8, SMT
  <2>2. terminated' = (end < current)
    BY <1>1
  <2>5. (end < current) = FALSE
    BY <2>1, SMT
  <2> QED
    BY <2>2, <2>5, Zenon
<1>10. stage'[i] = IF end <= current THEN Idle(current)
                   ELSE [pc |-> "view", current |-> current, end |-> end,
                         pass |-> PassEnd(i, current, end), since |-> 0]
  BY <1>1 DEF TypeOK
<1>11. stage' \in [Stage -> StageState]
  <2>1. PassEnd(i, current, end) \in Position /\ 0 \in Position
    BY <1>7, <1>8, PassEndInRange, SMT DEF Position
  <2>2. stage'[i] \in StageState
    BY <1>7, <1>10, <2>1 DEF Idle, StageState
  <2> QED
    BY <1>1, <2>2 DEF TypeOK, StageState
<1>12. TypeOK'
  BY <1>2, <1>6, <1>9, <1>11 DEF TypeOK, StageState
<1>13. StageInv(i)'
  <2>1. /\ accepted[i] = stage[i].current /\ stage[i].since = 0
        /\ stage[i].since = stage[i].current - current
        /\ stage[i].current \in Nat /\ PublishCount[i] \in Nat \ {0}
    BY <1>2, <1>3, Numbers, SMT DEF StageInv, Frontier
  <2>2. accepted'[i] = current /\ Frontier(i)' = current /\ seen'[i][i - 1] = end
    BY <2>1, <1>2, <1>3, <1>6, <1>7, SMT DEF Frontier
  <2>3. CASE end <= current
    BY <2>1, <2>2, <2>3, <1>7, <1>8, <1>10, SMT DEF StageInv, Idle
  <2>4. CASE ~(end <= current)
    BY <2>1, <2>2, <2>4, <1>7, <1>8, <1>10, SMT DEF StageInv
  <2> QED
    BY <2>3, <2>4
<1>14. \A j \in Stage \ {i} : StageInv(j)'
  BY <1>1, <1>2, <1>6, OthersKeep DEF TypeOK
<1>15. ProducerInv'
  BY <1>2, <1>3, <1>6, Chain, ProducerKeeps
<1> QED
  BY <1>6, <1>9, <1>12, <1>13, <1>14, <1>15

\* The position a stage asks for is retained: it is at or past the terminal
\* frontier, and below the upstream frontier the stage has seen.
LEMMA CurrentRetained ==
  ASSUME IInv, NEW i \in Stage, stage[i].pc \in {"view", "module", "updated"},
         NEW r \in TailThenHead(seen[i])
  PROVE  Retained(r, stage[i].current) /\ ~(r.tail > r.head)
<1> USE DEF IInv
<1>1. i \in Thread /\ i \in Loc /\ i - 1 \in Loc /\ 0 \in Loc /\ 0 <= i - 1 /\ i <= Tail
      /\ Tail \in Loc
  BY Chain, SMT
<1>2. /\ r.tail <= r.head
      /\ r.tail <= Frontier(Tail)
      /\ r.head >= seen[i][0]
  BY <1>1, TailThenHeadCoherent
<1>3. r.tail \in Int /\ r.head \in Int
  <2>1. PICK a \in Acquire(seen[i], Tail) : \E b \in Acquire(a, 0) :
          r = [tail |-> a[Tail], head |-> b[0], view |-> b]
    BY DEF TailThenHead
  <2>2. PICK b \in Acquire(a, 0) : r = [tail |-> a[Tail], head |-> b[0], view |-> b]
    BY <2>1
  <2>3. Coherent(a)
    BY <1>1, <2>1, AcquireCoherent DEF ViewsCoherent
  <2>4. Coherent(b)
    BY <1>1, <2>2, <2>3, AcquireCoherent
  <2> QED
    BY <1>1, <2>2, <2>3, <2>4, SMT DEF Coherent, View, Position
<1>4. Frontier(Tail) <= Frontier(i) /\ seen[i][i - 1] <= seen[i][0]
  BY <1>1, FrontierChain DEF ViewsCoherent, Coherent, Descending
<1>5. /\ Frontier(Tail) \in Nat /\ Frontier(i) \in Nat
      /\ seen[i][i - 1] \in Nat /\ seen[i][0] \in Nat
      /\ stage[i].current \in Nat /\ stage[i].since \in Nat /\ stage[i].end \in Nat
  BY <1>1, Numbers, Chain DEF Frontier
<1>6. /\ Frontier(i) <= stage[i].current
      /\ stage[i].current < stage[i].end /\ stage[i].end <= seen[i][i - 1]
  BY <1>5, SMT DEF StageInv
<1>7. Retained(r, stage[i].current)
  BY <1>2, <1>3, <1>4, <1>5, <1>6, SMT DEF Retained
<1>8. ~(r.tail > r.head)
  BY <1>2, <1>3, SMT
<1> QED
  BY <1>7, <1>8

\* A try_view or try_write by a stage moves its view and its pc; the call's
\* range and count stay what they were.
LEMMA LookupKeeps ==
  ASSUME IInv, NEW i \in Stage, NEW r \in TailThenHead(seen[i]), NEW pc,
         pc \in {"module", "updated"}, stage[i].pc \in {"view", "module"},
         seen' = [seen EXCEPT ![i] = r.view],
         stage' = [stage EXCEPT ![i].pc = pc],
         UNCHANGED <<released, producer, accepted>>
  PROVE  /\ seen' \in [Thread -> View]
         /\ stage' \in [Stage -> StageState]
         /\ ViewsCoherent' /\ ProducerInv' /\ \A j \in Stage : StageInv(j)'
<1> USE DEF IInv
<1>1. i \in Thread /\ i \in Loc /\ i - 1 \in Loc /\ i # 0
  BY Chain, SMT
<1>2. Coherent(r.view) /\ \A k \in Loc : r.view[k] >= seen[i][k]
  BY <1>1, TailThenHeadCoherent
<1>3. /\ seen' \in [Thread -> View]
      /\ ViewsCoherent'
      /\ \A l \in Loc : Frontier(l)' = Frontier(l)
      /\ seen'[i] = r.view
      /\ \A u \in Thread : u # i => seen'[u] = seen[u]
  BY <1>1, <1>2, LoadStep
<1>4. stage \in [Stage -> StageState] /\ stage[i] \in StageState
  BY DEF TypeOK, StageState
<1>5. /\ stage'[i] = [stage[i] EXCEPT !.pc = pc]
      /\ \A j \in Stage \ {i} : stage'[j] = stage[j]
  BY <1>4
<1>6. stage'[i] \in StageState
  BY <1>4, <1>5 DEF StageState
<1>7. stage' \in [Stage -> StageState]
  BY <1>4, <1>6
<1>8. /\ stage'[i].pc = pc
      /\ stage'[i].current = stage[i].current /\ stage'[i].end = stage[i].end
      /\ stage'[i].since = stage[i].since
  BY <1>4, <1>5 DEF StageState
<1>9. StageInv(i)'
  <2>1. /\ seen[i][i - 1] \in Int /\ seen'[i][i - 1] \in Int
        /\ seen'[i][i - 1] >= seen[i][i - 1] /\ stage[i].end \in Int
    BY <1>1, <1>2, <1>3, Numbers, SMT DEF Coherent, View, Position
  <2>2. stage'[i].end <= seen'[i][i - 1]
    BY <2>1, <1>8, SMT DEF StageInv
  <2> QED
    BY <2>2, <1>1, <1>3, <1>8 DEF StageInv
<1>10. \A j \in Stage \ {i} : StageInv(j)'
  BY <1>3, <1>5, OthersKeep
<1>11. ProducerInv'
  BY <1>1, <1>3, Chain, ProducerKeeps
<1> QED
  BY <1>3, <1>7, <1>9, <1>10, <1>11

LEMMA ViewRecordInv ==
  ASSUME IInv, NEW i \in Stage, ViewRecord(i)
  PROVE  IInv'
<1> USE DEF IInv
<1>1. PICK r \in TailThenHead(seen[i]) :
        /\ seen' = [seen EXCEPT ![i] = r.view]
        /\ terminated' = ~Retained(r, stage[i].current)
  BY DEF ViewRecord
<1>2. /\ stage[i].pc = "view"
      /\ stage' = [stage EXCEPT ![i].pc = "module"]
      /\ UNCHANGED <<released, slot, producer, accepted, answer>>
  BY DEF ViewRecord
<1>3. terminated' = FALSE
  BY <1>1, <1>2, CurrentRetained, Zenon
<1>4. /\ seen' \in [Thread -> View]
      /\ stage' \in [Stage -> StageState]
      /\ ViewsCoherent' /\ ProducerInv' /\ \A j \in Stage : StageInv(j)'
  BY <1>1, <1>2, LookupKeeps
<1>5. TypeOK'
  BY <1>2, <1>3, <1>4 DEF TypeOK, StageState
<1> QED
  BY <1>3, <1>4, <1>5

LEMMA UpdateRecordInv ==
  ASSUME IInv, NEW i \in Stage, UpdateRecord(i)
  PROVE  IInv'
<1> USE DEF IInv
<1>1. PICK r \in TailThenHead(seen[i]) :
        /\ seen' = [seen EXCEPT ![i] = r.view]
        /\ terminated' = (r.tail > r.head)
        /\ slot' = IF Retained(r, stage[i].current)
                     THEN [slot EXCEPT ![SlotOf(stage[i].current)].by = @ \cup {i}]
                     ELSE slot
  BY DEF UpdateRecord
<1>2. /\ stage[i].pc = "module"
      /\ stage' = [stage EXCEPT ![i].pc = "updated"]
      /\ UNCHANGED <<released, producer, accepted, answer>>
  BY DEF UpdateRecord
<1>3. terminated' = FALSE
  <2>1. ~(r.tail > r.head)
    BY <1>2, CurrentRetained
  <2>2. terminated' = (r.tail > r.head)
    BY <1>1
  <2>5. (r.tail > r.head) = FALSE
    BY <2>1, SMT
  <2> QED
    BY <2>2, <2>5, Zenon
<1>4. /\ seen' \in [Thread -> View]
      /\ stage' \in [Stage -> StageState]
      /\ ViewsCoherent' /\ ProducerInv' /\ \A j \in Stage : StageInv(j)'
  BY <1>1, <1>2, LookupKeeps
<1>5. slot' \in [0 .. Capacity - 1 -> [pos : Position \cup {-1}, by : SUBSET Stage]]
  <2> DEFINE k == SlotOf(stage[i].current)
             Slots == [0 .. Capacity - 1 -> [pos : Position \cup {-1}, by : SUBSET Stage]]
  <2>1. slot \in Slots
    BY DEF TypeOK
  <2>2. CASE slot' = slot
    BY <2>1, <2>2
  <2>3. CASE slot' = [slot EXCEPT ![k].by = @ \cup {i}]
    <3>1. \A h \in 0 .. Capacity - 1 :
            slot[h] \in [pos : Position \cup {-1}, by : SUBSET Stage]
      BY <2>1
    <3>2. \A h \in 0 .. Capacity - 1 :
            [slot[h] EXCEPT !.by = @ \cup {i}] \in [pos : Position \cup {-1}, by : SUBSET Stage]
      BY <3>1
    <3>3. slot' = [h \in 0 .. Capacity - 1 |->
                     IF h = k THEN [slot[h] EXCEPT !.by = @ \cup {i}] ELSE slot[h]]
      BY <2>1, <2>3
    <3> QED
      BY <3>1, <3>2, <3>3
  <2> QED
    BY <1>1, <2>2, <2>3
<1>6. TypeOK'
  BY <1>2, <1>3, <1>4, <1>5 DEF TypeOK, StageState
<1> QED
  BY <1>3, <1>4, <1>6

\* Accepting a record counts it; a count that reaches publish_count, or the
\* end of the range, is published before anything else happens.
LEMMA ModuleOkInv ==
  ASSUME IInv, NEW i \in Stage, ModuleOk(i)
  PROVE  IInv'
<1> USE DEF IInv
<1> DEFINE s == stage[i]
           next == s.current + 1
           due == PublishDue(i, s.since + 1, next = s.end)
           pass == IF next = s.pass THEN PassEnd(i, next, s.end) ELSE s.pass
<1>1. /\ s.pc \in {"module", "updated"}
      /\ stage' = [stage EXCEPT ![i] =
           [s EXCEPT !.pc = IF due THEN "publish" ELSE "view",
                     !.current = next, !.pass = pass, !.since = s.since + 1]]
      /\ accepted' = [accepted EXCEPT ![i] = next]
      /\ UNCHANGED <<released, seen, slot, producer, answer, terminated>>
  BY DEF ModuleOk, Answering
<1>2. /\ s \in StageState /\ stage \in [Stage -> StageState]
      /\ accepted \in [Stage -> Position]
  BY DEF TypeOK, StageState
<1>3. /\ s.current < s.end /\ s.since < PublishCount[i]
      /\ s.since = s.current - Frontier(i) /\ s.end <= seen[i][i - 1]
  BY <1>1 DEF StageInv
<1>4. /\ s.current \in Nat /\ s.end \in Nat /\ s.since \in Nat /\ s.end <= MaxPosition
      /\ PublishCount[i] \in Nat /\ Frontier(i) \in Nat
  BY Chain, Numbers, SMT DEF Frontier
<1>5. next \in Position /\ s.since + 1 \in Position /\ next <= s.end
  BY <1>3, <1>4, SMT DEF Position
<1>6. pass \in Position
  BY <1>2, <1>5, PassEndInRange DEF StageState
<1>7. stage'[i] = [s EXCEPT !.pc = IF due THEN "publish" ELSE "view",
                            !.current = next, !.pass = pass, !.since = s.since + 1]
      /\ \A j \in Stage \ {i} : stage'[j] = stage[j]
  BY <1>1, <1>2
<1>8. /\ stage'[i].pc = IF due THEN "publish" ELSE "view"
      /\ stage'[i].current = next /\ stage'[i].end = s.end
      /\ stage'[i].since = s.since + 1
  BY <1>2, <1>7 DEF StageState
<1>9. stage'[i] \in StageState
  BY <1>2, <1>5, <1>6, <1>7 DEF StageState
<1>10. TypeOK'
  <2>1. stage' \in [Stage -> StageState]
    BY <1>1, <1>2, <1>9
  <2>2. accepted' \in [Stage -> Position]
    BY <1>1, <1>2, <1>5
  <2> QED
    BY <2>1, <2>2, <1>1 DEF TypeOK, StageState
<1>11. StageInv(i)'
  <2>1. accepted'[i] = next /\ Frontier(i)' = Frontier(i) /\ seen' = seen
    BY <1>1, <1>2 DEF Frontier
  <2>2. ~due => next # s.end /\ s.since + 1 # PublishCount[i]
    BY Zenon DEF PublishDue
  <2>3. stage'[i].pc = "view" => ~due
    BY <1>8
  <2>4. stage'[i].pc = "view" => next < s.end /\ s.since + 1 < PublishCount[i]
    BY <2>2, <2>3, <1>3, <1>4, SMT
  <2>5. stage'[i].pc \in {"publish", "view"}
    BY <1>8
  <2>6. s.since + 1 = next - Frontier(i) /\ s.since + 1 <= PublishCount[i]
    BY <1>3, <1>4, SMT
  <2> QED
    BY <2>1, <2>4, <2>5, <2>6, <1>3, <1>5, <1>8 DEF StageInv
<1>12. \A j \in Stage \ {i} : StageInv(j)'
  BY <1>1, <1>2, <1>7, OthersKeep
<1>13. ViewsCoherent' /\ ProducerInv'
  BY <1>1 DEF ViewsCoherent, Coherent, Descending, Frontier, ProducerInv
<1> QED
  BY <1>1, <1>10, <1>11, <1>12, <1>13

LEMMA ModuleFailInv ==
  ASSUME IInv, NEW i \in Stage, ModuleFail(i)
  PROVE  IInv'
<1> USE DEF IInv
<1>1. /\ stage' = [stage EXCEPT ![i] = FlushOnFailure(stage[i])]
      /\ stage[i].pc \in {"module", "updated"}
      /\ UNCHANGED <<released, seen, slot, producer, accepted, answer, terminated>>
  BY DEF ModuleFail, Answering
<1>2. stage[i] \in StageState /\ stage \in [Stage -> StageState]
  BY DEF TypeOK, StageState
<1>3. /\ stage'[i] = FlushOnFailure(stage[i])
      /\ \A j \in Stage \ {i} : stage'[j] = stage[j]
  BY <1>1, <1>2
<1>4. 0 \in Position
  BY SMT DEF Position
<1>5. stage'[i] \in StageState
  BY <1>2, <1>3, <1>4 DEF FlushOnFailure, Idle, StageState
<1>6. TypeOK'
  <2>1. stage' \in [Stage -> StageState]
    BY <1>1, <1>2, <1>5
  <2> QED
    BY <2>1, <1>1 DEF TypeOK, StageState
<1>7. StageInv(i)'
  <2>1. /\ accepted'[i] = accepted[i] /\ Frontier(i)' = Frontier(i)
        /\ seen'[i][i - 1] = seen[i][i - 1]
    BY <1>1 DEF Frontier
  <2>2. CASE stage[i].since = 0
    <3>1. stage'[i] = Idle(stage[i].current)
      BY <2>2, <1>3 DEF FlushOnFailure
    <3>2. /\ stage[i].current \in Nat /\ stage[i].end \in Nat /\ seen[i][i - 1] \in Nat
          /\ PublishCount[i] \in Nat /\ Frontier(i) \in Nat
      BY Chain, Numbers DEF Frontier
    <3>3. /\ stage[i].current <= seen[i][i - 1] /\ 0 = stage[i].current - Frontier(i)
          /\ accepted[i] = stage[i].current
      BY <2>2, <3>2, SMT DEF StageInv
    <3>4. /\ stage'[i].pc = "idle" /\ stage'[i].current = stage[i].current
          /\ stage'[i].end = stage[i].current /\ stage'[i].since = 0
      BY <3>1 DEF Idle
    <3> QED
      BY <2>1, <3>2, <3>3, <3>4, SMT DEF StageInv
  <2>3. CASE stage[i].since # 0
    <3>1. /\ stage'[i].pc = "flush" /\ stage'[i].current = stage[i].current
          /\ stage'[i].end = stage[i].end /\ stage'[i].since = stage[i].since
      BY <2>3, <1>2, <1>3 DEF FlushOnFailure, StageState
    <3> QED
      BY <2>1, <3>1 DEF StageInv
  <2> QED
    BY <2>2, <2>3
<1>8. \A j \in Stage \ {i} : StageInv(j)'
  BY <1>1, <1>3, OthersKeep
<1>9. ViewsCoherent' /\ ProducerInv'
  BY <1>1 DEF ViewsCoherent, Coherent, Descending, Frontier, ProducerInv
<1> QED
  BY <1>1, <1>6, <1>7, <1>8, <1>9

LEMMA PublishFrontierInv ==
  ASSUME IInv, NEW i \in Stage, PublishFrontier(i)
  PROVE  IInv'
<1> USE DEF IInv
<1> DEFINE s == stage[i]
           ends == s.pc = "flush" \/ s.current = s.end
<1>1. /\ s.pc \in {"publish", "flush"}
      /\ Release(i, s.current)
      /\ stage' = [stage EXCEPT ![i] =
           IF ends THEN Idle(s.current) ELSE [s EXCEPT !.pc = "view", !.since = 0]]
      /\ UNCHANGED <<slot, producer, accepted, answer, terminated>>
  BY DEF PublishFrontier
<1>2. i \in Thread /\ i \in Loc /\ i - 1 \in Loc /\ i # 0 /\ i - 1 # i
  BY Chain, SMT
<1>3. s \in StageState /\ stage \in [Stage -> StageState]
  BY DEF TypeOK, StageState
<1>4. /\ s.current \in Nat /\ s.end \in Nat /\ s.since \in Nat /\ seen[i][i - 1] \in Nat
      /\ PublishCount[i] \in Nat \ {0} /\ Frontier(i) \in Nat /\ s.current \in Position
  BY <1>2, Numbers DEF Frontier
<1>5. /\ s.current >= Frontier(i) /\ s.current <= seen[i][i - 1]
      /\ s.current <= s.end /\ s.end <= seen[i][i - 1] /\ accepted[i] = s.current
  BY <1>4, SMT DEF StageInv
<1>6. /\ released' \in [Loc -> SUBSET View]
      /\ seen' \in [Thread -> View]
      /\ ViewsCoherent'
      /\ Frontier(i)' = s.current
      /\ \A k \in Loc : k # i => seen'[i][k] = seen[i][k]
      /\ \A u \in Thread : u # i => seen'[u] = seen[u]
  BY <1>1, <1>2, <1>4, <1>5, ReleaseStep
<1>7. /\ stage'[i] = IF ends THEN Idle(s.current) ELSE [s EXCEPT !.pc = "view", !.since = 0]
      /\ \A j \in Stage \ {i} : stage'[j] = stage[j]
  BY <1>1, <1>3
<1>8. stage'[i] \in StageState
  <2>1. 0 \in Position
    BY SMT DEF Position
  <2>2. CASE ends
    BY <2>1, <2>2, <1>4, <1>7 DEF Idle, StageState
  <2>3. CASE ~ends
    BY <2>1, <2>3, <1>3, <1>7 DEF StageState
  <2> QED
    BY <2>2, <2>3
<1>9. TypeOK'
  <2>1. stage' \in [Stage -> StageState]
    BY <1>1, <1>3, <1>8
  <2> QED
    BY <2>1, <1>1, <1>6 DEF TypeOK, StageState
<1>10. StageInv(i)'
  <2>1. /\ accepted'[i] = s.current /\ Frontier(i)' = s.current
        /\ seen'[i][i - 1] = seen[i][i - 1]
    BY <1>1, <1>2, <1>5, <1>6
  <2>2. CASE ends
    <3>1. /\ stage'[i].pc = "idle" /\ stage'[i].current = s.current
          /\ stage'[i].end = s.current /\ stage'[i].since = 0
      BY <2>2, <1>7 DEF Idle
    <3> QED
      BY <2>1, <3>1, <1>4, <1>5, SMT DEF StageInv
  <2>3. CASE ~ends
    <3>1. /\ stage'[i].pc = "view" /\ stage'[i].current = s.current
          /\ stage'[i].end = s.end /\ stage'[i].since = 0
      BY <2>3, <1>3, <1>7 DEF StageState
    <3>2. s.current < s.end
      BY <2>3, <1>4, <1>5, SMT
    <3> QED
      BY <2>1, <3>1, <3>2, <1>4, <1>5, SMT DEF StageInv
  <2> QED
    BY <2>2, <2>3
<1>11. \A j \in Stage \ {i} : StageInv(j)'
  BY <1>1, <1>6, <1>7, OthersKeep
<1>12. ProducerInv'
  <2>1. /\ seen'[0] = seen[0] /\ producer' = producer
    BY <1>1, <1>2, <1>6, Chain
  <2> QED
    BY <2>1, ProducerKeeps
<1> QED
  BY <1>1, <1>6, <1>9, <1>10, <1>11, <1>12

\* An observer's loads are coherent too, so its tail is never beyond its head.
LEMMA ObserveInv ==
  ASSUME IInv, NEW o \in Observers, Observe(o)
  PROVE  IInv'
<1> USE DEF IInv
<1>1. PICK p \in 0 .. MaxPosition - 1, r \in TailThenHead(seen[o]) :
        /\ seen' = [seen EXCEPT ![o] = r.view]
        /\ answer' = [answer EXCEPT ![o] = [pos |-> p, status |-> ViewStatus(r, p)]]
        /\ terminated' = (r.tail > r.head)
  BY DEF Observe
<1>2. UNCHANGED <<released, slot, producer, stage, accepted>>
  BY DEF Observe
<1>3. o \in Thread /\ o \notin Loc
  BY DEF Thread
<1>4. Coherent(r.view) /\ \A k \in Loc : r.view[k] >= seen[o][k]
  BY <1>1, <1>3, TailThenHeadCoherent
<1>5. /\ seen' \in [Thread -> View]
      /\ ViewsCoherent'
      /\ \A u \in Thread : u # o => seen'[u] = seen[u]
  BY <1>1, <1>2, <1>3, <1>4, LoadStep
<1>6. terminated' = FALSE
  <2>1. r.tail <= r.head
    BY <1>1, <1>3, TailThenHeadCoherent
  <2>2. r.tail \in Int /\ r.head \in Int
    <3>1. PICK a \in Acquire(seen[o], Tail) : \E b \in Acquire(a, 0) :
            r = [tail |-> a[Tail], head |-> b[0], view |-> b]
      BY DEF TailThenHead
    <3>2. PICK b \in Acquire(a, 0) : r = [tail |-> a[Tail], head |-> b[0], view |-> b]
      BY <3>1
    <3>3. Coherent(a)
      BY <1>3, <3>1, AcquireCoherent, Chain DEF ViewsCoherent
    <3>4. Coherent(b)
      BY <3>2, <3>3, AcquireCoherent, Chain
    <3> QED
      BY <3>2, <3>3, <3>4, Chain, SMT DEF Coherent, View, Position
  <2>3. ~(r.tail > r.head)
    BY <2>1, <2>2, SMT
  <2>4. terminated' = (r.tail > r.head)
    BY <1>1
  <2>5. (r.tail > r.head) = FALSE
    BY <2>3, SMT
  <2> QED
    BY <2>4, <2>5, Zenon
<1>7. answer' \in [Observers -> [pos : Position,
                                 status : {"none", "Ok", "Reclaimed", "Unpublished"}]]
  <2>1. p \in Position
    BY SMT DEF Position
  <2>2. ViewStatus(r, p) \in {"Ok", "Reclaimed", "Unpublished"}
    BY DEF ViewStatus
  <2> QED
    BY <2>1, <2>2, <1>1 DEF TypeOK
<1>8. TypeOK'
  BY <1>2, <1>5, <1>6, <1>7 DEF TypeOK
<1>9. \A i \in Stage : StageInv(i)'
  <2> SUFFICES ASSUME NEW i \in Stage PROVE StageInv(i)'
    OBVIOUS
  <2>1. i # o /\ i \in Thread
    BY <1>3, Chain
  <2> QED
    BY <2>1, <1>2, <1>5 DEF StageInv, Frontier
<1>10. ProducerInv'
  BY <1>2, <1>3, <1>5, Chain, ProducerKeeps
<1> QED
  BY <1>5, <1>6, <1>8, <1>9, <1>10

-----------------------------------------------------------------------------
LEMMA NextInv == IInv /\ [Next]_vars => IInv'
<1> SUFFICES ASSUME IInv, [Next]_vars PROVE IInv'
  OBVIOUS
<1>1. CASE BeginPublish
  BY <1>1, BeginPublishInv
<1>2. CASE CopyPayload
  BY <1>2, CopyPayloadInv
<1>3. CASE PublishHead
  BY <1>3, PublishHeadInv
<1>4. ASSUME NEW i \in Stage, Process(i) PROVE IInv'
  BY <1>4, BeginInv, ViewRecordInv, UpdateRecordInv, ModuleOkInv, ModuleFailInv,
     PublishFrontierInv DEF Process
<1>5. ASSUME NEW o \in Observers, Observe(o) PROVE IInv'
  BY <1>5, ObserveInv
<1>6. CASE UNCHANGED vars
  BY <1>6 DEF vars, IInv, TypeOK, ViewsCoherent, Coherent, Descending, Frontier,
              StageInv, ProducerInv
<1> QED
  BY <1>1, <1>2, <1>3, <1>4, <1>5, <1>6 DEF Next, Produce

\* The invariant holds throughout.
THEOREM Invariance == Spec => []IInv
<1> QED
  BY InitInv, NextInv, PTL DEF Spec

(***************************************************************************)
(* Every variable keeps its type; the position counter does not wrap       *)
(* (RecordTape::try_publish stops at numeric_limits<Position>::max()).     *)
(***************************************************************************)
THEOREM TypeCorrect == Spec => []TypeOK
<1>1. IInv => TypeOK
  BY DEF IInv
<1> QED
  BY <1>1, Invariance, PTL

(***************************************************************************)
(* No std::terminate of try_publish, try_view, try_write or                *)
(* Slider::process is reachable in a correctly wired tract, whatever its   *)
(* threads interleave and however stale their loads are.                   *)
(***************************************************************************)
THEOREM FailFastUnreachable == Spec => []NeverTerminates
<1>1. IInv => NeverTerminates
  BY DEF IInv, NeverTerminates
<1> QED
  BY <1>1, Invariance, PTL

(***************************************************************************)
(* Every conflicting pair of accesses to a slot is ordered: release and    *)
(* acquire on the frontiers alone are enough (doc/INVARIANTS.md, "No       *)
(* seq_cst operation is required").                                        *)
(***************************************************************************)
THEOREM NoDataRace == Spec => []DataRaceFree
<1>1. ASSUME IInv PROVE DataRaceFree
  <2> USE <1>1 DEF IInv
  <2>1. ASSUME NEW i \in Stage, Touching(i), NEW j \in 0 .. i - 1
        PROVE  seen[i][j] > stage[i].current
    <3>1. i \in Loc /\ i - 1 \in Loc /\ j \in Loc /\ j <= i - 1
      BY SMT DEF Loc, Stage
    <3>2. seen[i][i - 1] <= seen[i][j]
      BY <3>1, Chain DEF ViewsCoherent, Coherent, Descending
    <3>3. stage[i].current < stage[i].end /\ stage[i].end <= seen[i][i - 1]
      BY <2>1 DEF Touching, StageInv
    <3>4. /\ seen[i][i - 1] \in Int /\ seen[i][j] \in Int
          /\ stage[i].current \in Int /\ stage[i].end \in Int
      BY <3>1, Chain, Numbers, SMT
    <3> QED
      BY <3>2, <3>3, <3>4, SMT
  <2>2. ASSUME producer = "copy", NEW i \in Stage
        PROVE  seen[0][i] > seen[0][0] - Capacity
    <3>1. seen[0][Tail] <= seen[0][i]
      BY Chain DEF ViewsCoherent, Coherent, Descending
    <3>2. seen[0][0] - seen[0][Tail] < Capacity
      BY <2>2 DEF ProducerInv
    <3>3. seen[0][0] \in Int /\ seen[0][i] \in Int /\ seen[0][Tail] \in Int
      BY Chain, Numbers, SMT
    <3> QED
      BY <3>1, <3>2, <3>3, SMT
  <2> QED
    BY <2>1, <2>2 DEF DataRaceFree
<1> QED
  BY <1>1, Invariance, PTL

(***************************************************************************)
(* A module is shown each position once it has accepted all before it.     *)
(***************************************************************************)
THEOREM OrderedDelivery == Spec => []DeliveredInOrder
<1>1. IInv => DeliveredInOrder
  BY DEF IInv, DeliveredInOrder, StageInv
<1> QED BY <1>1, Invariance, PTL

(***************************************************************************)
(* What a module has accepted is handed on within publish_count records    *)
(* and before process() returns.                                           *)
(***************************************************************************)
THEOREM BoundedLag == Spec => []PublicationLag
<1>1. ASSUME IInv PROVE PublicationLag
  <2> SUFFICES ASSUME NEW i \in Stage
               PROVE  LET lag == accepted[i] - Frontier(i)
                      IN  /\ lag \in 0 .. PublishCount[i]
                          /\ stage[i].pc \in {"view", "module", "updated"} =>
                               lag < PublishCount[i]
                          /\ stage[i].pc = "idle" => lag = 0
    BY DEF PublicationLag
  <2>1. /\ accepted[i] - Frontier(i) = stage[i].since
        /\ stage[i].since <= PublishCount[i]
        /\ stage[i].pc \in {"view", "module", "updated"} => stage[i].since < PublishCount[i]
        /\ stage[i].pc = "idle" => stage[i].since = 0
    BY <1>1 DEF IInv, StageInv
  <2>2. stage[i].since \in Nat /\ PublishCount[i] \in Nat
    BY <1>1, Numbers DEF IInv
  <2> QED
    BY <2>1, <2>2, SMT
<1> QED BY <1>1, Invariance, PTL

-----------------------------------------------------------------------------
\* Quotient and remainder.
LEMMA DivisionWithRemainder ==
  ASSUME NEW C \in Nat \ {0}, NEW a \in Nat
  PROVE  a \div C \in Int /\ a % C \in Int /\ a = C * (a \div C) + (a % C)
BY SMT

\* Multiples of C that differ are C apart.
LEMMA MultiplesApart ==
  ASSUME NEW C \in Nat \ {0}, NEW p \in Int, NEW q \in Int, p < q
  PROVE  C * q - C * p >= C
<1>1. C * q - C * p = C * (q - p)
  BY SMT
<1>2. q - p >= 1
  BY SMT
<1> QED
  BY <1>1, <1>2, SMT

\* Two positions less than a capacity apart have different slots.
LEMMA SlotsDiffer ==
  ASSUME NEW a \in Nat, NEW b \in Nat, a < b, b - a < Capacity
  PROVE  SlotOf(a) # SlotOf(b)
<1> DEFINE qa == a \div Capacity
           qb == b \div Capacity
<1>1. /\ qa \in Int /\ qb \in Int
      /\ a % Capacity \in Int /\ b % Capacity \in Int
      /\ a = Capacity * qa + (a % Capacity)
      /\ b = Capacity * qb + (b % Capacity)
  BY DivisionWithRemainder
<1> SUFFICES ASSUME a % Capacity = b % Capacity PROVE FALSE
  BY DEF SlotOf
<1>2. Capacity * qb - Capacity * qa = b - a
  BY <1>1, SMT
<1> HIDE DEF qa, qb
<1>3. CASE qa < qb
  BY <1>1, <1>2, <1>3, MultiplesApart, SMT
<1>4. CASE qb < qa
  <2>1. Capacity * qa - Capacity * qb >= Capacity
    BY <1>1, <1>4, MultiplesApart
  <2> QED
    BY <1>1, <1>2, <2>1, SMT
<1>5. CASE qb = qa
  <2>1. a = b
    BY <1>1, <1>5, Zenon
  <2> QED
    BY <2>1, SMT
<1> QED
  BY <1>1, <1>3, <1>4, <1>5, SMT

\* What is published and not recycled fits the ring: the producer's tail is
\* no newer than the terminal frontier.
LEMMA RingBounded ==
  ASSUME IInv
  PROVE  /\ Frontier(0) \in Nat /\ Frontier(Tail) \in Nat
         /\ Frontier(0) - Frontier(Tail) <= Capacity
<1> USE DEF IInv
<1>1. seen[0][Tail] <= Frontier(Tail)
  BY Chain DEF ViewsCoherent, Coherent
<1>2. Frontier(0) \in Nat /\ Frontier(Tail) \in Nat /\ seen[0][Tail] \in Nat
  BY Chain, Numbers DEF Frontier
<1>3. Frontier(0) - seen[0][Tail] <= Capacity
  BY DEF ProducerInv, Frontier
<1> QED
  BY <1>1, <1>2, <1>3, SMT

\* The record a stage is working on is at or after its own frontier and
\* before the frontier of the stage before it.
LEMMA WorkingRange ==
  ASSUME IInv, NEW i \in Stage, Touching(i)
  PROVE  /\ stage[i].current \in Nat
         /\ Frontier(i) \in Nat /\ Frontier(i - 1) \in Nat
         /\ Frontier(Tail) <= Frontier(i) /\ Frontier(i) <= stage[i].current
         /\ stage[i].current < Frontier(i - 1) /\ Frontier(i - 1) <= Frontier(0)
<1> USE DEF IInv
<1>1. /\ stage[i].current \in Nat /\ stage[i].end \in Nat /\ stage[i].since \in Nat
      /\ seen[i][i - 1] \in Nat
      /\ Frontier(i) \in Nat /\ Frontier(i - 1) \in Nat
  BY Chain, Numbers DEF Frontier
<1>2. seen[i][i - 1] <= Frontier(i - 1)
  BY FrontierChain
<1>3. /\ stage[i].since = stage[i].current - Frontier(i)
      /\ stage[i].current < stage[i].end
      /\ stage[i].end <= seen[i][i - 1]
  BY DEF Touching, StageInv
<1>4. Frontier(Tail) <= Frontier(i) /\ Frontier(i - 1) <= Frontier(0)
  BY Chain, FrontierChain
<1> QED
  BY <1>1, <1>2, <1>3, <1>4, SMT

(***************************************************************************)
(* The frontiers descend along the chain and span at most the capacity     *)
(* (doc/INVARIANTS.md, "tail <= head", "head - tail <= capacity").         *)
(***************************************************************************)
THEOREM Boundaries == Spec => []BoundariesHold
<1>1. ASSUME IInv PROVE BoundariesHold
  <2>1. \A i \in Abstract!Stage : Frontier(i) <= Frontier(i - 1)
    <3> SUFFICES ASSUME NEW i \in Stage PROVE Frontier(i) <= Frontier(i - 1)
      BY DEF Abstract!Stage, Stage
    <3>1. i \in Loc /\ i - 1 \in Loc /\ i - 1 <= i
      BY Chain, SMT
    <3> QED
      BY <1>1, <3>1, FrontierChain DEF IInv
  <2>2. \A i \in Abstract!Stage : i \in Loc /\ i - 1 \in Loc
    BY Chain DEF Abstract!Stage, Stage
  <2>3. Frontier(0) - Frontier(N) <= Capacity
    BY <1>1, RingBounded DEF Tail
  <2> QED
    BY <2>1, <2>2, <2>3, Chain DEF BoundariesHold, Abstract!Bounded, Tail
<1> QED
  BY <1>1, Invariance, PTL

(***************************************************************************)
(* The producer copies into no slot a stage is working on, and no two      *)
(* stages work on one slot (RecordTape::try_publish's test for Full is     *)
(* exact, and each stage stays within the frontiers around it).            *)
(***************************************************************************)
THEOREM SlotsExclusive == Spec => []SlotExclusive
<1>1. ASSUME IInv PROVE SlotExclusive
  <2> USE <1>1
  <2>1. ASSUME NEW i \in Stage, Touching(i), producer = "copy"
        PROVE  SlotOf(stage[i].current) # SlotOf(seen[0][0])
    <3>1. seen[0][0] - seen[0][Tail] < Capacity
      BY <2>1 DEF IInv, ProducerInv
    <3>2. seen[0][Tail] <= Frontier(Tail) /\ seen[0][Tail] \in Nat
      BY Chain, Numbers DEF IInv, ViewsCoherent, Coherent
    <3>3. /\ seen[0][0] \in Nat
          /\ stage[i].current \in Nat
          /\ stage[i].current < seen[0][0]
          /\ seen[0][0] - stage[i].current < Capacity
      BY <2>1, <3>1, <3>2, WorkingRange, RingBounded, SMT DEF Frontier
    <3> QED
      BY <3>3, SlotsDiffer
  <2>2. ASSUME NEW i \in Stage, NEW j \in Stage, i < j, Touching(i), Touching(j)
        PROVE  SlotOf(stage[j].current) # SlotOf(stage[i].current)
    <3>1. Frontier(j - 1) <= Frontier(i)
      <4>1. i <= j - 1
        BY <2>2, Chain, SMT
      <4> QED
        BY <4>1, Chain, FrontierChain DEF IInv
    <3>2. /\ stage[i].current \in Nat /\ stage[j].current \in Nat
          /\ stage[j].current < stage[i].current
          /\ stage[i].current - stage[j].current < Capacity
      <4>1. /\ stage[i].current \in Nat /\ Frontier(i) \in Nat /\ Frontier(i - 1) \in Nat
            /\ Frontier(i) <= stage[i].current
            /\ stage[i].current < Frontier(i - 1) /\ Frontier(i - 1) <= Frontier(0)
        BY <2>2, WorkingRange
      <4>2. /\ stage[j].current \in Nat /\ Frontier(j) \in Nat /\ Frontier(j - 1) \in Nat
            /\ Frontier(Tail) <= Frontier(j) /\ Frontier(j) <= stage[j].current
            /\ stage[j].current < Frontier(j - 1)
        BY <2>2, WorkingRange
      <4> QED
        BY <3>1, <4>1, <4>2, RingBounded, SMT
    <3> QED
      BY <3>2, SlotsDiffer
  <2>3. \A i, j \in Stage : i # j => i < j \/ j < i
    BY Chain, SMT
  <2> QED
    BY <2>1, <2>2, <2>3 DEF SlotExclusive
<1> QED
  BY <1>1, Invariance, PTL

-----------------------------------------------------------------------------
\* A step that loads, copies or computes moves no frontier.
LEMMA FrontiersStay ==
  ASSUME IInv, Next \/ UNCHANGED vars,
         ~PublishHead, \A i \in Stage : ~PublishFrontier(i)
  PROVE  \A l \in Loc : Frontier(l)' = Frontier(l)
<1> USE DEF IInv
<1>1. CASE BeginPublish
  <2>1. PICK view \in LoadTail : seen' = [seen EXCEPT ![0] = view] /\ released' = released
    BY <1>1 DEF BeginPublish
  <2>2. Coherent(view) /\ \A k \in Loc : view[k] >= seen[0][k]
    BY <2>1, AcquireCoherent, Chain DEF LoadTail, ViewsCoherent
  <2> QED
    BY <2>1, <2>2, LoadStep, Chain
<1>2. CASE CopyPayload
  BY <1>2 DEF CopyPayload, Frontier
<1>3. ASSUME NEW i \in Stage, Begin(i) PROVE \A l \in Loc : Frontier(l)' = Frontier(l)
  <2>1. PICK view \in LoadUpstream(i) :
          seen' = [seen EXCEPT ![i] = view] /\ released' = released
    BY <1>3 DEF Begin
  <2>2. Coherent(view) /\ \A k \in Loc : view[k] >= seen[i][k]
    BY <2>1, AcquireCoherent, Chain DEF LoadUpstream, ViewsCoherent
  <2> QED
    BY <2>1, <2>2, LoadStep, Chain
<1>4. ASSUME NEW t \in Thread, NEW r \in TailThenHead(seen[t]),
             seen' = [seen EXCEPT ![t] = r.view], released' = released
      PROVE  \A l \in Loc : Frontier(l)' = Frontier(l)
  BY <1>4, TailThenHeadCoherent, LoadStep
<1>5. ASSUME NEW i \in Stage, ViewRecord(i) PROVE \A l \in Loc : Frontier(l)' = Frontier(l)
  BY <1>4, <1>5, Chain DEF ViewRecord
<1>6. ASSUME NEW i \in Stage, UpdateRecord(i) PROVE \A l \in Loc : Frontier(l)' = Frontier(l)
  BY <1>4, <1>6, Chain DEF UpdateRecord
<1>7. ASSUME NEW i \in Stage, ModuleOk(i) \/ ModuleFail(i)
      PROVE  \A l \in Loc : Frontier(l)' = Frontier(l)
  BY <1>7 DEF ModuleOk, ModuleFail, Frontier
<1>8. ASSUME NEW o \in Observers, Observe(o) PROVE \A l \in Loc : Frontier(l)' = Frontier(l)
  BY <1>4, <1>8 DEF Observe, Thread
<1>9. CASE UNCHANGED vars
  BY <1>9 DEF vars, Frontier
<1> QED
  BY <1>1, <1>2, <1>3, <1>5, <1>6, <1>7, <1>8, <1>9 DEF Next, Produce, Process

\* Publishing Head needs room behind the terminal frontier the abstract
\* pipeline knows, which is no older than the one the producer read.
LEMMA PublishHeadAdvances ==
  ASSUME IInv, PublishHead
  PROVE  /\ Frontier(0) - Frontier(Tail) < Capacity
         /\ Frontier(0) < MaxPosition
         /\ Frontier(0)' = Frontier(0) + 1
         /\ \A l \in Loc : l # 0 => Frontier(l)' = Frontier(l)
<1> USE DEF IInv
<1>1. producer = "store" /\ Release(0, seen[0][0] + 1)
  BY DEF PublishHead
<1>2. seen[0][0] < MaxPosition /\ seen[0][0] - seen[0][Tail] < Capacity
  BY <1>1 DEF ProducerInv
<1>3. seen[0][0] \in Nat /\ seen[0][Tail] \in Nat /\ Frontier(Tail) \in Nat
  BY Chain, Numbers DEF Frontier
<1>4. seen[0][Tail] <= Frontier(Tail)
  BY Chain DEF ViewsCoherent, Coherent
<1>5. Frontier(0) - Frontier(Tail) < Capacity
  BY <1>2, <1>3, <1>4, SMT DEF Frontier
<1>6. seen' = [seen EXCEPT ![0] = [seen[0] EXCEPT ![0] = seen[0][0] + 1]]
  BY <1>1 DEF Release
<1>7. Frontier(0)' = Frontier(0) + 1 /\ \A l \in Loc : l # 0 => Frontier(l)' = Frontier(l)
  BY <1>6, Chain DEF Frontier, TypeOK, View
<1> QED
  BY <1>2, <1>5, <1>7 DEF Frontier

\* A stage's release moves its frontier forward, within its upstream's.
LEMMA PublishFrontierAdvances ==
  ASSUME IInv, NEW i \in Stage, PublishFrontier(i)
  PROVE  /\ Frontier(i)' \in Frontier(i) .. Frontier(i - 1)
         /\ \A l \in Loc : l # i => Frontier(l)' = Frontier(l)
<1> USE DEF IInv
<1>1. Release(i, stage[i].current)
  BY DEF PublishFrontier
<1>2. seen' = [seen EXCEPT ![i] = [seen[i] EXCEPT ![i] = stage[i].current]]
  BY <1>1 DEF Release
<1>3. /\ Frontier(i)' = stage[i].current
      /\ \A l \in Loc : l # i => Frontier(l)' = Frontier(l)
  BY <1>2, Chain DEF Frontier, TypeOK, View
<1>4. /\ stage[i].current \in Nat /\ stage[i].end \in Nat /\ stage[i].since \in Nat
      /\ seen[i][i - 1] \in Nat /\ Frontier(i) \in Nat /\ Frontier(i - 1) \in Nat
  BY Chain, Numbers DEF Frontier
<1>5. seen[i][i - 1] <= Frontier(i - 1)
  BY FrontierChain
<1>6. stage[i].current \in Frontier(i) .. Frontier(i - 1)
  BY <1>4, <1>5, SMT DEF StageInv
<1> QED
  BY <1>3, <1>6

(***************************************************************************)
(* The frontiers of the tract behave as the abstract pipeline's counters:  *)
(* staleness only ever delays a step of it.                                *)
(***************************************************************************)
THEOREM Refinement == Spec => RefinesPipeline
<1> DEFINE front == [l \in Loc |-> Frontier(l)]
<1>1. Init => Abstract!Init
  BY Chain DEF Init, Zero, Frontier, Abstract!Init, Abstract!Boundary, Loc
<1>2. IInv /\ [Next]_vars => [Abstract!Next]_front
  <2> SUFFICES ASSUME IInv, [Next]_vars PROVE Abstract!Next \/ front' = front
    OBVIOUS
  <2>1. CASE PublishHead
    <3>1. front' = [front EXCEPT ![0] = @ + 1]
      BY <2>1, PublishHeadAdvances, Chain
    <3>2. front[0] - front[N] < Capacity /\ front[0] < MaxPosition
      BY <2>1, PublishHeadAdvances, Chain DEF Tail
    <3>3. Abstract!Publish
      BY <3>1, <3>2 DEF Abstract!Publish
    <3> QED
      BY <3>3 DEF Abstract!Next
  <2>2. ASSUME NEW i \in Stage, PublishFrontier(i)
        PROVE  Abstract!Next \/ front' = front
    <3>1. front' = [front EXCEPT ![i] = Frontier(i)']
      BY <2>2, PublishFrontierAdvances
    <3>2. Frontier(i)' \in front[i] .. front[i - 1] /\ front[i] \in Nat /\ front[i - 1] \in Nat
      BY <2>2, PublishFrontierAdvances, Chain, Numbers DEF IInv, Frontier
    <3>3. CASE Frontier(i)' = Frontier(i)
      BY <3>1, <3>3, Chain
    <3>4. CASE Frontier(i)' # Frontier(i)
      <4>1. Frontier(i)' \in front[i] + 1 .. front[i - 1]
        BY <3>2, <3>4, Chain, SMT
      <4>2. Abstract!Advance(i)
        BY <3>1, <4>1 DEF Abstract!Advance
      <4> QED
        BY <4>2 DEF Abstract!Next, Abstract!Stage, Stage
    <3> QED
      BY <3>3, <3>4
  <2>3. CASE ~PublishHead /\ \A i \in Stage : ~PublishFrontier(i)
    <3>1. \A l \in Loc : Frontier(l)' = Frontier(l)
      BY <2>3, FrontiersStay
    <3> QED
      BY <3>1
  <2> QED
    BY <2>1, <2>2, <2>3
<1> QED
  BY <1>1, <1>2, Invariance, PTL DEF Spec, RefinesPipeline, Abstract!Spec

-----------------------------------------------------------------------------
(***************************************************************************)
(* What the slots hold, for any length, capacity and policy: every module  *)
(* is shown the record that was published at its position with the         *)
(* updates of the stages before it and of no other.  Rests on the views:   *)
(* two retained positions have different slots, and the frontiers around   *)
(* a stage keep the updates of the stages after it out of the record it    *)
(* is shown.                                                               *)
(***************************************************************************)

RecordAt(p) == slot[SlotOf(p)]

\* The record of a retained position: a stage has updated it only after the
\* stage before has handed it on, and has once its module has accepted it.
Holds(p) ==
  /\ RecordAt(p).pos = p
  /\ \A i \in Stage :
       /\ i \in RecordAt(p).by => i \in Updaters /\ p < Frontier(i - 1)
       /\ i \in Updaters /\ p < accepted[i] => i \in RecordAt(p).by

ContentInv ==
  /\ \A p \in Position : Frontier(Tail) <= p /\ p < Frontier(0) => Holds(p)
  /\ producer = "store" => RecordAt(Frontier(0)) = [pos |-> Frontier(0), by |-> {}]
  /\ \A i \in Stage : stage[i].pc = "updated" => i \in RecordAt(stage[i].current).by

-----------------------------------------------------------------------------
\* Every frontier is a number.
LEMMA FrontierNumbers ==
  ASSUME TypeOK
  PROVE  \A l \in Loc : Frontier(l) \in Nat
BY Chain, Numbers DEF Frontier

\* A step that changes no slot and no count, and moves no frontier back.
LEMMA QuietKeeps ==
  ASSUME IInv, IInv', ContentInv, slot' = slot, accepted' = accepted, producer' # "store" \/ producer' = producer,
         \A l \in Loc : Frontier(l) <= Frontier(l)',
         Frontier(0)' = Frontier(0),
         \A i \in Stage : stage'[i].pc = "updated" => stage'[i] = stage[i]
  PROVE  ContentInv'
<1>0. \A l \in Loc : Frontier(l) \in Int /\ Frontier(l)' \in Int
  <2>1. \A l \in Loc : Frontier(l)' \in Position
    BY Chain DEF IInv, TypeOK, View, Frontier
  <2> QED BY <2>1, FrontierNumbers, Numbers DEF IInv
<1>1. ASSUME NEW p \in Position, Frontier(Tail)' <= p, p < Frontier(0)'
      PROVE  Holds(p)'
  <2>1. Holds(p)
    <3>1. Frontier(Tail) <= p
      BY <1>0, <1>1, Chain, Numbers, SMT DEF IInv
    <3> QED BY <1>1, <3>1 DEF ContentInv
  <2>2. \A i \in Stage : p < Frontier(i - 1) => p < Frontier(i - 1)'
    BY <1>0, Chain, Numbers, SMT DEF IInv
  <2> QED BY <2>1, <2>2 DEF Holds, RecordAt
<1>2. (producer = "store" => RecordAt(Frontier(0)) = [pos |-> Frontier(0), by |-> {}])'
  BY DEF ContentInv, RecordAt
<1>3. (\A i \in Stage : stage[i].pc = "updated" => i \in RecordAt(stage[i].current).by)'
  BY DEF ContentInv, RecordAt
<1> QED BY <1>1, <1>2, <1>3 DEF ContentInv

\* The ring has a slot for every position, and one of its own for each
\* retained position.
LEMMA RemainderThere ==
  ASSUME NEW p \in Nat, NEW C \in Nat \ {0}
  PROVE  p % C \in 0 .. C - 1
OBVIOUS

LEMMA SlotThere ==
  ASSUME NEW p \in Nat
  PROVE  SlotOf(p) \in 0 .. Capacity - 1
<1>1. Capacity \in Nat \ {0}
  OBVIOUS
<1> QED BY <1>1, RemainderThere DEF SlotOf

LEMMA RetainedDiffer ==
  ASSUME IInv, NEW p \in Nat, NEW q \in Nat, p # q,
         Frontier(Tail) <= p, p < Frontier(0),
         Frontier(Tail) <= q, q < Frontier(0)
  PROVE  SlotOf(p) # SlotOf(q)
<1>1. p - q < Capacity /\ q - p < Capacity
  <2>1. /\ Frontier(0) \in Nat /\ Frontier(Tail) \in Nat /\ Capacity \in Nat
        /\ Frontier(0) - Frontier(Tail) <= Capacity
    BY RingBounded
  <2> QED BY <2>1, SMT
<1> QED BY <1>1, SlotsDiffer

\* The slot the producer writes is not one of theirs.
LEMMA FreeSlot ==
  ASSUME IInv, producer # "idle", NEW p \in Nat, Frontier(Tail) <= p, p < Frontier(0)
  PROVE  SlotOf(p) # SlotOf(Frontier(0))
<1>1. seen[0][Tail] <= Frontier(Tail) /\ Frontier(0) - seen[0][Tail] < Capacity
  BY Chain DEF IInv, ViewsCoherent, Coherent, ProducerInv, Frontier
<1>2. /\ seen[0][Tail] \in Nat /\ Frontier(Tail) \in Nat /\ Frontier(0) \in Nat
      /\ Capacity \in Nat
  BY Chain, Numbers, FrontierNumbers DEF IInv
<1>3. Frontier(0) - p < Capacity
  BY <1>1, <1>2, SMT
<1> QED BY <1>2, <1>3, SlotsDiffer

\* A stage works on a retained position.
LEMMA WorkingRetained ==
  ASSUME IInv, NEW i \in Stage, Touching(i)
  PROVE  /\ stage[i].current \in Position /\ stage[i].current \in Nat
         /\ Frontier(Tail) <= stage[i].current /\ stage[i].current < Frontier(0)
         /\ stage[i].current < Frontier(i - 1)
<1>1. stage[i].current \in Position
  BY Numbers DEF IInv
<1>2. Frontier(0) \in Int /\ Frontier(Tail) \in Int
  BY RingBounded
<1> QED BY <1>1, <1>2, WorkingRange

\* A stage has accepted what it has handed on, and nothing that the stage
\* before it has not.
LEMMA AcceptedRange ==
  ASSUME IInv, NEW i \in Stage
  PROVE  /\ accepted[i] \in Nat
         /\ Frontier(i) <= accepted[i] /\ accepted[i] <= Frontier(i - 1)
         /\ accepted[i] <= Frontier(0)
<1>1. /\ stage[i].current \in Nat /\ stage[i].end \in Nat /\ stage[i].since \in Nat
      /\ seen[i][i - 1] \in Nat /\ Frontier(i) \in Nat /\ Frontier(i - 1) \in Nat
      /\ Frontier(0) \in Nat
  BY Chain, Numbers, FrontierNumbers DEF IInv
<1>2. /\ accepted[i] = stage[i].current
      /\ stage[i].since = stage[i].current - Frontier(i)
      /\ stage[i].current <= stage[i].end /\ stage[i].end <= seen[i][i - 1]
  BY DEF IInv, StageInv
<1>3. seen[i][i - 1] <= Frontier(i - 1) /\ Frontier(i - 1) <= Frontier(0)
  BY Chain, FrontierChain DEF IInv
<1> QED BY <1>1, <1>2, <1>3

-----------------------------------------------------------------------------
LEMMA InitContent == Init => ContentInv
<1> SUFFICES ASSUME Init PROVE ContentInv
  OBVIOUS
<1>1. Frontier(Tail) = 0 /\ Frontier(0) = 0
  BY Chain DEF Init, Frontier, Zero
<1>2. producer = "idle" /\ \A i \in Stage : stage[i].pc = "idle"
  BY DEF Init, Idle
<1> QED BY <1>1, <1>2, Numbers, InitInv, SMT DEF ContentInv, Position

\* The copy goes to a slot that no retained position has.
LEMMA CopyContent ==
  ASSUME IInv, ContentInv, CopyPayload
  PROVE  ContentInv'
<1> DEFINE head == Frontier(0)
<1>1. /\ producer = "copy" /\ producer' = "store"
      /\ slot' = [slot EXCEPT ![SlotOf(head)] = [pos |-> head, by |-> {}]]
      /\ UNCHANGED <<seen, stage, accepted>>
  BY DEF CopyPayload, Frontier
<1>2. head \in Nat /\ SlotOf(head) \in 0 .. Capacity - 1
  BY RingBounded, SlotThere
<1>3. slot'[SlotOf(head)] = [pos |-> head, by |-> {}]
  BY <1>1, <1>2 DEF IInv, TypeOK
<1>4. ASSUME NEW p \in Nat, Frontier(Tail) <= p, p < head
      PROVE  slot'[SlotOf(p)] = slot[SlotOf(p)]
  BY <1>1, <1>4, FreeSlot, SlotThere DEF IInv, TypeOK
<1>5. \A l \in Loc : Frontier(l)' = Frontier(l)
  BY <1>1 DEF Frontier
<1>6. ASSUME NEW p \in Position, Frontier(Tail) <= p, p < head
      PROVE  Holds(p)'
  <2>1. Holds(p) /\ slot'[SlotOf(p)] = slot[SlotOf(p)]
    BY <1>4, <1>6, Numbers DEF IInv, ContentInv
  <2> QED BY <1>1, <1>5, <2>1, Chain DEF Holds, RecordAt
<1>7. ASSUME NEW i \in Stage, stage[i].pc = "updated"
      PROVE  i \in slot'[SlotOf(stage[i].current)].by
  BY <1>4, <1>7, WorkingRetained DEF ContentInv, RecordAt, Touching
<1> QED BY <1>1, <1>3, <1>5, <1>6, <1>7, Chain DEF ContentInv, RecordAt

\* The position published is in its slot, and no stage has had it.
LEMMA PublishContent ==
  ASSUME IInv, ContentInv, PublishHead
  PROVE  ContentInv'
<1>0. PICK head : head = Frontier(0)
  OBVIOUS
<1>1. /\ producer = "store" /\ producer' = "idle"
      /\ UNCHANGED <<slot, stage, accepted>>
      /\ Frontier(0)' = head + 1
      /\ \A l \in Loc : l # 0 => Frontier(l)' = Frontier(l)
  BY <1>0, PublishHeadAdvances DEF PublishHead
<1>2. head \in Nat /\ Frontier(Tail) \in Nat
  BY <1>0, RingBounded
<1>3. \A i \in Stage : Frontier(i - 1) \in Nat /\ Frontier(i - 1)' \in Nat
                       /\ Frontier(i - 1) <= Frontier(i - 1)'
  BY <1>0, <1>1, <1>2, Chain, FrontierNumbers DEF IInv
<1>4. ASSUME NEW p \in Position, Holds(p)
      PROVE  Holds(p)'
  <2>1. \A i \in Stage : p < Frontier(i - 1) => p < Frontier(i - 1)'
    BY <1>3, Numbers DEF IInv
  <2> QED BY <1>1, <1>4, <2>1 DEF Holds, RecordAt
<1>5. Holds(head)'
  <2>1. slot'[SlotOf(head)] = [pos |-> head, by |-> {}]
    BY <1>0, <1>1 DEF ContentInv, RecordAt
  <2>2. \A i \in Stage : ~(head < accepted'[i])
    BY <1>0, <1>1, <1>2, AcceptedRange
  <2> QED BY <2>1, <2>2 DEF Holds, RecordAt
<1>6. ASSUME NEW p \in Position, Frontier(Tail)' <= p, p < Frontier(0)'
      PROVE  Holds(p)'
  <2>1. CASE p = head
    BY <1>5, <2>1
  <2>2. CASE p # head
    <3>1. p < head /\ Frontier(Tail) <= p
      BY <1>1, <1>2, <1>6, <2>2, Chain, Numbers DEF IInv
    <3> QED BY <1>0, <1>4, <3>1 DEF ContentInv
  <2> QED BY <2>1, <2>2
<1> QED BY <1>1, <1>6 DEF ContentInv, RecordAt

\* An update adds the stage to the record it works on and to no other.
LEMMA UpdateContent ==
  ASSUME IInv, ContentInv, NEW i \in Stage, UpdateRecord(i)
  PROVE  ContentInv'
<1>1. PICK c : c = stage[i].current
  OBVIOUS
<1>2. /\ stage[i].pc = "module" /\ i \in Updaters
      /\ stage' = [stage EXCEPT ![i].pc = "updated"]
      /\ UNCHANGED <<producer, accepted>>
  BY DEF UpdateRecord
<1>3. slot' = [slot EXCEPT ![SlotOf(c)].by = @ \cup {i}]
  <2>1. PICK r \in TailThenHead(seen[i]) :
          slot' = IF Retained(r, c) THEN [slot EXCEPT ![SlotOf(c)].by = @ \cup {i}] ELSE slot
    BY <1>1 DEF UpdateRecord
  <2>2. Retained(r, c)
    BY <1>1, <1>2, <2>1, CurrentRetained
  <2> QED BY <2>1, <2>2
<1>4. \A l \in Loc : Frontier(l)' = Frontier(l)
  <2>1. ~PublishHead /\ \A j \in Stage : ~PublishFrontier(j)
    <3>1. ~PublishHead
      BY <1>2 DEF PublishHead
    <3>2. ASSUME NEW j \in Stage, PublishFrontier(j) PROVE FALSE
      BY <1>2, <3>2 DEF PublishFrontier, IInv, TypeOK
    <3> QED BY <3>1, <3>2
  <2> QED BY <2>1, FrontiersStay DEF Next, Process, IInv
<1>5. /\ c \in Position /\ c \in Nat /\ SlotOf(c) \in 0 .. Capacity - 1
      /\ Frontier(Tail) <= c /\ c < Frontier(0) /\ c < Frontier(i - 1)
  BY <1>1, <1>2, WorkingRetained, SlotThere DEF Touching
<1>6. /\ slot'[SlotOf(c)].by = slot[SlotOf(c)].by \cup {i}
      /\ slot'[SlotOf(c)].pos = slot[SlotOf(c)].pos
      /\ \A k \in 0 .. Capacity - 1 : k # SlotOf(c) => slot'[k] = slot[k]
  BY <1>3, <1>5 DEF IInv, TypeOK
<1>7. ASSUME NEW p \in Nat, p # c, Frontier(Tail) <= p, p < Frontier(0)
      PROVE  slot'[SlotOf(p)] = slot[SlotOf(p)]
  BY <1>5, <1>6, <1>7, RetainedDiffer, SlotThere
<1>8. ASSUME NEW p \in Position, Frontier(Tail) <= p, p < Frontier(0)
      PROVE  Holds(p)'
  <2>1. Holds(p)
    BY <1>8 DEF ContentInv
  <2>2. CASE p # c
    <3>1. slot'[SlotOf(p)] = slot[SlotOf(p)]
      BY <1>7, <1>8, <2>2, Numbers DEF IInv
    <3> QED BY <1>2, <1>4, <2>1, <3>1, Chain DEF Holds, RecordAt
  <2>3. CASE p = c
    BY <1>2, <1>4, <1>5, <1>6, <2>1, <2>3, Chain DEF Holds, RecordAt
  <2> QED BY <2>2, <2>3
<1>9. producer # "store"
      \/ slot'[SlotOf(Frontier(0))] = slot[SlotOf(Frontier(0))]
  <2>1. ASSUME producer = "store" PROVE SlotOf(c) # SlotOf(Frontier(0))
    BY <1>5, <2>1, FreeSlot
  <2>2. SlotOf(Frontier(0)) \in 0 .. Capacity - 1
    BY RingBounded, SlotThere
  <2> QED BY <1>6, <2>1, <2>2
<1>10. ASSUME NEW j \in Stage, stage'[j].pc = "updated"
       PROVE  j \in slot'[SlotOf(stage'[j].current)].by
  <2>1. CASE j = i
    <3>1. stage'[j].current = c
      BY <1>1, <1>2, <2>1 DEF IInv, TypeOK
    <3> QED BY <1>6, <2>1, <3>1
  <2>2. CASE j # i
    <3>1. stage'[j] = stage[j]
      BY <1>2, <2>2 DEF IInv, TypeOK
    <3>2. j \in slot[SlotOf(stage[j].current)].by
      BY <1>10, <3>1 DEF ContentInv, RecordAt
    <3>3. SlotOf(stage[j].current) \in 0 .. Capacity - 1
      BY <1>10, <3>1, WorkingRetained, SlotThere DEF Touching
    <3> QED BY <1>6, <3>1, <3>2, <3>3
  <2> QED BY <2>1, <2>2
<1> QED BY <1>2, <1>4, <1>8, <1>9, <1>10, Chain DEF ContentInv, RecordAt

\* A stage that writes its records accepts one only after it has.
LEMMA AcceptContent ==
  ASSUME IInv, ContentInv, NEW i \in Stage, ModuleOk(i)
  PROVE  ContentInv'
<1>1. PICK c : c = stage[i].current
  OBVIOUS
<1>2. /\ stage[i].pc \in {"module", "updated"}
      /\ i \in Updaters => stage[i].pc = "updated"
      /\ accepted' = [accepted EXCEPT ![i] = c + 1]
      /\ UNCHANGED <<seen, slot, producer>>
      /\ stage'[i].pc # "updated"
      /\ \A j \in Stage \ {i} : stage'[j] = stage[j]
  BY <1>1 DEF ModuleOk, Answering, IInv, TypeOK
<1>3. c \in Nat /\ accepted[i] = c
  BY <1>1, <1>2, WorkingRetained DEF Touching, IInv, StageInv
<1>4. /\ accepted'[i] = c + 1
      /\ \A j \in Stage \ {i} : accepted'[j] = accepted[j]
  BY <1>2 DEF IInv, TypeOK
<1>5. ASSUME NEW p \in Position, Holds(p)
      PROVE  Holds(p)'
  <2>1. p \in Nat
    BY Numbers DEF IInv
  <2>2. ASSUME i \in Updaters, p < accepted'[i]
        PROVE  i \in RecordAt(p).by
    <3>1. p < accepted[i] \/ p = c
      BY <1>3, <1>4, <2>1, <2>2
    <3>2. CASE p = c
      BY <1>1, <1>2, <2>2, <3>2 DEF ContentInv
    <3> QED BY <1>5, <2>2, <3>1, <3>2 DEF Holds
  <2>3. \A j \in Stage : j \in Updaters /\ p < accepted'[j] => j \in RecordAt(p).by
    BY <1>4, <1>5, <2>2 DEF Holds
  <2> QED BY <1>2, <1>5, <2>3 DEF Holds, RecordAt, Frontier
<1> QED BY <1>2, <1>5 DEF ContentInv, RecordAt, Frontier

\* Every other step.
LEMMA QuietContent ==
  ASSUME IInv, IInv', ContentInv,
         \/ BeginPublish
         \/ \E i \in Stage : Begin(i) \/ ViewRecord(i) \/ ModuleFail(i) \/ PublishFrontier(i)
         \/ \E o \in Observers : Observe(o)
         \/ UNCHANGED vars
  PROVE  ContentInv'
<1>1. /\ slot' = slot /\ accepted' = accepted
      /\ producer' # "store" \/ producer' = producer
      /\ ~PublishHead
  BY DEF BeginPublish, Begin, ViewRecord, ModuleFail, PublishFrontier, Observe, vars,
         PublishHead
<1>2. \A i \in Stage : stage'[i].pc = "updated" => stage'[i] = stage[i]
  <2>1. ASSUME NEW i \in Stage,
               Begin(i) \/ ViewRecord(i) \/ ModuleFail(i) \/ PublishFrontier(i)
        PROVE  /\ stage'[i].pc # "updated"
               /\ \A j \in Stage \ {i} : stage'[j] = stage[j]
    <3>1. CASE Begin(i)
      BY <3>1 DEF Begin, Idle, IInv, TypeOK
    <3>2. CASE ViewRecord(i)
      BY <3>2 DEF ViewRecord, IInv, TypeOK
    <3>3. CASE ModuleFail(i)
      BY <3>3 DEF ModuleFail, FlushOnFailure, Idle, IInv, TypeOK
    <3>4. CASE PublishFrontier(i)
      <4>1. /\ \A j \in Stage \ {i} : stage'[j] = stage[j]
            /\ \/ stage'[i] = Idle(stage[i].current)
               \/ stage'[i] = [stage[i] EXCEPT !.pc = "view", !.since = 0]
        BY <3>4 DEF PublishFrontier, IInv, TypeOK
      <4>2. [stage[i] EXCEPT !.pc = "view", !.since = 0].pc = "view"
        BY DEF IInv, TypeOK
      <4>3. Idle(stage[i].current).pc = "idle"
        BY DEF Idle
      <4>4. stage'[i].pc = "idle" \/ stage'[i].pc = "view"
        BY <4>1, <4>2, <4>3, Zenon
      <4> QED BY <4>1, <4>4
    <3> QED BY <2>1, <3>1, <3>2, <3>3, <3>4
  <2>2. CASE stage' = stage
    BY <2>2
  <2> QED BY <2>1, <2>2 DEF BeginPublish, Observe, vars
<1>3. /\ \A l \in Loc : Frontier(l) <= Frontier(l)'
      /\ Frontier(0)' = Frontier(0)
  <2>1. \A l \in Loc : Frontier(l) \in Nat
    BY FrontierNumbers DEF IInv
  <2>2. ASSUME NEW i \in Stage, PublishFrontier(i)
        PROVE  /\ Frontier(i) <= Frontier(i)'
               /\ \A l \in Loc : l # i => Frontier(l)' = Frontier(l)
    BY <2>1, <2>2, PublishFrontierAdvances, Chain
  <2>3. CASE \E i \in Stage : PublishFrontier(i)
    BY <2>1, <2>2, <2>3, Chain
  <2>4. CASE ~\E i \in Stage : PublishFrontier(i)
    <3>1. Next \/ UNCHANGED vars
      BY DEF Next, Produce, Process, IInv
    <3>2. \A l \in Loc : Frontier(l)' = Frontier(l)
      BY <1>1, <2>4, <3>1, FrontiersStay
    <3> QED BY <2>1, <3>2, Chain
  <2> QED BY <2>3, <2>4
<1> QED BY <1>1, <1>2, <1>3, QuietKeeps

LEMMA NextContent == IInv /\ IInv' /\ ContentInv /\ [Next]_vars => ContentInv'
<1> SUFFICES ASSUME IInv, IInv', ContentInv, [Next]_vars PROVE ContentInv'
  OBVIOUS
<1>1. CASE CopyPayload
  BY <1>1, CopyContent
<1>2. CASE PublishHead
  BY <1>2, PublishContent
<1>3. ASSUME NEW i \in Stage, UpdateRecord(i) PROVE ContentInv'
  BY <1>3, UpdateContent
<1>4. ASSUME NEW i \in Stage, ModuleOk(i) PROVE ContentInv'
  BY <1>4, AcceptContent
<1> QED BY <1>1, <1>2, <1>3, <1>4, QuietContent DEF Next, Produce, Process

(***************************************************************************)
(* Whatever the threads do, the slot of a position in the window holds its *)
(* record, updated by every stage that has accepted it.                    *)
(***************************************************************************)
THEOREM ContentInvariance == Spec => []ContentInv
BY InitContent, NextContent, Invariance, PTL DEF Spec

(***************************************************************************)
(* The record a module is shown is the one published at that position,     *)
(* carrying the updates of every updater before it and of none after it    *)
(* (try_publish's copy, try_write in place, and Slider::process between    *)
(* them).                                                                  *)
(***************************************************************************)
THEOREM ReadsWhatWasPublished == Spec => []ReadsPublished
<1>1. ASSUME IInv, ContentInv PROVE ReadsPublished
  <2> SUFFICES ASSUME NEW i \in Stage, Touching(i)
               PROVE  LET record == slot[SlotOf(stage[i].current)]
                      IN  /\ record.pos = stage[i].current
                          /\ record.by \ {i} = Updaters \cap 1 .. i - 1
    BY DEF ReadsPublished
  <2>1. PICK p \in Position : p = stage[i].current
    BY <1>1, WorkingRetained
  <2>2. /\ Frontier(i) \in Nat /\ Frontier(i - 1) \in Nat /\ p \in Nat
        /\ Frontier(i) <= p /\ p < Frontier(i - 1)
        /\ Holds(p)
    BY <1>1, <2>1, WorkingRange, WorkingRetained DEF ContentInv
  <2>3. slot[SlotOf(p)].by \subseteq Stage
    BY <1>1, <2>2, SlotThere DEF IInv, TypeOK
  <2>4. ASSUME NEW j \in slot[SlotOf(p)].by, j # i
        PROVE  j \in Updaters \cap 1 .. i - 1
    <3>1. j \in Stage /\ j \in Updaters /\ p < Frontier(j - 1)
      BY <2>2, <2>3 DEF Holds, RecordAt
    <3>2. CASE j > i
      <4>1. /\ i \in Loc /\ j - 1 \in Loc /\ i <= j - 1
        BY <3>1, <3>2, Chain, SMT
      <4>2. Frontier(j - 1) <= Frontier(i) /\ Frontier(j - 1) \in Nat
        BY <1>1, <4>1, FrontierChain, FrontierNumbers DEF IInv
      <4> QED BY <2>2, <3>1, <4>2, SMT
    <3>3. CASE ~(j > i)
      BY <2>4, <3>1, <3>3, Chain, SMT
    <3> QED BY <3>2, <3>3
  <2>5. ASSUME NEW j \in Updaters \cap 1 .. i - 1
        PROVE  j \in slot[SlotOf(p)].by /\ j # i
    <3>1. j \in Stage /\ j \in Loc /\ i - 1 \in Loc /\ j <= i - 1 /\ j # i
      BY Chain, SMT
    <3>2. Frontier(i - 1) <= Frontier(j) /\ Frontier(j) \in Nat
      BY <1>1, <3>1, FrontierChain, FrontierNumbers DEF IInv
    <3>3. Frontier(j) <= accepted[j] /\ accepted[j] \in Nat
      BY <1>1, <3>1, AcceptedRange
    <3>4. p < accepted[j]
      BY <2>2, <3>2, <3>3, SMT
    <3> QED BY <2>2, <3>1, <3>4 DEF Holds, RecordAt
  <2>6. slot[SlotOf(p)].pos = p
    BY <2>2 DEF Holds, RecordAt
  <2> QED BY <2>1, <2>4, <2>5, <2>6
<1> QED BY <1>1, Invariance, ContentInvariance, PTL
=============================================================================
