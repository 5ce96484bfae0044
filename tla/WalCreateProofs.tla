-------------------------- MODULE WalCreateProofs ---------------------------
(***************************************************************************)
(* Theorems of WalCreate: for every number of processes, every size of the *)
(* header and its padding, and any number of faults.                       *)
(*                                                                         *)
(* The argument is ownership.  Between the exclusive creation and the      *)
(* answer, or the removal, the path names the file of the one process that *)
(* is at work on it, so nobody removes a file but its creator, and a file  *)
(* is complete and synchronized before its name is.                        *)
(***************************************************************************)
EXTENDS WalCreate, TLAPS

USE WalCreateAssumption

\* Complete, and synchronized.
IsWhole(c) == c.length = FileUnits /\ c.valid = FileUnits /\ c.synced

\* A process in the middle of create, or of its rollback, owns the path.
Owning == {"write", "sync", "syncDirectory", "remove"}

OwnerInv ==
  \A w \in Writers :
    /\ pc[w] \in Owning => mine[w] # NoFile /\ entry = mine[w] /\ mine[w] \notin acked
    /\ pc[w] = "syncRemoval" => mine[w] # NoFile /\ entry # mine[w] /\ mine[w] \notin acked
    /\ pc[w] = "idle" /\ mine[w] # NoFile => mine[w] \in acked /\ answer[w] = "Ok"

\* How much of its file a process has written at each step.
ProgressInv ==
  \A w \in Writers :
    /\ pc[w] = "write" =>
         content[mine[w]].length = content[mine[w]].valid /\ content[mine[w]].length < FileUnits
    /\ pc[w] = "sync" =>
         content[mine[w]].length = FileUnits /\ content[mine[w]].valid = FileUnits
    /\ pc[w] = "syncDirectory" => IsWhole(content[mine[w]])

\* What was promised, the path names and the disk holds.
PromiseInv ==
  /\ acked \subseteq {entry}
  /\ acked # {} => onDisk = {entry} /\ IsWhole(content[entry])

\* Files are numbered as they are created, and given to one process each.
NumberInv ==
  /\ entry <= created
  /\ \A i \in onDisk : i <= created
  /\ \A w \in Writers : mine[w] <= created
  /\ \A i \in Files : i > created => content[i] = Empty
  /\ \A v, w \in Writers : v # w /\ mine[v] # NoFile => mine[v] # mine[w]

IInv == TypeOK /\ OwnerInv /\ ProgressInv /\ PromiseInv /\ NumberInv
-----------------------------------------------------------------------------
LEMMA Sizes ==
  /\ FileUnits \in Nat \ {0} /\ HeaderUnits \in Nat \ {0} /\ HeaderUnits <= FileUnits
  /\ Files \subseteq Nat \ {0} /\ NoFile = 0 /\ NoFile \notin Files
  /\ MaxFiles \in Nat /\ MaxFaults \in Nat
BY DEF FileUnits, Files, NoFile

LEMMA FileNumbers ==
  ASSUME TypeOK
  PROVE  /\ entry \in Nat /\ created \in Nat /\ onDisk \subseteq Nat
         /\ \A w \in Writers : mine[w] \in Nat
<1>1. Files \cup {NoFile} \subseteq Nat
  BY DEF Files, NoFile
<1>2. entry \in Nat /\ onDisk \subseteq Nat /\ \A w \in Writers : mine[w] \in Nat
  BY <1>1 DEF TypeOK
<1>3. created \in Nat
  BY Sizes DEF TypeOK
<1> QED BY <1>2, <1>3

LEMMA InitHolds == Init => IInv
BY Sizes DEF Init, IInv, TypeOK, OwnerInv, ProgressInv, PromiseInv, NumberInv, Empty, Steps,
             Owning, NoFile, Files

\* The answers of create other than Ok.
LEMMA AnswerKeeps ==
  ASSUME IInv, NEW w \in Writers, NEW status \in {"None", "FileAlreadyExists", "IoError"},
         Answer(w, status),
         UNCHANGED <<entry, content, created>>,
         onDisk' = onDisk \/ (onDisk' = {entry} /\ acked = {}) \/ onDisk' = {entry},
         faults' \in 0 .. MaxFaults
  PROVE  IInv'
<1>1. /\ acked' = acked
      /\ pc' = [pc EXCEPT ![w] = "idle"]
      /\ mine' = [mine EXCEPT ![w] = NoFile]
      /\ answer' = [answer EXCEPT ![w] = status]
  BY DEF Answer, Goto
<1>2. TypeOK'
  BY <1>1, Sizes DEF IInv, TypeOK, Steps
<1>3. OwnerInv'
  BY <1>1 DEF IInv, TypeOK, OwnerInv, Owning
<1>4. ProgressInv'
  BY <1>1 DEF IInv, TypeOK, ProgressInv
<1>5. PromiseInv'
  BY <1>1 DEF IInv, TypeOK, PromiseInv
<1>6. NumberInv'
  <2>1. \A v \in Writers : mine'[v] = mine[v] \/ mine'[v] = NoFile
    BY <1>1 DEF IInv, TypeOK
  <2>2. \A v \in Writers : mine'[v] <= created
    BY <2>1, Sizes DEF IInv, TypeOK, NumberInv
  <2>3. onDisk' \subseteq onDisk
    BY DEF IInv, TypeOK
  <2>4. \A v, u \in Writers : v # u /\ mine'[v] # NoFile => mine'[v] # mine'[u]
    BY <1>1, <2>1 DEF IInv, TypeOK, NumberInv
  <2> QED BY <2>2, <2>3, <2>4 DEF IInv, NumberInv
<1> QED BY <1>2, <1>3, <1>4, <1>5, <1>6 DEF IInv

LEMMA CreateKeeps ==
  ASSUME IInv, NEW w \in Writers, pc[w] = "idle", mine[w] = NoFile, Create(w), UNCHANGED faults
  PROVE  IInv'
<1>1. PICK i \in Files : i = created + 1
  BY Sizes DEF IInv, TypeOK, Create, Files
<1>2. /\ entry = NoFile /\ entry' = i /\ created' = i /\ onDisk' = onDisk \cup {i}
      /\ pc' = [pc EXCEPT ![w] = "write"]
      /\ mine' = [mine EXCEPT ![w] = i]
      /\ content' = content /\ answer' = answer /\ acked' = acked /\ faults' = faults
  BY <1>1 DEF Create, Goto
<1>3. /\ acked = {} /\ content[i] = Empty /\ i \in Nat \ {0} /\ created \in Nat
      /\ \A v \in Writers : mine[v] # i /\ (pc[v] \notin Owning \/ mine[v] = NoFile)
  <2>1. acked = {}
    BY <1>2, Sizes DEF IInv, PromiseInv, TypeOK
  <2>2. i \in Nat \ {0} /\ created \in Nat /\ i > created
    BY <1>1, Sizes DEF IInv, TypeOK
  <2>3. \A v \in Writers : mine[v] # i
    BY <1>1, <2>2, Sizes DEF IInv, NumberInv, TypeOK
  <2>4. \A v \in Writers : pc[v] \notin Owning \/ mine[v] = NoFile
    BY <1>2 DEF IInv, OwnerInv
  <2> QED BY <2>1, <2>2, <2>3, <2>4 DEF IInv, NumberInv
<1>4. TypeOK'
  <2>1. created' \in 0 .. MaxFiles /\ entry' \in Files
    BY <1>1, <1>2, Sizes DEF Files
  <2>2. onDisk' \in SUBSET (Files \cup {NoFile}) /\ entry' \in onDisk'
    BY <1>2 DEF IInv, TypeOK
  <2> QED BY <1>2, <2>1, <2>2 DEF IInv, TypeOK, Steps
<1>5. OwnerInv'
  BY <1>2, <1>3, Sizes DEF IInv, TypeOK, OwnerInv, Owning
<1>6. ProgressInv'
  BY <1>2, <1>3, Sizes DEF IInv, TypeOK, ProgressInv, OwnerInv, Owning, Empty
<1>7. PromiseInv'
  BY <1>2, <1>3 DEF PromiseInv
<1>8. NumberInv'
  <2>1. entry' <= created' /\ \A v \in Writers : mine'[v] <= created'
    <3>1. \A v \in Writers : mine[v] <= created /\ mine[v] \in Int
      BY FileNumbers DEF IInv, NumberInv
    <3>2. \A v \in Writers : mine'[v] = mine[v] \/ mine'[v] = i
      BY <1>2 DEF IInv, TypeOK
    <3>3. created' = created + 1 /\ i = created + 1 /\ entry' = i /\ created \in Nat
      BY <1>1, <1>2, <1>3
    <3>4. ASSUME NEW v \in Writers PROVE mine'[v] <= created'
      BY <3>1, <3>2, <3>3
    <3> QED BY <3>3, <3>4
  <2>2. \A k \in onDisk' : k <= created'
    <3>1. \A k \in onDisk : k <= created /\ k \in Int
      BY Sizes DEF IInv, TypeOK, NumberInv
    <3> QED BY <1>1, <1>2, <1>3, <3>1
  <2>3. \A k \in Files : k > created' => content'[k] = Empty
    <3>1. \A k \in Files : k > created => content[k] = Empty
      BY DEF IInv, NumberInv
    <3> QED BY <1>1, <1>2, <1>3, <3>1, Sizes
  <2>4. (\A v, u \in Writers : v # u /\ mine[v] # NoFile => mine[v] # mine[u])'
    BY <1>2, <1>3 DEF IInv, TypeOK, NumberInv
  <2> QED BY <2>1, <2>2, <2>3, <2>4 DEF NumberInv
<1> QED BY <1>4, <1>5, <1>6, <1>7, <1>8 DEF IInv

\* A step of the owner of the path that changes its own file and its step.
LEMMA OwnerSteps ==
  ASSUME IInv, NEW w \in Writers, pc[w] \in Owning,
         NEW c \in [length : 0 .. FileUnits, valid : 0 .. FileUnits, synced : BOOLEAN],
         NEW step \in Owning,
         pc' = [pc EXCEPT ![w] = step],
         content' = [content EXCEPT ![mine[w]] = c],
         onDisk' = onDisk \/ onDisk' = {entry},
         UNCHANGED <<entry, mine, answer, acked, created>>, faults' \in 0 .. MaxFaults,
         step = "write" => c.length = c.valid /\ c.length < FileUnits,
         step = "sync" => c.length = FileUnits /\ c.valid = FileUnits,
         step = "syncDirectory" => IsWhole(c)
  PROVE  IInv'
<1>1. /\ mine[w] \in Files /\ mine[w] = entry /\ entry \notin acked /\ acked = {}
      /\ mine[w] <= created
  BY Sizes DEF IInv, TypeOK, OwnerInv, PromiseInv, NumberInv
<1>2. /\ content'[mine[w]] = c /\ \A i \in Files : i # mine[w] => content'[i] = content[i]
      /\ pc'[w] = step /\ \A v \in Writers : v # w => pc'[v] = pc[v]
  BY <1>1 DEF IInv, TypeOK
<1>3. TypeOK'
  BY <1>1, Sizes DEF IInv, TypeOK, Steps, Owning
<1>4. OwnerInv'
  BY <1>1, <1>2 DEF IInv, TypeOK, OwnerInv, Owning
<1>5. ProgressInv'
  <2>1. ASSUME NEW v \in Writers, v # w, pc[v] \in Owning
        PROVE  content'[mine[v]] = content[mine[v]]
    <3>1. mine[v] # NoFile /\ mine[v] \in Files /\ mine[v] # mine[w]
      BY <2>1 DEF IInv, OwnerInv, NumberInv, TypeOK
    <3> QED BY <1>2, <3>1
  <2>2. "write" \in Owning /\ "sync" \in Owning /\ "syncDirectory" \in Owning
    BY DEF Owning
  <2> QED BY <1>2, <2>1, <2>2 DEF IInv, ProgressInv
<1>6. PromiseInv'
  BY <1>1 DEF PromiseInv
<1>7. NumberInv'
  <2>1. \A i \in Files : i > created => i # mine[w]
    BY <1>1, Sizes DEF IInv, TypeOK
  <2>2. \A i \in Files : i > created' => content'[i] = Empty
    BY <1>2, <2>1 DEF IInv, NumberInv
  <2>3. entry' \in onDisk /\ onDisk' \subseteq onDisk
    BY DEF IInv, TypeOK
  <2> QED BY <2>2, <2>3 DEF IInv, NumberInv
<1> QED BY <1>3, <1>4, <1>5, <1>6, <1>7 DEF IInv

LEMMA WriteUnitKeeps ==
  ASSUME IInv, NEW w \in Writers, WriteUnit(w)
  PROVE  IInv'
<1> DEFINE f == mine[w]
           c == content[f]
           d == [c EXCEPT !.length = @ + 1, !.valid = @ + 1]
<1>1. f \in Files /\ pc[w] = "write" /\ pc[w] \in Owning /\ c.length = c.valid
      /\ c.length \in 0 .. FileUnits - 1 /\ c.synced \in BOOLEAN
  BY Sizes DEF IInv, TypeOK, OwnerInv, ProgressInv, Owning, WriteUnit
<1>2. content' = [content EXCEPT ![f] = d] /\ content'[f] = d
  <2>1. content' = [content EXCEPT ![f].length = @ + 1, ![f].valid = @ + 1]
    BY DEF WriteUnit
  <2>2. content' = [content EXCEPT ![f] = d]
    BY <1>1, <2>1 DEF IInv, TypeOK
  <2> QED BY <1>1, <2>2 DEF IInv, TypeOK
<1>3. /\ d \in [length : 0 .. FileUnits, valid : 0 .. FileUnits, synced : BOOLEAN]
      /\ d.length = c.length + 1 /\ d.valid = c.valid + 1
  <2>1. c \in [length : 0 .. FileUnits, valid : 0 .. FileUnits, synced : BOOLEAN]
    BY <1>1 DEF IInv, TypeOK
  <2>2. c.length + 1 \in 0 .. FileUnits /\ c.valid + 1 \in 0 .. FileUnits
    BY <1>1, Sizes
  <2> HIDE DEF c
  <2> QED BY <2>1, <2>2
<1>4. UNCHANGED <<entry, onDisk, mine, answer, acked, created, faults>> /\ faults' \in 0 .. MaxFaults
  BY DEF WriteUnit, IInv, TypeOK
<1>5. CASE c.length + 1 = FileUnits
  <2>1. pc' = [pc EXCEPT ![w] = "sync"] /\ d.length = FileUnits /\ d.valid = FileUnits
    BY <1>1, <1>2, <1>3, <1>5 DEF WriteUnit, Complete, Goto
  <2>2. "sync" \in Owning /\ "sync" # "write" /\ "sync" # "syncDirectory"
    BY DEF Owning
  <2> HIDE DEF d, f
  <2> QED BY <1>1, <1>2, <1>3, <1>4, <2>1, <2>2, OwnerSteps DEF f
<1>6. CASE c.length + 1 # FileUnits
  <2>1. pc' = [pc EXCEPT ![w] = "write"] /\ d.length = d.valid /\ d.length < FileUnits
    <3>1. pc' = pc
      BY <1>2, <1>3, <1>6 DEF WriteUnit, Complete
    <3> QED BY <1>1, <1>3, <1>6, <3>1, Sizes DEF IInv, TypeOK
  <2>2. "write" \in Owning /\ "sync" # "write" /\ "write" # "syncDirectory"
    BY DEF Owning
  <2> HIDE DEF d, f
  <2> QED BY <1>1, <1>2, <1>3, <1>4, <2>1, <2>2, OwnerSteps DEF f
<1> QED BY <1>5, <1>6

LEMMA FileSyncedIs ==
  ASSUME IInv, NEW w \in Writers, pc[w] = "sync", FileSynced(mine[w])
  PROVE  \E c \in [length : 0 .. FileUnits, valid : 0 .. FileUnits, synced : BOOLEAN] :
           IsWhole(c) /\ content' = [content EXCEPT ![mine[w]] = c]
<1>1. PICK f : f = mine[w]
  OBVIOUS
<1>2. f \in Files /\ content[f].length = FileUnits /\ content[f].valid = FileUnits
  BY <1>1 DEF IInv, TypeOK, OwnerInv, ProgressInv, Owning
<1>3. content[f] \in [length : 0 .. FileUnits, valid : 0 .. FileUnits, synced : BOOLEAN]
  BY <1>2 DEF IInv, TypeOK
<1>4. PICK c \in [length : 0 .. FileUnits, valid : 0 .. FileUnits, synced : BOOLEAN] :
        c = [content[f] EXCEPT !.synced = TRUE]
  BY <1>3
<1>5. IsWhole(c)
  BY <1>2, <1>3, <1>4 DEF IsWhole
<1>6. content' = [content EXCEPT ![f] = c]
  BY <1>1, <1>2, <1>4 DEF FileSynced, IInv, TypeOK
<1> QED BY <1>1, <1>5, <1>6

LEMMA SyncFileKeeps ==
  ASSUME IInv, NEW w \in Writers, SyncFile(w)
  PROVE  IInv'
<1>1. PICK c \in [length : 0 .. FileUnits, valid : 0 .. FileUnits, synced : BOOLEAN] :
        IsWhole(c) /\ content' = [content EXCEPT ![mine[w]] = c]
  BY FileSyncedIs DEF SyncFile
<1>2. /\ pc[w] = "sync" /\ pc[w] \in Owning /\ "syncDirectory" \in Owning
      /\ pc' = [pc EXCEPT ![w] = "syncDirectory"]
      /\ UNCHANGED <<entry, onDisk, mine, answer, acked, created, faults>>
      /\ faults' \in 0 .. MaxFaults
  BY DEF SyncFile, Goto, Owning, IInv, TypeOK
<1> QED BY <1>1, <1>2, OwnerSteps

LEMMA SyncDirectoryKeeps ==
  ASSUME IInv, NEW w \in Writers, SyncDirectory(w)
  PROVE  IInv'
<1>1. /\ pc[w] = "syncDirectory" /\ onDisk' = {entry}
      /\ pc' = [pc EXCEPT ![w] = "idle"] /\ answer' = [answer EXCEPT ![w] = "Ok"]
      /\ acked' = acked \cup {mine[w]}
      /\ UNCHANGED <<entry, content, mine, created, faults>>
  BY DEF SyncDirectory, DirectorySynced, Answer, Goto
<1>2. /\ mine[w] \in Files /\ mine[w] = entry /\ acked = {} /\ IsWhole(content[mine[w]])
  BY <1>1 DEF IInv, TypeOK, OwnerInv, ProgressInv, PromiseInv, Owning
<1>3. \A v \in Writers : v # w => mine[v] # entry
  BY <1>2, Sizes DEF IInv, NumberInv
<1>4. TypeOK'
  BY <1>1, <1>2 DEF IInv, TypeOK, Steps
<1>5. OwnerInv'
  <2>1. SUFFICES ASSUME NEW v \in Writers
                 PROVE  /\ pc'[v] \in Owning =>
                             mine'[v] # NoFile /\ entry' = mine'[v] /\ mine'[v] \notin acked'
                        /\ pc'[v] = "syncRemoval" =>
                             mine'[v] # NoFile /\ entry' # mine'[v] /\ mine'[v] \notin acked'
                        /\ pc'[v] = "idle" /\ mine'[v] # NoFile =>
                             mine'[v] \in acked' /\ answer'[v] = "Ok"
    BY DEF OwnerInv
  <2>2. CASE v = w
    BY <1>1, <1>2, <2>2 DEF IInv, TypeOK, Owning
  <2>3. CASE v # w
    BY <1>1, <1>2, <1>3, <2>3 DEF IInv, TypeOK, OwnerInv
  <2> QED BY <2>2, <2>3
<1>6. ProgressInv'
  BY <1>1 DEF IInv, TypeOK, ProgressInv
<1>7. PromiseInv'
  BY <1>1, <1>2 DEF PromiseInv
<1>8. NumberInv'
  BY <1>1 DEF IInv, TypeOK, NumberInv
<1> QED BY <1>4, <1>5, <1>6, <1>7, <1>8 DEF IInv

LEMMA CreateFailsKeeps ==
  ASSUME IInv, NEW w \in Writers, CreateFails(w)
  PROVE  IInv'
<1>1. /\ pc[w] \in Owning /\ "remove" \in Owning
      /\ pc' = [pc EXCEPT ![w] = "remove"]
      /\ UNCHANGED <<entry, mine, answer, acked, created>>
      /\ faults' \in 0 .. MaxFaults
  BY Sizes DEF CreateFails, CanFault, Goto, Owning, IInv, TypeOK
<1>2. /\ mine[w] \in Files
      /\ content[mine[w]] \in [length : 0 .. FileUnits, valid : 0 .. FileUnits, synced : BOOLEAN]
      /\ content = [content EXCEPT ![mine[w]] = content[mine[w]]]
  BY <1>1 DEF IInv, TypeOK, OwnerInv
<1>3. CASE UNCHANGED <<content, onDisk>>
  BY <1>1, <1>2, <1>3, OwnerSteps
<1>4. CASE pc[w] = "sync" /\ FileSynced(mine[w]) /\ UNCHANGED onDisk
  <2>1. PICK c \in [length : 0 .. FileUnits, valid : 0 .. FileUnits, synced : BOOLEAN] :
          IsWhole(c) /\ content' = [content EXCEPT ![mine[w]] = c]
    BY <1>4, FileSyncedIs
  <2> QED BY <1>1, <1>4, <2>1, OwnerSteps
<1>5. CASE pc[w] = "syncDirectory" /\ DirectorySynced /\ UNCHANGED content
  BY <1>1, <1>2, <1>5, OwnerSteps DEF DirectorySynced
<1> QED BY <1>3, <1>4, <1>5 DEF CreateFails

LEMMA RemoveKeeps ==
  ASSUME IInv, NEW w \in Writers, Remove(w)
  PROVE  IInv'
<1>1. /\ pc[w] = "remove" /\ entry' = NoFile /\ onDisk' = onDisk \cup {NoFile}
      /\ pc' = [pc EXCEPT ![w] = "syncRemoval"]
      /\ UNCHANGED <<content, mine, answer, acked, created, faults>>
  BY DEF Remove, Goto
<1>2. mine[w] \in Files /\ mine[w] = entry /\ acked = {} /\ mine[w] # NoFile
  BY <1>1 DEF IInv, TypeOK, OwnerInv, PromiseInv, Owning
<1>3. \A v \in Writers : v # w => pc[v] \notin Owning /\ mine[v] # entry
  BY <1>2 DEF IInv, OwnerInv, NumberInv
<1>4. TypeOK'
  BY <1>1 DEF IInv, TypeOK, Steps
<1>5. OwnerInv'
  <2>1. SUFFICES ASSUME NEW v \in Writers
                 PROVE  /\ pc'[v] \in Owning =>
                             mine'[v] # NoFile /\ entry' = mine'[v] /\ mine'[v] \notin acked'
                        /\ pc'[v] = "syncRemoval" =>
                             mine'[v] # NoFile /\ entry' # mine'[v] /\ mine'[v] \notin acked'
                        /\ pc'[v] = "idle" /\ mine'[v] # NoFile =>
                             mine'[v] \in acked' /\ answer'[v] = "Ok"
    BY DEF OwnerInv
  <2>2. CASE v = w
    BY <1>1, <1>2, <2>2 DEF IInv, TypeOK, Owning
  <2>3. CASE v # w
    BY <1>1, <1>2, <1>3, <2>3 DEF IInv, TypeOK, OwnerInv
  <2> QED BY <2>2, <2>3
<1>6. ProgressInv'
  BY <1>1 DEF IInv, TypeOK, ProgressInv
<1>7. PromiseInv'
  BY <1>1, <1>2 DEF PromiseInv
<1>8. NumberInv'
  <2>1. NoFile <= created
    BY FileNumbers, Sizes DEF IInv
  <2> QED BY <1>1, <2>1 DEF IInv, NumberInv
<1> QED BY <1>4, <1>5, <1>6, <1>7, <1>8 DEF IInv

\* What a power loss leaves of a file is a file, and of a whole one, all.
LEMMA LostIs ==
  ASSUME NEW c \in [length : 0 .. FileUnits, valid : 0 .. FileUnits, synced : BOOLEAN],
         NEW d \in Lost(c)
  PROVE  /\ d \in [length : 0 .. FileUnits, valid : 0 .. FileUnits, synced : BOOLEAN]
         /\ c.synced => d = c
<1>1. CASE c.synced
  BY <1>1 DEF Lost
<1>2. CASE ~c.synced
  <2>1. PICK S : S \in {{[length |-> n, valid |-> k, synced |-> TRUE] :
                           k \in 0 .. Minimum(n, c.valid)} : n \in 0 .. c.length} /\ d \in S
    BY <1>2, Zenon DEF Lost
  <2>2. PICK n \in 0 .. c.length :
          S = {[length |-> n, valid |-> k, synced |-> TRUE] : k \in 0 .. Minimum(n, c.valid)}
    BY <2>1, Zenon
  <2>3. PICK k \in 0 .. Minimum(n, c.valid) : d = [length |-> n, valid |-> k, synced |-> TRUE]
    BY <2>1, <2>2, Zenon
  <2>4. n \in 0 .. FileUnits /\ k \in 0 .. FileUnits
    BY Sizes DEF Minimum
  <2> QED BY <1>2, <2>3, <2>4
<1> QED BY <1>1, <1>2

LEMMA PowerLossKeepsInv ==
  ASSUME IInv, PowerLoss
  PROVE  IInv'
<1>1. /\ entry' \in onDisk /\ onDisk' = {entry'} /\ entry' \in Files \cup {NoFile}
      /\ pc' = [w \in Writers |-> "idle"] /\ mine' = [w \in Writers |-> NoFile]
      /\ answer' = [w \in Writers |-> "None"] /\ acked' = acked /\ created' = created
      /\ faults' \in 0 .. MaxFaults
  BY Sizes DEF PowerLoss, CanFault, IInv, TypeOK
<1>2. /\ content' \in [Files -> [length : 0 .. FileUnits, valid : 0 .. FileUnits, synced : BOOLEAN]]
      /\ \A i \in Files : i # entry' => content'[i] = content[i]
      /\ entry' # NoFile /\ content[entry'].synced => content'[entry'] = content[entry']
  <2>1. CASE entry' = NoFile
    BY <2>1, Sizes DEF PowerLoss, IInv, TypeOK
  <2>2. CASE entry' # NoFile
    <3>1. entry' \in Files
      BY <1>1, <2>2
    <3>2. PICK c \in Lost(content[entry']) : content' = [content EXCEPT ![entry'] = c]
      BY <2>2 DEF PowerLoss
    <3>3. content[entry'] \in [length : 0 .. FileUnits, valid : 0 .. FileUnits, synced : BOOLEAN]
      BY <3>1 DEF IInv, TypeOK
    <3>4. /\ c \in [length : 0 .. FileUnits, valid : 0 .. FileUnits, synced : BOOLEAN]
          /\ content[entry'].synced => c = content[entry']
      BY <3>3, LostIs
    <3> QED BY <3>1, <3>2, <3>4 DEF IInv, TypeOK
  <2> QED BY <2>1, <2>2
<1>3. TypeOK'
  BY <1>1, <1>2 DEF IInv, TypeOK, Steps
<1>4. OwnerInv'
  BY <1>1 DEF OwnerInv, Owning
<1>5. ProgressInv'
  BY <1>1 DEF ProgressInv
<1>6. PromiseInv'
  <2>1. SUFFICES ASSUME acked # {} PROVE acked \subseteq {entry'} /\ IsWhole(content'[entry'])
    BY <1>1 DEF PromiseInv
  <2>2. acked \subseteq {entry} /\ entry' = entry /\ entry \in Files /\ IsWhole(content[entry])
    BY <1>1, <2>1 DEF IInv, TypeOK, PromiseInv
  <2>3. content'[entry'] = content[entry]
    BY <1>2, <2>2, Sizes DEF IsWhole
  <2> QED BY <2>2, <2>3
<1>7. NumberInv'
  <2>1. NoFile <= created /\ entry' <= created
    BY <1>1, FileNumbers, Sizes DEF IInv, NumberInv
  <2>2. \A i \in Files : i > created => i # entry'
    BY <1>1, <2>1, FileNumbers, Sizes DEF IInv
  <2> QED BY <1>1, <1>2, <2>1, <2>2 DEF IInv, NumberInv
<1> QED BY <1>3, <1>4, <1>5, <1>6, <1>7 DEF IInv

-----------------------------------------------------------------------------
(***************************************************************************)
(* The invariant is inductive: one case for every action.                  *)
(***************************************************************************)
LEMMA NextKeeps == IInv /\ [Next]_vars => IInv'
<1> SUFFICES ASSUME IInv, [Next]_vars PROVE IInv'
  OBVIOUS
<1>1. CASE UNCHANGED vars
  BY <1>1 DEF vars, IInv, TypeOK, OwnerInv, ProgressInv, PromiseInv, NumberInv
<1>2. CASE PowerLoss
  BY <1>2, PowerLossKeepsInv
<1>3. ASSUME NEW w \in Writers, Working(w) \/ Failing(w)
      PROVE  IInv'
  <2>0. faults \in 0 .. MaxFaults /\ (CanFault => faults' \in 0 .. MaxFaults)
    BY Sizes DEF IInv, TypeOK, CanFault
  <2>1. CASE Open(w)
    <3>1. CASE Create(w)
      BY <2>1, <3>1, CreateKeeps DEF Open
    <3>2. CASE Exists(w)
      BY <2>0, <2>1, <3>2, AnswerKeeps DEF Open, Exists
    <3> QED BY <2>1, <3>1, <3>2 DEF Open
  <2>2. CASE WriteUnit(w)
    BY <2>2, WriteUnitKeeps
  <2>3. CASE SyncFile(w)
    BY <2>3, SyncFileKeeps
  <2>4. CASE SyncDirectory(w)
    BY <2>4, SyncDirectoryKeeps
  <2>5. CASE Remove(w)
    BY <2>5, RemoveKeeps
  <2>6. CASE SyncRemoval(w)
    BY <2>0, <2>6, AnswerKeeps DEF SyncRemoval, DirectorySynced
  <2>7. CASE OpenFails(w)
    BY <2>0, <2>7, AnswerKeeps DEF OpenFails
  <2>8. CASE CreateFails(w)
    BY <2>8, CreateFailsKeeps
  <2>9. CASE RemoveFails(w)
    BY <2>0, <2>9, AnswerKeeps DEF RemoveFails
  <2>10. CASE SyncRemovalFails(w)
    BY <2>0, <2>10, AnswerKeeps DEF SyncRemovalFails
  <2>11. CASE Restart(w)
    BY <2>0, <2>11, AnswerKeeps DEF Restart
  <2> QED BY <1>3, <2>1, <2>2, <2>3, <2>4, <2>5, <2>6, <2>7, <2>8, <2>9, <2>10, <2>11
          DEF Working, Failing
<1> QED BY <1>1, <1>2, <1>3 DEF Next

(***************************************************************************)
(* Ownership, progress, the promise and the numbering hold always, under   *)
(* any interleaving of processes, failures, kills and power losses.        *)
(***************************************************************************)
THEOREM CreationInvariant == Spec => []IInv
BY InitHolds, NextKeeps, PTL DEF Spec

(***************************************************************************)
(* Every variable keeps its type: no process is ever at a step, or has a   *)
(* file or an answer, that create does not have.                           *)
(***************************************************************************)
THEOREM TypeCorrect == Spec => []TypeOK
<1>1. IInv => TypeOK
  BY DEF IInv
<1> QED BY <1>1, CreationInvariant, PTL

(***************************************************************************)
(* A file open has answered Ok for stays at the path, with a whole header  *)
(* and padding.                                                            *)
(***************************************************************************)
THEOREM AckedIsKept == Spec => []AckedKept
<1>1. IInv => AckedKept
  <2>1. SUFFICES ASSUME IInv, NEW i \in acked
                 PROVE  entry = i /\ HeaderAnswer(content[i]) = "Ok"
    BY DEF AckedKept
  <2>2. entry = i /\ content[i].length = FileUnits /\ content[i].valid = FileUnits
    BY <2>1 DEF IInv, PromiseInv, IsWhole
  <2>3. /\ ~(content[i].length < HeaderUnits) /\ ~(content[i].valid < HeaderUnits)
        /\ ~(content[i].length < FileUnits)
    BY <2>2, Sizes
  <2> QED BY <2>2, <2>3 DEF HeaderAnswer
<1> QED BY <1>1, CreationInvariant, PTL

(***************************************************************************)
(* No two processes hold the same file open, and one that is told anything *)
(* but Ok holds none that was given away.                                  *)
(***************************************************************************)
THEOREM OneWriter == Spec => []SoleWriter
<1>1. IInv => SoleWriter
  <2>1. SUFFICES ASSUME IInv, NEW w \in Writers, mine[w] \in acked
                 PROVE  answer[w] = "Ok"
    BY DEF SoleWriter, IInv, NumberInv
  <2>2. mine[w] # NoFile /\ pc[w] \in Steps
    BY <2>1, Sizes DEF IInv, TypeOK
  <2>3. pc[w] = "idle"
    BY <2>1, <2>2 DEF IInv, OwnerInv, Owning, Steps
  <2> QED BY <2>1, <2>2, <2>3 DEF IInv, OwnerInv
<1> QED BY <1>1, CreationInvariant, PTL
=============================================================================
