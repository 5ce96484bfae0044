# Record Tract: a TLA+ development

This directory holds TLA+ modules for the C++ library in this repository: a
bounded in-memory record tape, the chain of stages that runs over it, and the
write-ahead log a persistence stage keeps. TLC checks the modules on small
instances; TLAPS proves the safety of the tract, the tape's lifetime and ring,
persistence, the creation, opening and reading of a WAL file, recovery, the
demonstration and the layout arithmetic for every value of their constants.

    tlc -config MCTract_safety.cfg MCTract.tla
    tlc -config MCPersistence.cfg MCPersistence.tla
    tlc -config MCWalReader.cfg MCWalReader.tla
    tlc -config MCTapeLifecycle_opened.cfg MCTapeLifecycle.tla
    tlc -config MCDemoApp.cfg DemoApp.tla
    tlapm TractProofs.tla      (and the other *Proofs.tla)

Paths below are relative to the source tree.

## 1. The system

| Component | State | Operations | Code |
|---|---|---|---|
| RecordTape | ring of `capacity` slots, `Head`, a reference to the terminal frontier (the tail), `open_`, `opened_once_` | `SetTailRef`, `open`, `try_publish`, `try_view`, `try_write`, `close` | `src/record_tract/record_tape.cpp` |
| Slider (a stage) | its frontier; in a call: current, range, records since the last publication | `process` | `include/fexma/record_tract/slider.hpp` |
| Module | the application's | `process(record)` answers true or false | application, `examples`, `tests` |
| Persistence | durable frontier, `failed_`, the open WAL | `open`, `process`, `close` | `src/wal/persistence.cpp`, `persistence.hpp` |
| PhysicalWalAdapter | descriptor; the file | `create`, `append_record`, `sync`, `close` | `src/wal/physical_wal_file.cpp` |
| WalReader, `scan_wal` | descriptor and offset, next sequence, latched failure | `open`, `read_next`, `close` | `src/wal/reader.cpp` |
| Recovery | none of its own; the file | `recover_incomplete_tail` | `src/wal/recovery.cpp` |
| Configuration and format | none | `valid_config`, strides and offsets, header codec, CRC | `src/wal/config.cpp`, `format.hpp`, `binary/little_endian.hpp` |
| Callers | threads that poll, flags that end them | loops around `try_publish` and `process` | `examples/basic_tract`, `tests/core/test_bare_pipeline.cpp` |

**How they interact.** There is no lock and no queue. The producer stores `Head`
with release order; stage 1 loads it with acquire, hands each new record to its
module and stores its own frontier; stage 2 loads that; the frontier of the last
stage is what the producer loads as the tail before it reuses a slot. Persistence
takes the place of a stage whose frontier moves only after `fdatasync`. The
reader and recovery work on the file, after or beside the writer, in another
thread or process.

**What is hard**, and what correctness means for each part:

* *Tract.* All safety rests on the order of N + 1 atomic counters. Loads may be
  stale; two of them made one after the other may disagree; modules fail in the
  middle of a range; passes, publications and ranges end on different records;
  the ring wraps. It is correct when no slot is overwritten while somebody may
  read it, every module sees every record once it is ready and in order, no
  fail-fast branch is reachable, and nobody waits forever.
* *Lifecycle.* Calls in any order; the terminal frontier belongs to somebody else
  and may die. It is correct when a tape has one lifetime, its topology does not
  change in it, and no dead frontier is read.
* *Persistence.* A crash, a power loss, a failed write or a failed sync at any
  point. It is correct when a downstream stage never acts on a record that can
  still be lost, the file stays a contiguous log with at most one incomplete
  record at its end, and a failure is final.
* *Creation.* Two processes on one path, rollback by name, kills and power
  losses. It is correct when `Ok` means a durable file of one owner.
* *Reader.* A file that is cut, damaged or still growing. It is correct when it
  delivers exactly the valid prefix and never calls a live log corrupt.
* *Recovery.* Interrupted and repeated. It is correct when it removes nothing but
  an incomplete last record, and what it answers `Recovered` stays so.

## 2. Plan

Written, in this order: `Pipeline` (abstract), `Tract` with `MCTract` and
`TractProofs`, `WalFile`, `Persistence`, `WalReader`, `Recovery`, `WalCreate`,
`TapeLifecycle`, `BarePipeline`; then `CheckedSizes`, `WalLayout`, the opening
checks of `WalReader`, the ring of `TapeLifecycle`, `DurableLog` (abstract),
`DemoApp`, `TapeLifecycleProofs`, `WalFileProofs`, `PersistenceProofs`,
`RecoveryProofs`, `WalCreateProofs` and `WalReaderProofs`; then `LogReading`
(abstract), the instance of `Recovery` in `Persistence`, and `DemoAppProofs`.

What composes what: `Tract` implements `Pipeline`, `Persistence` implements
`DurableLog` and `WalReader` implements `LogReading`; `Persistence` ends where
`Recovery` begins, of which it has an instance (`Repair`); `Persistence`,
`WalReader` and `Recovery` work on the file of `WalFile`; `WalReader` has the headers of `WalLayout`, which computes, as the ring
of `TapeLifecycle` does, with the checked operations of `CheckedSizes`.

Left: abstract specifications of creation and recovery, whose promises are stated
as invariants and action properties of the modules themselves.

Modules to be proved about use no RECURSIVE operator, name their assumptions on
constants, and have one action per operation.

## 3. Modules

Operators whose name says what is broken in them (`TailRelaxed`, `FailSoft`,
`CutToWholeRecord`, ...) are faults: each is a wrong variant of the definition
after it, used by no specification, and shows that some property notices it.

### Pipeline

The promise of a tract with no threads in it: counters `front[0]` (Head) to
`front[N]` (tail), a descending chain at most `Capacity` wide. `Publish` adds one
at the front, `Advance(i)` moves a stage up to the one before it. It has no run of
its own: `Tract` is checked to implement it, also under fairness, and its
properties `Bounded` and `AllDelivered` are stated of the tract's own frontiers
(`BoundariesHold`, `DeliversAll`).

### Tract

One action per step of the code that another thread can see between:

| Action | Code |
|---|---|
| `BeginPublish`, `CopyPayload`, `PublishHead` | `try_publish`: the loads and tests, the `memcpy`, the release store of Head |
| `Begin(i)` | `Slider::process`: the loads of its own and the upstream frontier |
| `ViewRecord(i)` | `try_view` of the current position |
| `UpdateRecord(i)` | a module's `try_write` into its record |
| `ModuleOk(i)`, `ModuleFail(i)` | the module's answer, and what is due after it |
| `PublishFrontier(i)` | the release store of the stage's frontier, by `publish` or `flush` |
| `Observe(o)` | `try_view` of any position by a thread that is not a stage |

*Memory model.* `released[l]` is the set of messages of location `l`: for every
release store, the view of its writer. `seen[t]` is thread `t`'s view: how much of
each counter happens before its next step. A load may return any message that is
not older than the thread's view; an acquire load joins the message's view into
the thread's, a relaxed one (the faults) takes the value alone. Every load of a
counter by another thread is an acquire in the code, so one view serves for
coherence and for happens-before. Slots are ordinary memory with one current
value, which is what a race-free program observes; `DataRaceFree` is checked and
proved, so the shortcut is sound.

*Data.* A payload is the position it was published at and the set of stages that
have updated it. That tells apart a lost, repeated, overwritten or half processed
record, which is what the properties are about.

### WalFile

The record format as pure operators. A unit is the smallest piece a write or a
crash can separate; a record is header units, payload units and zero padding.
`ReadAnswer` is what `read_next` answers at each record, in the code's order of
tests; `ValidRecords` and `ScanStatus` are `scan_wal`. A checksum is taken to
detect every change, so all invalid headers are one answer. `PowerLossImages` is
the environment's choice: any length from the synchronized part on, any
unsynchronized unit never written.

### CheckedSizes

The arithmetic of `std::size_t` and `std::uint64_t` values: sums, products and
differences modulo `SizeMax + 1`, and `checked_add`, `checked_mul` and
`checked_align_up` as the code has them, a test that may fail and a value that is
computed anyway.

### WalLayout

`valid_config` and `valid_runtime_config`, the strides, offsets and paddings of
`config.cpp` and `physical_wal_file.cpp` with types that wrap, and the file header
as a record of fields that are cast to the width the format gives them. A sealed
header holds a checksum over all its fields that notices every change.

### DurableLog

What persistence promises, with no file in it: a log that grows by records, a
promised prefix of it, what has been executed of that, and three phases,
`appending`, `stopped` and `gone`. `Stop` is final; `Lose` takes at most what has
not been promised.

### Persistence

`Begin` (the load of the upstream frontier and the size of the batch),
`AppendUnit` (a piece of `append_record`), `AppendFail`, `SyncOk`, `SyncFail`,
`PublishFrontier`, `Close`; `Publish` and `Execute` are its neighbours on the
tape, `ProcessCrash` and `PowerLoss` the environment. Memory order is `Tract`'s
subject: here a stale load is a choice of an older value of Head (`Available`).
`RefinesDurableLog` maps the file's valid records to the log, the frontier to the
promise, and `failed_`, `close` and the end of the process to the phase.
`Repair(kept, extra)` is module `Recovery` for a log of which `kept` records were
synchronized and `extra` units written after them. `RecoveryTakesOver` says that,
however the process ends, its file and what a power loss could still make of it are
an initial state of such an instance, with `kept` not below what has been promised.
So what a run or a theorem says of `Recovery` is about the files persistence
leaves, and not about files that were made up for it.
`MCPersistence` runs two instances, chosen at the start: that of its `.cfg`, with a ring
larger than a batch and too few sequences, and `Small`, with a ring smaller than a
batch and a sequence for every record, of which `EverythingExecuted` is asked
(`SmallRingDrains`).

### LogReading

What the reader promises, with no file in it: a cursor over a log that may grow.
`Deliver` hands on one record, `AtEnd` answers `EndOfLog` and `Fail` any error but an
input error, each of them only when everything that can be read has been; `Fail` is final
until `Close` and `Open`. `Refuse` is an open that fails.

### WalReader

`Open` is the twelve checks of `WalReader::open` in the code's order, the first
that fails being the answer (`OpenChecks`); it meets headers of other
configurations, of its own with any field changed, with or without a matching
checksum, cut anywhere, or with something in the padding. `OpenFails` is a missing
file or a failing read. `read_next` has its three reads (`ReadHeader`,
`ReadPayload`, `ReadPadding`), with `Grow`, the writer's next unit, between any
two of them; `ReadIoError` and `Close` end it. Files are all cut logs, and all
logs with one damaged unit or one record of another sequence at the end.
`RefinesLogReading` maps the valid records of the file as it is now to what is
written, and the latched failure to the state; a read inside a record stutters.

### Recovery

`Call`, `ScanBefore`, `Truncate`, `Sync`, `Rescan`, each of which may be the last
before an error, a kill or a power loss. `disk` is the set of contents a power
loss could leave at the moment: the truncation adds one, its synchronization
leaves only one. `acked` remembers the last answer that was ok, for the caller
that replays those records.

### WalCreate

`PhysicalWalAdapter::create` by several processes: `Open` (`O_CREAT | O_EXCL`),
`WriteUnit`, `SyncFile`, `SyncDirectory`, and `rollback_create` as `Remove` and
`SyncRemoval`, with a failure of each of them, `Restart` and `PowerLoss`.
`entry` is the file the path names, `onDisk` the set of what it may name after a
power loss. `HeaderAnswer` is what `WalReader::open` makes of the file.

### TapeLifecycle

Every call an owner can make on a tape in any order: `SetTailRef`, `Open` with any
configuration, valid or not, or without memory, `TryPublish`, `Access` (view and
write), `Advance` of the terminal stage, `Close`, and `Destroy` of a frontier's
owner when the contract allows it. `ring` is the allocation `open` makes, its
strides and offsets computed as the code computes them, modulo the width of
`size_t`. `SpecOpened` restricts `Close` to tapes that have been opened; `Spec`
does not.

### BarePipeline

The two threads of `producer_and_slider_wrap_concurrently`: their loops, `failed`
and `producer_done`, over atomic `try_publish` and the steps of `process`.

### DemoApp

The demonstration's three threads (`Producer`, `Slider(i)` for the validation and
the hash stage), the `failed` flag they share, the joins and the verdict of `main`.
`bad` is the record validation refuses, if any: the demo's own producer encodes
none that it would refuse, so this exercises the branch the code has for it.
Memory order and slots are `Tract`'s subject.

## 4. Runs

| Run | Shows | Bounds |
|---|---|---|
| `tract_safety` | type, data races, slots, content, order, publication lag, refinement of `Pipeline` | 3 stages, 2 of them updaters, capacity 2, 4 positions |
| `tract_fair` | the fair tract implements the fair pipeline and delivers every position; no thread, nor a third one that calls `try_view` for any position, reaches a fail-fast branch | 2 stages, 1 updater, 1 observer, capacity 2, 3 positions |
| `tract_inspect` | violation: see 6 | 1 stage, 1 observer, capacity 2, 3 positions |
| `persistence` | what is executed is recoverable, whatever fails when; it implements `DurableLog`; what it leaves is where `Recovery` starts; a ring smaller than a batch drains | records of 4 units, 4 sequences; batches of 2, capacity 3, 5 records, or batches of 3, capacity 2, 4 records |
| `wal_reader` | the checks of open against any header; exact layouts; the reader on cut, damaged and growing files implements `LogReading` | files of up to 3 records of 5 units, 3 sequences; four-bit sizes, every payload size and alignment, one changed header field |
| `recovery` | recovery loses nothing and settles | 1 durable record, 5 more units, 2 faults |
| `recovery_history` | violation: see 6 | the same |
| `wal_create` | one owner, a durable file, retry | 2 processes, 4 files, 3 faults |
| `tape_lifecycle` | one lifetime, no dangling tail, slots apart | 2 frontiers, 3 positions, four-bit `size_t`, payloads 0, 1, 3 and 15, capacities up to 8, alignments 1 to 4 |
| `tape_lifecycle_unopened` | violation: see 6 | the same |
| `bare_pipeline_verdict` | violation: see 6 | 5 messages, capacity 2 |
| `demo` | the demonstration ends, with the verdict its records deserve | 6 records, capacity 3, publication every 2, any record refused |

*Why the bounds are enough.* In `tract_safety` the ring of two slots wraps twice,
so a slot is reused while all three stages may hold a record; three stages are the
fewest for which a stage has an upstream that is neither Head nor its neighbour
and a downstream that is not the tail; `read_count` 2 and a first stage that
publishes in pairs put the ends of pass, publication and range on different
records; `MaxPosition` stands for 2^64 - 1, so the last position is reached. In
`persistence` the stream is longer than the ring and the sequences run out one
before it ends, and batches are full or short. Its second
instance (`Small`) has a sequence for every record, so only a failing write or sync or
the end of the process excuses it, and its ring is smaller than a batch: a
persistence that waited for a full one would wait forever. In `wal_reader` the last
sequence is the third record's, so a fourth is out of range. Sizes have four bits
there and in `tape_lifecycle`, and file offsets six, in the proportions of the
code: the sum of a header size and a payload size overflows the narrow types and
not the wide one, a stride times a capacity overflows both, and one configuration
fills its type exactly. In `demo` the records are twice the ring and publication
leaves both a full and a partial group, also before every record that can be
refused. In `recovery` the
unsynchronized part is one whole record and a piece of the next, the least that
has something to lose and something to cut. In `wal_create` there are more files
than faults, so the bound on files never stops a retry. What these
bounds leave open for the properties that are proved is closed by the proofs (7).

`CHECK_DEADLOCK FALSE` stands where the system may really stop: a process that is
gone, a tape that has terminated, a program that has ended. The tract, the reader, recovery and creation
never stop.

## 5. Fairness

* `Tract!FairSpec`: the producer and every stage are polled in loops by threads
  of their own, so their steps are weakly fair. A store becomes visible in finite
  time ([intro.progress]), so a load that could see something new does so
  eventually: that is weak fairness of the loading step, whose stale outcomes are
  stuttering. A module may refuse a record any number of times but accepts one it
  is offered again and again: strong fairness of `ModuleOk`, an assumption about
  the application without which a tract may stop rightly.
* `Persistence!Fairness`: the three roles run; nothing makes a write or a sync
  succeed, so the conclusion is "or failed, or ended".
* `DemoApp!FairSpec`: the three threads and `main` are run by the system, each
  weakly fair as one thread, not step by step.
* `Recovery!FairSpec`, `WalCreate!FairSpec`: a caller that is restarted calls
  again, and a call that is not interrupted goes on.

## 6. Where code and words differ

* `tract_inspect`. `try_view` loads the tail and then Head. A direct caller that is
  delayed between the two is told `Ok` for a position the ring has already
  reused; `doc/INVARIANTS.md:89` says that `Ok` means retained. A stage is safe,
  since its own frontier holds the tail back (`NeverTerminates`, `DataRaceFree`).
* `recovery_history`. `Clean` synchronizes nothing. Records a killed writer had
  written and not synchronized are reported and replayed, and may be gone after a
  later power loss; `doc/FILE_FORMAT.md:112` calls them authoritative history.
* `tape_lifecycle_unopened`. `close()` of a tape that is not open returns at once:
  it neither clears the tail reference, as `record_tape.hpp:62` says, nor ends
  the tape, as `doc/CONTRACT.md:132` says. A later `open()` is answered `Ok` and
  the first publish follows a reference to an owner that may be gone.
* `bare_pipeline_verdict`. The concurrent test may fail on a correct library: the
  consumer reads `producer_done` after an `Empty` that was true before the last
  records were published.

## 7. Proofs

Each module proves from the assumptions on the constants alone, which TLC
evaluates in the run of the module they are about.

| Module | Theorem | States |
|---|---|---|
| `TractProofs` | `Invariance` | `IInv` is an invariant, for every number of stages (also none), capacity, policy, set of updaters and observers, and position bound |
| | `TypeCorrect` | `TypeOK`; Head never passes the last position |
| | `FailFastUnreachable` | `NeverTerminates` |
| | `NoDataRace` | `DataRaceFree` |
| | `OrderedDelivery` | `DeliveredInOrder` |
| | `BoundedLag` | `PublicationLag` |
| | `SlotsExclusive` | `SlotExclusive` |
| | `Boundaries` | `BoundariesHold`: tail <= ... <= Head, at most a capacity apart |
| | `Refinement` | the tract implements `Pipeline!Spec` |
| | `ContentInvariance`, `ReadsWhatWasPublished` | what the slots hold; `ReadsPublished` |
| `TapeLifecycleProofs` | `TypeCorrect`, `NoDanglingTail`, `Boundaries`, `SlotsApart` | `TypeOK`, `NeverDangling`, `BoundariesHold` and `SlotsInRing` of `SpecOpened`, for every width of `size_t` and all configurations |
| | `AlignUpExact`, `MulExact`, `StorageExact` | the checked operations of `CheckedSizes` are exact when their tests pass, for every width |
| `WalReaderProofs` | `LayoutIsExact`, `OpensOnlyOwn` | `LayoutExact`, `OpensExactlyOwn`, for every width of the types, set of configurations and changed header |
| | `ReaderInvariant` | `IInv` is an invariant, for every record size, every file and a writer at work |
| | `TypeCorrect`, `ReadsValidLog`, `ReaderAgreesWithScan`, `LogIsNeverCorrupt` | `TypeOK`, `DeliversValidLog`, `AgreesWithScan`, `LogNeverCorrupt` |
| | `ReaderRefines` | the reader implements `LogReading!Spec` |
| `WalCreateProofs` | `TypeCorrect`, `AckedIsKept`, `OneWriter` | `TypeOK`, `AckedKept`, `SoleWriter`, for any number of processes, files and faults, and every header size |
| `PersistenceProofs` | `TypeCorrect`, `FileStaysLog`, `BatchStays`, `LossIsBounded`, `PromisedIsRecoverable` | `TypeOK`, `FileIsLog`, `BatchRetained`, `LossBounded`, `ExecutedIsRecoverable`, for every record size, batch and capacity |
| | `Refinement` | persistence implements `DurableLog!Spec` |
| | `HandsOver` | `RecoveryTakesOver`, for every record size, batch and range of sequences |
| `RecoveryProofs` | `TypeCorrect`, `DurableIsKept`, `RecoveredIsFinal`, `PrefixIsKept`, `CorruptionIsUntouched` | `TypeOK`, `DurableKept`, `RecoveredSurvives`, `PrefixKept`, `CorruptionUntouched`, for every file a writer can leave and any number of faults |
| `DemoAppProofs` | `VerdictIsExact` | `ExitIsExact`, for every number of records, capacity and publication policy |

*The tract.* None of the properties is inductive. What makes them hold is a
fact about every view a thread holds or a message carries: it is `Coherent`,
descending along the chain (whoever knows that stage 3 has handed on a record
knows that stages 2 and 1 have) and ahead of no frontier. Joining two coherent
views gives one (`JoinCoherent`), so an acquire load keeps it (`AcquireCoherent`),
and a release store keeps it because a stage never stores more than the upstream
frontier it has seen (`ReleaseStep`). With it a stage's range is below what it has
seen upstream (`StageInv`), its own frontier holds back any tail it may load
(`CurrentRetained`), and the producer's distance is at most the capacity
(`ProducerInv`). `NextInv` has one lemma per action. For the slots, two stages work
between different pairs of frontiers (`WorkingRange`), all of them within one
capacity (`RingBounded`), and positions less than a capacity apart have different
slots (`SlotsDiffer`). The refinement maps
`front[l]` to the latest stored value of location `l`; loads stutter.

*Contents of the slots.* `ContentInv` says of every position between the tail and
Head that its slot holds it (`Holds`), updated by every stage that has accepted it
and by none that could not have seen it yet. A copy by the producer goes to a slot
no retained position has (`FreeSlot`), and a stage's update to the slot of its own
position alone (`RetainedDiffer`). It needs the views of the tract's invariant, in this
and in the next state, because a frontier's latest value is not what a thread knows.

*The tape.* `LifetimeInv` says the tail is the tape's own boundary or alive until
`close`, which clears it; that holds only if `close` is not called on a tape that
was never opened, hence `SpecOpened`. `RingInv` ties the ring to a configuration
that `open` accepted. `BlocksApart` then bounds every slot by `StorageExact`: the
product that was tested is the largest, so no smaller one wraps.

*Layouts.* `AlignUpExact`, `AlignUpIsLeast` and `StorageExact` turn the tests of the code into bounds
on the exact values. The writer's padding is a cast of a difference in which one
side has wrapped in 32 bits; `CastUndoesWrap` shows that the two wraps cancel.

*Persistence.* `FileInv` places the end of the file: the records of the call under
way and the units of the one being written while nothing has failed, no further
than the batch after a failure, and never before the frontier, which is durable.
`PowerLossKeeps` carries the durable part through a power loss. From `WalFileProofs`
come what the reader makes of such a file (`LogIsValid`, `LogHasAllThatFit`), by the
greatest element of a bounded set (`GreatestOf`). For the refinement the records a
reader would find are exactly those the call has finished (`Logged`), and
`NextRefines` has one lemma per kind of step.

*From persistence to recovery.* The invariant above places the durable part somewhere
between the promise and the end of the file, which is not enough: recovery starts from
a synchronized part that ends with a whole record. `ImageInv` adds that. A
synchronization is only ever made when the batch is written out, so what is durable
is exactly the frontier's records or, until they are published, those of the call
(`Kept`); and after a power loss the file is one of the contents that log could be
left with. `RepairInit` compares the two modules' definitions, operator by operator.
Together with `DurableIsKept` it follows that no number of interrupted recoveries
loses a record that persistence had promised downstream.

*Recovery.* Every content a power loss could leave begins with the durable log
(`DiskInv`). `StepInv` says that what is about to be cut is what was scanned, that
after the cut the file is clean (`WholeRecordsAreClean`), and that a file reported
recovered is the only content of the disk. The answer to a record depends on its
own units (`AnswerIsLocal`), so cutting where the valid records end keeps them
(`CutKeepsValid`).

*Creation.* The argument is ownership (`OwnerInv`). From the exclusive creation to
the answer, or to the removal, the path names the file of the one process that
works on it, and nobody has been promised it. So a rollback, which removes by name,
removes its own file; a second process is refused while the name is there; and
when `Ok` is answered the file is whole and synchronized before its name is
(`ProgressInv`), so the disk can hold no other file under it (`PromiseInv`). Files
are numbered as they are created, which is why a new one is nobody else's
(`NumberInv`).

*The reader.* Each property speaks of a state in which the reader has answered;
between its reads it stands inside a record that the writer may be in the middle
of. `CursorInv` says where the descriptor is and that what has been read so far of
the record is right (`HeaderRead`, `PayloadRead`), `NextInv` that the next sequence
follows from the number returned, until the last sequence is used up, and `GotInv`
that every record returned is answered `Record` at its place. The writer only
appends, so none of this is undone (`SegmentIsLocal`, `GrowKeeps`); a failing read
finds what `ReadAnswer` says of the file at that record (`AnswerOfCut`,
`AnswerOfHeader`, `AnswerOfData`), if the file has stopped growing, and in a file
that is a log only a cut record can fail (`LogPart`, `LogPadded`). `AgreesWithScan`
then follows because the first record that is not answered `Record` is the number
of valid ones (`ValidRecordsIs`).

The bound `MaxUnits` on the file is assumed to hold no more records than there are
sequences: the persistence stage fails with `SequenceOverflow` instead of
appending a record after the last one. A reader is given any `first_sequence`, but
finds records only where it is the one of the file.

*The reader and its abstraction.* `AgreesWithScan` speaks of a file that has stopped
growing. For the refinement the same is needed of the moment of each answer, with the
writer alive: `Judged` says that a new answer other than a record or an input error is
what `ReadAnswer` makes of the file in that step, and is proved with the invariant, action by
action. Then no valid record is left (`NothingLeft`). A unit the writer adds makes at
most one more record readable (`GrowRefines`), and there are never more than there
are sequences (`RecordsHaveSequences`).

*Opening.* `PassedIsOwn` shows that a header that passes the twelve checks has, field
by field, what a writer records for the reader's configuration; the records
offset, which no configuration has as a member, follows from the alignment alone
(`OffsetOfAlignment`). `OwnIsPassed` is the converse: it needs that the offset of a
valid configuration is at least the header's size (`RecordsOffsetFits`), which is
where exact layouts come in.

*The demonstration.* Each Slider works in a range its upstream has published
(`StageInv`), and only its own step moves its frontier (`Others`), so an upstream never
moves back under the other one (`OtherKeeps`). `RefusalInv` is about the order in
`ReportFailure`: the flag is set after the flush, so whoever reads it can rely on
the frontier being at the refused record. A thread that returns without the flag
has its frontier at the end (`ReturnedInv`); with everything returned nothing moves
any more, and `main` judges a state that stays.

*Model-checked only.* Liveness (`RefinesFairPipeline`, `DeliversAll`,
`SmallRingDrains`, `Settles`, `Ends`): TLAPS does not reason about ENABLED and
fairness here. Every invariant and every action property of a passing run is
also a theorem.

## 8. Not modelled

* Bytes: field offsets, little-endian codec, CRC polynomial, payload encoding and
  hash of the demo and the tests. A header is a record of its fields, a record is
  units, and a checksum detects every change.
* Positions and sequences have no width: they are bounded by `MaxPosition` and
  `LastSequence`, where the code's tests for the last value are modelled. Sizes and
  offsets of layouts do have one.
* The reader reads padding in pieces of 4096 bytes, the model in one: the answers
  could differ only for a padding longer than that, damaged in one piece and cut in
  a later one.
* Calls that are refused and leave every state as it was: payload size and bounds
  errors (`InvalidPayloadSize`, `OutOfBounds`), the reader's `AlreadyOpen` and
  `Closed`; and allocation failures of the reader, which are
  its `IoError`.
* Windows and macOS variants of the system calls; one abstract file system serves.
  An interrupted call (`EINTR`) is retried by the code and is no step here.
* Removal or modification of the file by somebody outside the library while a
  writer has it open.
* A frontier that is not a stage's, and topologies other than a chain: the
  contract excludes them.
* The demo's command line and output; build files and packaging.
