# A formal model of `rolling_hash`

TLA+ modules, TLC configurations and TLAPS proofs for the delta tool of this
repository: `rolling_hash create OLD NEW DELTA` signs two files in
content-defined chunks and writes a delta; `rolling_hash apply OLD DELTA OUT`
reconstructs the new file; both stage their output and replace the destination
atomically; `rolling_hash view DELTA` lists what a delta holds. Source lines
below are those of `src/`, `PROJECT.json` maps each definition to its lines.

## 1. Inventory

| Component | State | Operations | Talks to |
| --- | --- | --- | --- |
| `OutputTransaction` (`OutputTransaction.cpp`) | `destination_`, `temporary_`, `inputs_`, `slot_`, a `FileIO`; the process-wide `staged_paths` | `open`, `commit`, destructor, `discard_all_staged` (from the signal handler) | file system, `FileIO`, `main`'s handler |
| `FileIO` (`FileIO.cpp`) | stream, `size_` snapshot, sticky `io_error_`, read-ahead `rbuf_[rpos_, rlen_)` | `open` (also exclusive), `close`, byte and chunk reads, seeks, writes | file system |
| `RKFinger` (`RK_finger.hpp`) | `fingerprint_`, window ring, `h_`, `mersenne_shift_` | constructor, `initialize`, `compute_next` | `Signature` |
| `Signature` (`Signature.hpp`) | `chunks`, `whole_hash_` | `generate_signatures` | `FileIO`, `RKFinger`, strong hash |
| `ChunkIndex` (`ChunkIndex.hpp`) | buckets with cursors | `find_unused` | `Delta` |
| `Delta` (`Delta.hpp`) | scratch buffers only | `generateImpl`, `createDiff` | `Signature`, `FileIO`, `DeltaWriter`, `OutputTransaction` |
| `Apply` (`Apply.hpp`) | none between calls | `apply_delta`, `applyDiff` | `Signature`, `DeltaReader`, `OutputTransaction` |
| `DeltaCodec`, `DeltaFormat` | `error_`, byte count | records, entries, opcodes, trailer, varints, predicted sizes | `FileIO` |
| `DeltaViewer` (`DeltaViewer.cpp`) | tallies of the walk | `view_delta`, `parseDiffData` | `DeltaReader`, `FileIO` |
| `main` | none | `run_create` (two threads), `run_apply`, `parse_size`, `view`, the signal handler, exit statuses | all |
| BLAKE2b, build, tests, fuzzers | | hashing | |

What is hard here, and what would make each part correct:

* **OutputTransaction.** Other processes, signals, kills, power losses and
  programs that rebind the destination get in between any two system calls.
  Correct means: a destination names its old content or one complete, durable
  new one; a failure leaves it alone; permissions carry over; nothing but the
  transaction's own staged file is ever removed; inputs are never replaced.
* **FileIO.** Byte reads, chunk reads and seeks share one stream and a
  read-ahead; an error may come with some bytes. Correct means that no byte is
  skipped or repeated and an error is never mistaken for the end of the file.
* **RKFinger and Signature.** 64-bit arithmetic with a fold in place of a
  division, and boundaries that must depend on content alone, because apply
  chunks the old file again and refers to its chunks by index.
* **Delta (create).** Two threads sign the inputs, then the inputs are read
  again, some bytes twice, while anybody may write to them. Correct means that
  a delta that was written applies and yields the new file.
* **Diff.** A frontier search with index arithmetic, two ways to give up, and a
  one-byte count. Correct means that the applier gets the new chunk back.
* **Apply.** A delta may be damaged in every way, the old file may be another
  one, and any read may fail. Correct means: exactly the described output, or
  none; bounded; and what create wrote is accepted.
* **DeltaCodec and DeltaViewer.** A reader that peeks to find out where a run of
  opcodes or the list of entries ends, over bytes that may be anything: a
  payload byte looks like a tag, a varint may be too long, a failed peek looks
  like the end. Correct means that the reader stays in step with the writer,
  that no delta is accepted but byte by byte the one that is listed, and that a
  failure to read is told apart from a corrupt delta.
* **parse_size.** Decimal digits and a binary suffix in 64 bits. Correct means
  the value the text spells, or a usage error.

## 2. Modules

| Module | Models | Relation to the others |
| --- | --- | --- |
| `AtomicReplace` | what staging promises: an output appears whole, in one step, before success is reported, or not at all | implemented by `OutputTransaction` |
| `OutputTransaction` | `OutputTransaction`, the exclusive open and write path of `FileIO`, the handler of `main.cpp` | `MCOutputTransaction` gives TLC's instances |
| `DeltaCreate` | `run_create`, two signature passes, `generateImpl` | over abstract units; `MCDeltaCreate` |
| `Patch` | one opcode and the tail copy of `applyDiff` | used by `Diff` and `DeltaApply` |
| `Diff` | `createDiff`: `myersSES`, `emitOpcodesFromSES`, `createGreedyDiff` | writes what `Patch` applies |
| `DeltaApply` | `parse_size`, `run_apply`, `apply_delta_impl`, `applyDiff`, `DeltaReader` item by item | `MCDeltaApply` builds the damaged deltas |
| `RollingHash` | `RKFinger` | used by `Signature` |
| `FileIO` | the reading half of `FileIO`, each operation as its set of outcomes | used by `Signature` and `DeltaViewer` |
| `Signature` | `generate_signatures` byte by byte | composes the last two; `MCSignature` |
| `DeltaCodec` | what `DeltaWriter` emits for each record, the sizes it predicts, the loop of `read_varint` | used by `DeltaViewer` |
| `DeltaViewer` | the writing of a delta, `view_delta`, `parseDiffData` and `DeltaReader` byte by byte | composes `DeltaCodec` and `FileIO`; `MCDeltaViewer` |
| `Induction_proofs` | induction over data and the folds of the community modules | extended by the proof modules below but the last |
| `FileIO_proofs` | theorems about the reads of `FileIO` | used by the next two |
| `Signature_proofs`, `DeltaViewer_proofs` | theorems about signing, the arithmetic of `RKFinger`, and `view` | |
| `DeltaCreate_proofs`, `Diff_proofs`, `DeltaApply_proofs` | theorems about create, its diffs, and apply | |
| `OutputTransaction_proofs` | theorems about staging, and its refinement of `AtomicReplace` | |

How state and actions correspond to the code:

* **OutputTransaction.** `pc[t]` is where transaction `t` stands between two
  system calls; `Open`, `CreateStaged`, `Track`, `InspectPermissions`,
  `CopyPermissions`, `Write`, `CommitClose` ... `CommitSyncDirectory`,
  `DtorClose`, `DtorRemove`, `DtorUntrack` are the statements of `open`, `commit` and the destructor in
  their order, each with its error return. A creation may fail whether or not
  its name is free (`CreateFails`), since `exists()` may fail as well. `table` is `staged_paths`; `slot` is
  `slot_` plus one. `dir` is the directory as the running system sees it,
  `pend[n]` the bindings of `n` that a power loss may leave; `cache` and `disk`
  count the chunks of a staged file the kernel and the disk have. `Signal`,
  `HandlerStep` (one slot at a time) and `HandlerReraise` are the handler; it
  runs on the interrupted thread, so nothing else of its process runs
  meanwhile. `Kill`, `PowerLoss` and `Rebind` are the environment. A staged
  file is the inode named after its transaction. Two transactions draw
  different candidate names (two random words and a counter in the code), but a
  name may be taken by an earlier run (`Taken`).
* **DeltaCreate.** `SignOpen/SignRead/SignEnd/SignFails` is a pass of one file,
  one unit at a time; `Join` is `get()`; then `OpenInput`, `Cover`, one action
  per kind of record, `VerifyOld`, the two probes, the trailer and `Commit`.
  `Change(f)` lets another program write at any moment. Whether a diff is
  shorter than the bytes it replaces is left open (`ReadBase` may take either
  record), which allows more behaviours than the code has. `whole` is
  `WholeFileHash::Compute`.
* **DeltaApply.** `ParseLimit` is the option `--max-output`, digit by digit in a
  word of `MaxWord + 1` values, and then the suffix; then one action per call of
  the reader, plus the reads of the old file and the write. `Open` takes the old
  file's size, `SignByte` reads one byte of it, whatever it holds by then, and
  `SignOld` compares what was read with that size and cuts it into chunks, so a
  change may leave chunks of a mixture. `deltaErr` and `oldErr` are the sticky errors of the two
  inputs. The output's own transaction appears by its verdict.
* **Diff.** The three functions as operators; the frontiers of all distances
  are a fold, as `trace` is in the code. The state machine creates the diff and
  applies it opcode by opcode with `Patch`.
* **Signature.** `FirstWindow`, `NextWindow`, `NextByte` are the three places
  of the loop that read; `End` is the residual chunk and `finish()`.
* **DeltaCodec, DeltaViewer.** A byte is a number below `2 * Group`, a varint
  carries `Group` values in each. `WriteEntry` and `WriteTrailer` write a delta
  as `processMultipleChunks` and `DeltaWriter` do, choosing the shorter of two records
  by the predicted sizes; `Damage` cuts it short or changes, loses or appends a
  byte. Then one action per read of the walk: `NextItem` and `AtOpcode` are the
  peeks of `next_item()` and `at_diff_opcode()`, `ReadNumber` is one byte of a
  varint, `ReadOpcode/ReadPos/ReadLength/ReadInline` an opcode, `ReadTrailer` the
  tag, the digest and the end of the file, which is `Finish`'s last check.
  `status` is the exit status, and `listed` the entries that were printed.

A digest is the bytes it digests, so two contents never share one; that is the
assumption on BLAKE2b under which every result below holds.

Operators with a comment "Mutant: ..." are broken variants of the definition
below them: each property is also run with such a variant in place of the
original, and fails, which shows that it depends on that piece of code.

## 3. Runs

| Run | Instance | Distinct states | Shows |
| --- | --- | --- | --- |
| `output_race` | two processes, one transaction each, same private destination, a leftover staged name, one slot, two attempts | 765,000 | types, `DurableWhole`, `FailureLeavesDestination`, `PermissionsCarriedOver`, refinement of `AtomicReplace` |
| `output_pool` | one process, two transactions of two writes, one slot, no `noreplace`, a leftover, one destination is an input, one rebinding by others | 51,500 | `StagedRemoved`, `InputsSurvive`, `LeftoversKept`, `EveryTransactionEnds` |
| `delta_create` | two chunks per file, four or five other contents of each, one change each | 31,600 | `DeltaApplies`, `SignedContentExisted`, `NoFalseAlarm`, `CreateEnds` |
| `diff` | all pairs of chunks of up to 5 bits, limit 6, checkpoint 4, count 2 | 20,300 | `RoundTrip`, `Shortest`, `WellFormed`, `EmptyMeansEqual` |
| `delta_apply` | nine texts of `--max-output` in words of four bits, one good delta and some 200 damaged ones, five old files of up to four bytes, one change | 1,087,000 | types, `ExactOutput`, `StagedAsDescribed`, `LimitExact`, `PatchBounded`, `GoodIsAccepted`, `ParsedExactly`, `ApplyEnds` |
| `view` | all deltas of up to two of six chunks, each cut anywhere and with every one-byte damage, bytes of three bits, varints of up to three bytes, buffer 4 | 590,000 | types, `ReadAheadIsNext`, `ViewsWhatWasWritten`, `TruncationNoticed`, `AcceptedIsLayout`, `ShorterRecord`, `StatusTellsWhy`, `NumberExact`, `ViewEnds` |
| `signature` | all files of up to 9 bits, window 2, chunks 3/5/6, buffer 3, 7 accepted parameter sets in 6-bit words | 1,680,000 | types and chunk sizes, `RollingIsDirect`, `CutsAreLocal`, `NoByteLost`, `WholeOrNothing` |

Why the bounds are enough for what they are meant to show. In the output runs
one slot is already too few for two transactions, two attempts give a
collision and a last attempt, and two processes on one destination give every
order of two renames; more of each repeats these cases, and the proofs cover
any number for the properties they state. In `delta_create` two chunks give a
reused one and a rebuilt or added one, with a boundary that a change can move,
remove or add. In `diff` limit, checkpoint and count are small enough that the
search succeeds, gives up at the limit and at the checkpoint, and counts are
split. In `delta_apply` the good delta has every kind of entry and a trailing
delete, and the damages are all single losses, repetitions, swaps, cuts and
insertions; the texts of the limit include one whose digits overflow, two that
the suffix shifts out and four that are no number. In `view`
three bits leave every tag a byte that payloads, digests and positions take as
well; the greatest index fills the last group of a varint, so that one more
bit overflows the word; and the buffer ends within every kind of field. In
`signature` the buffer is longer than the window and shorter
than a chunk, and the words are just wide enough for the accepted parameters,
so that a missing check wraps around; the moduli include Mersenne numbers that
must and that must not be folded.

Bounds by name: `NumSlots`, `MaxAttempts`, `Size`, `MaxRebinds`
(OutputTransaction), `MaxChunk`, `MaxChanges` (DeltaCreate, DeltaApply),
`MaxLength` (the old file; DeltaApply),
`MaxWord`, `Scale` (the suffixes; DeltaApply), `MaxLen`, `DLimit`,
`Checkpoints`, `MaxCount` (Diff), `MaxLen`, `WordSize`, `BufferSize`
(Signature), `MaxItems`, `MaxBytes`, `Group`, `BufferSize` (DeltaViewer).
`MaxRebinds`, `MaxChanges`, `MaxItems`, `MaxLength` and `MaxLen` bound the environment and
exist only for TLC; the others are parameters of the program.

Deadlock is checked in every run: only ended systems may stand still (`Ended`,
`Done`).

**Fairness.** `OutputTransaction`: weak fairness of each process's own steps,
as the operating system schedules runnable processes; no signal, kill, power
loss or rebinding is owed, nor that a creation gives up (`CreateFails`).
`DeltaCreate`: weak fairness of each signing thread and of the main thread;
`DeltaApply`: of the one thread; `DeltaViewer`: of the steps of `view` in which
no read fails. No read error, exception or change of a
file is owed, so the liveness properties hold without help from failures.

### Statements of the documentation that the code does not keep

Five runs are meant to find a violation; each states what a document or comment
says and quotes it in `PROJECT.json`.

| Run | Statement | What happens |
| --- | --- | --- |
| `output_signal_gap` | handled signals remove the staged file (README 252-254) | not between its creation and `track()` |
| `output_stub` | failures leave no staged file (README 295-296, `OutputTransaction.hpp:12-14`) | without `std::ios::noreplace`, a candidate that was created but not reopened stays |
| `delta_create_aba` | `verifyOldFile` covers the bytes diffs were computed from (`Delta.hpp:194-196`) | not if the old file changes and changes back |
| `delta_create_status` | status 2 when a file cannot be read (README 265) | the growth probes report a changed input, status 1 |
| `delta_apply_status` | the same | a failed peek for the first opcode reports a corrupt delta, status 1 |

`DeltaApplies` therefore assumes at most one change of the old file, and
`StagedRemoved` speaks of transactions that hold a slot when the signal comes.

## 4. Proofs

All proofs are checked by TLAPS, under the named assumptions of the modules and
nothing else: any sets of processes, transactions, paths and permissions, any
number of slots, attempts, writes and rebindings (`ConstantsAssumption`,
`DistinctAssumption`); any word and window (`RollingAssumption`), any sizes of
chunks with the window shorter than the shortest one (`SignatureAssumption`),
any read-ahead buffer (`BufferAssumption`), any groups of a varint
(`WidthAssumption`), any limit, checkpoints and count of a diff
(`DiffAssumption`), inputs of any length that change any number of times
(`CreateAssumption`). Two assumptions give the form of what apply is given:
`InputsAssumption` (a delta is a sequence of items, the chunks of an old file
are chunks, each what was signed at its place; which files there are to sign,
bounded by any `MaxLength`, is in `ApplyAssumption`) and `OptionsAssumption` (a
text of `--max-output` is digits and a suffix). One says what `Delta` hands to
its writer, `ChunkAssumption`: indices are words (they are `uint64_t`), payloads
are bytes and no longer than the maximum (`coversExactly`, `Delta.hpp:160-169`),
positions and lengths of an opcode fit their four bytes (they lie within a
chunk), inline runs can be counted in a byte (`emitInlineBytes`), an opcode
leaves the field it does not use as it is, digests have their length.
`LayoutAssumption` says of the format that the tags of opcodes, of entries and of
the trailer all differ. TLC evaluates all of them on the instances it checks.

**Induction_proofs.** The library's induction theorems take an operator as a
parameter, which the installed provers cannot instantiate. `SetInduction` says
the same of a set, from the least element every nonempty set of naturals has: a
set that contains 0 and the successor of each of its members contains every
natural number. A loop over data is then reasoned about through the set of the
lengths for which it does what it should. `FoldExists` and `FoldValues` use it to
show that the folds of the community modules, which choose a recursive function
over sets, have the values one expects (`PolynomialFold` for a number in
positional notation); each proof module turns a fold of its
model into the sequence of those values (`ConcatFold`, `OpcodesFold`,
`FrontiersFold`, `BacktrackFold`) and reasons about that. A fold of `+` over a
function takes its values in an order that nobody knows: `SumAnyOrder` shows that
it does not matter, `SumOneMore` that one value more is added.
`QuotientRecursion` gives the functions on all of `Nat` that are recursive in a
quotient, such as `Varint`.

**OutputTransaction_proofs.** The safety properties are not inductive: that a
destination names a complete file depends on what has been synced before the
rename, which depends on the phase, and that the rename moves the transaction's
own file depends on nobody else having bound its staged name. The invariant
`IInv` adds these facts to `TypeOK`:

* `ResultInv`: what the caller has been told, against the phase;
* `DataInv`: `disk <= cache <= written`; all is cached once closed and on disk
  once synced. The `closed` conjunct holds only while the process runs, since a
  power loss may take what is cached and not synced;
* `BindingInv`: only a transaction that has renamed is bound to a path, and
  only to its own destination; leftovers are bound to what they were;
* `StagedInv`: a candidate name holds the transaction's file or nothing, and
  the names not tried yet are settled.

`Inductive` proves `Spec => []IInv`, one lemma per part with one step per
action; `TypeCorrect`, `OutputDurable`, `FailureSafe` and `LeftoversSafe`
follow.

Three more invariants are inductive relative to `IInv`.
`InputInv`, no input of a transaction may have been unbound by one, gives
`InputsSafe`. `PermInv`, whose point is that `fchmod` precedes the first write
and nothing loosens the mode later, gives `PermissionsKept`. `RemovalInv` has
four parts: `NameInv` (a staged name is bound only to the file of the attempt
that made it), `SlotInv` (a slot holds the transaction that holds it),
`HandlerInv` (the handler visits every slot) and `GoneInv` (whoever must be gone
by now is); it gives `NothingLeft`, that is `StagedRemoved`.

`Refinement` proves `Spec =>
ImplementsAtomicReplace`. The mapping takes a path to the inode it names (to
`Torn`, a value the abstract module does not know, if that is incomplete),
`pend` to what may be durable, and a transaction between rename and return to
"published". The rename is `Publish`, the last step of `commit` is `Report`,
each error return is `Fail`; everything else stutters or is the environment.

**Signature_proofs**, the arithmetic. `NoWrapAround`: with accepted parameters no value that
`compute_next` builds exceeds a word, and each is within the bound that
`configure_fast_reduction` uses. `ReduceIsRemainder`: for such values both
paths of `reduce` give the remainder. `RollIsExact`: rolling takes the
fingerprint of a window to that of the next one. The
folds of `initialize`, of `h_` and of the hash by definition are turned into
sequences (`SeedFold`, `WeightFold`, `DirectFold`): seeding gives the hash of
the window (`SeedIsDirect`), `h_` is congruent to the power of the base that the
first byte is multiplied by (`WeightIsPower`), so taking that byte out leaves
the hash of the rest (`FirstByteApart`, `Evicted`), and `RollIsDirect` follows.

**FileIO_proofs.** Whatever a read returns and wherever it fails, the bytes are
the next ones of the file, and what stays in the read-ahead buffer is what
follows them (`ReadChunkReads`, `ReadByteReads`).

**Signature_proofs**, the loop. The invariant has `ReaderInv`, `ChunkInv` (sizes of the
chunks emitted and under way) and `PhaseInv` (the chunks tile the file up to the
position of the reader), which hold even while another program changes the
file, and `ContentInv`, which says what is in them as long as nobody does. The
fingerprint and the choice of cuts do not matter: `TypeCorrect`, `NothingLost`
and `WholeOrNone` hold for any. `FingerInv`, inductive relative to it, adds that
the window of the fingerprint is the end of the chunk under way and its value
the hash of that window, that the chunk has met no boundary yet, and that a
chunk emitted ends at its first one or at the end of the file; it gives
`RollingKept` and `CutsLocal`. The parameters need only be natural numbers that
the constructor accepts (`SignatureAssumption`).

**DeltaApply_proofs.** `TypeInv`, `PhaseInv` (an entry under way refers to a
chunk that exists, a patch is within its bounds), `TrailerInv` (the trailer was
the last item and digests the whole output) and `LimitInv` give `OutputExact`,
`LimitKept` and `PatchKeepsBounds`, for every delta of well-typed items.
`Staged` needs `StagedInv` besides, which holds while the old file does not
change: what has been signed is a prefix of it (`AsScanned`) and then all of it,
the output is what the first `entries` entries of the delta describe
(`Described`, a fold over the items), the counter is that of the entries before
the position of the reader (`Counted`), the entry under way is the next one of
the delta, a chunk that is to be copied without being verified again has the
entry's digest, and nothing is written before its digest has been compared.
`DescribedNext` lets the fold take one more entry. `LimitParsed` shows by induction over the digits
that the fold of `parse_size`, which refuses at the first digit that would not
fit, has the value of the number they spell as long as that is a word, and
refuses for good once it is not (`ParsedAs`).

**DeltaViewer_proofs.** `FileInv` (over `FileIO_proofs`), `NumberInv` (a varint
under way is below the weight of its next group) and `PhaseInv` give
`ReadAhead`, `StatusTold` and the action property `NumbersExact`, for every
delta, damaged or not. `AcceptedLaidOut` says that a delta view accepts is, byte
by byte, what is listed. Its invariant `ParseInv`, inductive relative to those,
is that what has been read (`Upto`) is the header, the entries listed (`Text`)
and the fields of the one under way (`Spelled`), and that a file that has
reached its end is known to have. Each read appends to both sides the same
bytes: `FixedLoad` (a number that was loaded is written as the bytes it was
loaded from), `GroupTaken` (a byte of a varint is kept, and so are the groups
before it: `DigitsKept`), `OpcodeLayout` (the sizes that `parseDiffData` adds up
are those of the opcodes), and for the file `Peeks`, `Bytewise` and `Chunkwise`,
which add to `FileIO_proofs` that a read that comes back short without an error
is at the end.

`ViewsWritten` and `CutsNoticed` are about a delta as it was written. That view
keeps in step with the writer cannot be read off the bytes consumed alone: bytes
of a digest or of a payload may look like tags, and a prefix of a delta may end
anywhere. The invariant `LockInv`, inductive relative to `IInv` and `ParseInv`
and checked by TLC on the instance of the run `view` before it was proved, says
at every place of the reader which fields of the next entry it has read
(`InStep`), as the values that were written, and that the bytes consumed (`Upto`)
and those of the fields still to come make up the record of that entry, which is
a beginning of the whole (`AllWritten`). A field that is read is then either the
one that was written (`FieldTaken`, `ByteTaken`), or too short, which has an
excuse (`Excused`): the read failed or the delta was cut. Whatever falls short
ends in a refusal, but for a run of opcodes that ends too early: the entry is
listed, and the reader, which will read nothing more, is `Stuck` just before its
refusal. `DivisionTwice`, `LoadsFixed` and `NumberNext` say that numbers are read
back as they were written: no check of `read_varint` refuses a byte of a word
that was written (`Continued`), and the value under way is its lower part
(`Lower`). `LockItem`, `LockTag`, `LockDigest`, ..., `LockTrailer` are the steps.

`RecordsAreShortest` is about the writer: `VarintWritten` (a varint
has as many bytes as `varint_size` says) and `RecordLength` make the sizes that
`Delta` weighs the true ones (`ChunkRecords`), `LeastChosen` says that its choice
is a shortest record, and `LengthInv` adds them up (`SumOneMore`). That what is
written consists of bytes, which the other proofs begin with, is a lemma
(`WrittenIsBytes`).

**DeltaCreate_proofs.** That a committed delta applies to the old file and
yields the new one, although both are read twice and written by others
meanwhile, depends on everything create has read so far. Beside the types and
`NoFalseAlarm`, the invariant `IInv` has these parts:

* `PhaseInv`: which signatures, counters and positions exist in which phase, and
  that the chunks of a signature tile what was read;
* `ContentInv`: what a signature says of a file that has not changed, or not
  while it was being signed;
* `VerifyInv`: a base that was taken without having been verified is the chunk
  as signed, or it is what is still in its place in the old file; so the
  verification that follows finds the difference. This is where at most one
  change of the old file is needed;
* `RecordInv` and `TrailerInv`: what the records written so far produce from the
  signed chunks is the new file as signed up to the next chunk, and the digest
  in the trailer is that of all of it.

`DeltaFits`, `SignedExisted` and `AlarmHonest` follow from it.

**Diff_proofs.** Both searches are seen as ways through the grid of the two
chunks: an edit script is a path from `<<0, 0>>` to `<<Len(old), Len(new)>>`
whose steps match equal bytes, insert or delete. `Leads` says the same of
opcodes, and `OpcodesReach` and `GreedyReach` that what is emitted for an edit
script, and by the greedy fallback, leads from the beginning to the end. That
the Myers search has an edit script to emit takes the most work. The frontiers
it keeps contain points that lie past one of the chunks, so it has to be shown
that no snake starts there and that the end test, which compares with `>=`,
first succeeds on the corner itself (`Within`, `Overshoot`, `EndsInCorner`), and
that the way back, which recomputes each snake from the point before it,
retraces the same steps and stays in the grid (`StepBack`, `RetracedStep`,
`BacktrackEdited`), wherever the inner loop broke off. `DiffReach` sums up: every
nonempty diff leads to the end. The invariant `Inv` of the machine says that the
opcodes left lead from where the patch stands to the end, and `DiffRoundTrip`,
`OpcodesWellFormed` and `EmptyDiff` follow, for every limit, every set of
checkpoints and every count.

**Only model-checked.** Liveness and whatever else needs `ENABLED` are outside
the prover's reach. `Shortest` (a Myers script is a shortest one) needs a lower
bound over all scripts, and `GoodIsAccepted` speaks of one delta that is built
for TLC. All other invariants and action properties that a passing run checks are
proved.

## 5. Not modelled

* The choice of a command by its arguments and the texts of messages and of
  `view`.
* BLAKE2b (a call into libcrypto); Windows-only code; SIGXFSZ, whose effect is
  a failing write; symbolic links and permissions of directories.
* `FileIO` in mode `INOUT`, where a write takes back what was read ahead: no
  caller in `src/src` writes a file it reads.
* The cursor of `ChunkIndex`: `Delta` never marks a chunk as used.

## 6. Plan

Order of work, most important first: (1) staging and its abstract
specification, since a mistake there destroys files; (2) create over changing
inputs; (3) the diff and its application; (4) apply over damaged deltas; (5)
chunking, its reads and its arithmetic; (6) proofs about (1) and the arithmetic
of (5); (7) the byte layout of a delta and `view`; (8) `parse_size`; (9) proofs
about the removal of staged files, about apply, view, the reads of `FileIO` and
signing; (10) induction over data, and with it proofs about create, about the
diff, about what apply stages and how it reads its limit, about the rolling
hash, about what view accepts, about the length of what is written, and about
the reader of `view` in step with the writer. These are done. What would come
next:

1. An abstract specification of apply (an output is the described one or none)
   that `DeltaApply` and `OutputTransaction` together implement.
