# A TLA+ verification of hep-hpc

hep-hpc is a C++ library for writing tables of physics data into HDF5 files
(`hep_hpc::hdf5::Ntuple` and the handle classes below it), and an MPI program,
`concat_hdf5`, that concatenates such files in parallel. This directory has TLA+
models of its control logic, TLC configurations that check them on small
instances, and TLAPS proofs of the most important invariants for all values of
the constants. Paths below are relative to `src/`; `HDF5FileConcatenator.cpp` is
abbreviated to HFC and `concat_hdf5.cpp` to main.

    tlc -config ConcatJobRuns.cfg ConcatJob      # one run; the table below has all
    tlapm Ntuple_proofs.tla                      # one module of proofs

## 1. The system

| component | state it keeps | operations | who it meets |
|---|---|---|---|
| Row numerology (`row_numerology`, HFC:176-279) | none: a pure function of a rank's cursors | split an iteration's rows over the ranks | called by every rank, which must agree without talking to each other |
| Concatenation of a dataset (`handle_dataset_`, `create_or_open_and_resize_dataset`) | `ConcatenatedDSInfo` per dataset and rank (cursor, chunk and buffer size), `buffer_`, the output dataset | create, resize, the read/write loop | all ranks, through collective HDF5 calls |
| Concatenation of the files (`concatFiles`, `visit_item_`) | the output's groups, `group_filename_column_ds_size_` | open an input, visit groups and datasets, extend the filename columns | calls the former for each dataset, as H5Ovisit's callback |
| Options (`ProgramOptions`) | the flags, the list of inputs, the position in the arguments | take options and their arguments, read list files, adjust them to library and number of ranks, refuse | decides how everything else works |
| main() and `MPIInstance` | return status, `want_abort` | start, catch, abort, finalize | all ranks |
| Error controller, `ScopedErrorHandler` | thread-local `mode_`, `storedHandler_`, HDF5's handler | set, save, restore, reset, call | every HDF5 call of the library |
| `Ntuple`: rows | `buffers_`, datasets, recursive `mutex_` | insert, flush, destructor, move, assign over | user threads; HDF5 calls and allocations that fail |
| `Ntuple`: construction (`makeGroup`, `makeDataset`, `make_ntuple`) | the file's groups and datasets | construct with or without overwriting | other constructors on the same file: no lock |
| `SimpleRAII`, `Resource` | a handle and its teardown | construct, move, swap, reset, release, destroy | HDF5's identifier table |
| Handle classes (`File`, `Group`, `Dataset`, `Dataspace`, `Datatype`, `PropertyList`) | one Resource each | create, adopt, observe, copy, reset, close | Resource and the error controller |
| `Column`, `make_column` | string type, three property lists | sort the lists given by role, chunk, copy | handle classes; the datasets of an Ntuple |
| `write_attribute` | three local handles | create and write an attribute | handle classes, the error mode |
| `MPICommunicator`, `MPIGroup` | an MPI handle in a SimpleRAII | adopt, create, copy, move | MPI |
| `concat-hdf5.py` | cursors of its own, per input | the older Python concatenation | all ranks, through collective writes |
| memstream, utilities, tests, examples, build | - | - | - |

What is hard about it: ranks must make the same collective calls with the same
arguments, each computing them from its own copy of the cursors (a slip is a
hang or two ranks in one row); the row arithmetic has five interacting
corrections; a rank that fails leaves its try block through the destructor of an
output that closes collectively; threads share an Ntuple through a recursive
mutex that exceptions have to give back; flushes fail column by column; two
constructors race for one name without a lock; one saved error handler serves
nested scopes; ownership of identifiers moves in two parts (handle and
teardown). `hazards` in PROJECT.json lists all of it line by line.

What makes each part correct, in one sentence: numerology - slices of the ranks
are disjoint, in bounds, fit the buffer, and every iteration progresses; dataset
- the output is the concatenation of the inputs, written once, with ranks in
lockstep; files - filename columns are as long as their group and name the right
file; options - no accepted combination is one that the library cannot do;
main - the status tells the truth and everybody ends; error controller - mode and
handler agree, scopes restore; Ntuple - rows are whole and in order in every
column; construction - one writer per group, nothing replaced without being asked
for; Resource - exactly one owner for each open identifier; attributes - the result
says what is in the file; columns - the dataset has the properties that were asked
for, or nobody gets one.

## 2. Modules

**RowNumerology** (pure operators). `RowNumerologyOf(info, done, threshold, rank)`
is the struct that `row_numerology()` returns; each local variable of the function
is an operator (`IncompleteChunkSize`, `MaxChunksPerRank`, `Leftovers`,
`CompletingRows`, `ExtraRows`, `ExtraRank`, `ExtraFits`, `Offset`).

**ConcatDataset** is one dataset over `NFiles` inputs on `NRanks` ranks. A
collective call is one action of all ranks, enabled when all have arrived;
everything else is a step of one rank. `options` are what the constructor is given
(memory, limit, collective writes), `formats` what the rows of each input are: their
shape, their size in bytes, their chunking. `CreateDataset` and `ResizeDataset` with
`EnterLoop` are the head of `handle_dataset_`; the first input fixes `layout`, with
`BufferRows` computed from the memory and the bytes of its rows, or `CreateFails`; a later
input of another shape is refused by each rank for itself (`RefuseInput`), before the
collective call. `PlanIteration` calls the numerology, `Read...`/`Write...` are
H5Dread and H5Dwrite with the selections that `prepare_dspace` makes (independent
or collective), `Advance`/`UpdateCursors` HFC:905-908, `EndInput` the return.
Each rank has its own `total`, `done`, `threshold`: that they agree is a property, not
an assumption. **ConcatAbstract** is what it promises: acceptable inputs appended whole,
up to `max_rows`. **ConcatRows** has the properties that compare with the whole
concatenation and the refinement mapping, **MCConcatDataset** the instances.

**ConcatPython** is the same job done by `concat-hdf5.py`: its own row arithmetic
(`ChunkedRows`, `ExtraRows`, `ExtraRank`, `Offset`), its own cursors, the current size
asked of the dataset anew for each input, and the first inputs that it cannot take apart
(`Dissectible`). Of h5py it has a variable, `idle_ranks`: whether a collective write works in which a
rank has no rows. When it does not, the ranks stay in it (`Hung`). **MCConcatPython** maps the
program to the same ConcatAbstract.

**ConcatFiles** is the walk over files, groups and datasets in any order in which
H5Ovisit may deliver a group before its members. Regular expressions are the sets of
groups they match. A file name is the number of the file. A dataset is copied in
one step. The conditions under which HDF5 refuses (a group whose parent is missing,
a column that would shrink) are failing actions (`VisitGroupFails`, `FillColumnFails`).
**MCConcatFiles** gives a tree of three groups and four datasets.

**ProgramOptions** takes one option after another from a command line of which only the
number of arguments left is known: `GiveOption` (the flags), `TakeArguments` (options
with values), `ReadList` (a list file; one that cannot be opened is one without names),
`BadOption`, and `ArgumentMissing`, an option at the very end whose argument is read behind
it: the verdict is then `undefined`. `EndOptions` makes the adjustments of main:441-487 in their order.
**ConcatJob** composes it with main(): starting MPI (`StartFails`: an error, or a thread
level other than the one asked for), options, opening the output, a number of
collective calls, unwinding, the collective close in the destructor, the catch blocks,
MPI_Abort, MPI_Finalize. A rank may fail between two calls (`FailsAlone`), or all
together in one (`CallFails`); after an undefined verdict each rank may refuse
(`RefuseOptions`), throw (`OptionsThrow`) or crash (`OptionsCrash`).

**ErrorController** has the configuration (mode and handler), the one slot
`storedHandler_`, the stack of live scopes (a history of what each found), and
exceptions under way. Everything in the code is thread_local, so one thread is enough.

**Ntuple** has threads that insert, flush and destroy, with the recursive mutex
(owner and depth), the capacity check, and one step for each column. A write fails
`before` anything has changed or `after` H5Dset_extent, which leaves a hole. Threads in
mode EXCEPTION leave the flush at the first failing column, unless it is the `query` of the
extents that fails, which is not called through ErrorController; others carry on. A column of
`StringColumns` is copied before it is written, and the copy can find no memory, in any
mode (`FlushColumnStarved`). An insertion
that fails in the middle of a row (`InsertColumnFails`) leaves the row torn. The destructor first
flushes, then closes its members outside the scope of its error handler (`CloseMembers`,
`CloseMembersFails`). `Move` leaves a shell behind, whose destructor may end the process
(`DestroyShell`), and `AssignOver` drops what is buffered. `lost` remembers which of
these ways of losing rows has happened, so that the properties can say that there is no other.
**NtupleTable** is the abstract append-only table; the mapping to it is at the end of Ntuple:
the table's file is what every column has of the rows, holes left out (`Written`).

**NtupleCreation** has the constructors of several threads on one name: `CreateGroup`,
`MakeRoom`, `CreateGroupAgain`, and the two families of constructors (on the program's file, and
by file name, which truncates). `datasets` has what is in each group; `makeDataset()` is called
for column after column (`next`), and nothing looks at what it brought about: each call puts its
dataset into the group or does not, because the group is not valid, because HDF5 fails
(`NoDataset`). That the constructor then ends by an exception is the doing of the handler that
`makeDataset()` sets (`MakeDatasetFails`), not of a test at the end of the constructor.

**Resource** has objects that each hold one Resource and the identifiers HDF5 has given:
all ways to construct, move, swap, copy, reset, release and destroy, with the
failures of creation and copying in both error modes, and `PropertyList::getClass()` with the
identifier it opens (`QueryClass`). A copy assignment of a class
is one action, with the move or reset that it is made of. The MPI wrappers hold their
handles in the same way; `AdoptPredefined` is MPI_COMM_WORLD.

**Attribute** extends it with `write_attribute()`: three locals that are objects of Resource,
one step for each call of HDF5, failures in both error modes and of memory before the last one, the destruction of the
locals in reverse order, and calls that are repeated for the same attribute.
**Column** is the way of property lists from `make_column()` to the dataset: `TakeList` sorts them
by role, `SetProperties` adds the chunks, `CopyColumnFails` is a failing copy,
`MakeColumnDataset` the creation with the defaults. **MCHandles** puts the two beside each other.

`..._proofs` modules hold the theorems. In every module an operator `...Bug`
stands just before the definition that it could replace: a plausible mistake at
that place, which breaks the property that guards against it.

The `map` of PROJECT.json gives the source lines of every definition.

## 3. What is checked

| run | module | shows |
|---|---|---|
| ConcatDatasetRuns | MCConcatDataset | collective and independent transfers, with and without a limit, with rows that fit the memory or not, inputs that fit together or not. Ranks meet in every transfer and every resize (`LockstepInTransfers`, `LockstepAtResize`), slices fit the buffer and lie in input, output and iteration (`BufferBound`, `TransfersInBounds`), no two ranks have a row in hand (`WritesDisjoint`) or a chunk in one call (`ChunksExclusive`), every row written is the right one (`RowsInPlace`), and none was written before (`RowsWrittenOnce`), within the limit (`MaxRowsRespected`), only tails shorter than a chunk are ever lost (`LossesAreShortTails`); with spare rows it refines ConcatAbstract (`ImplementsConcatenation`), and all ranks finish or all refuse (`Termination`) |
| ConcatDatasetLostRows | MCConcatDataset | *violation*: rows skipped (finding 1) |
| ConcatPython | MCConcatPython | the Python program refines the same ConcatAbstract wherever a chunk fits in the memory and the first input can be taken apart; it comes to the end unless it is caught in a collective write that h5py cannot do |
| ConcatFilesMixed | MCConcatFiles | filename columns complete, each row naming the file that triggered it; inputs are read unless one of two named conditions holds |
| ConcatFilesPartial | MCConcatFiles | *violation*: the column is cut off (finding 2) |
| ConcatJobRuns | ConcatJob | accepted options fit the library (`AcceptedFitsLibrary`); status 0 means that every rank did everything (`FailureReported`); option mistakes do not abort (`MistakesEndNormally`); what fails in all ranks or none ends in all (`EndsWhenFailingTogether`) |
| ConcatJobHang | ConcatJob | *violation*: a lone failure hangs (finding 3) |
| ErrorControllerScopes | ErrorController | `mode_` agrees with the handler; a scope inside which the slot is not used again restores |
| ErrorControllerRestore | ErrorController | *violation*: nested scopes (finding 4) |
| NtupleFailures | Ntuple | alignment, order, file prefix, complete destructor, capacity, refinement of NtupleTable, mutex given back, a destructor that survives what HDF5 does in its flush (`FlushSurvived`) and that itself ends (`DestructorEnds`) |
| NtupleCreationRaces | NtupleCreation | sole writer; a constructor that comes to its end has all its datasets in a valid group, and only failures leave incomplete groups (`LiveIsComplete`); kept or replaced only as asked |
| ResourceOwnership | MCHandles | no leak, one owner, no double close; the outcome of `write_attribute()` tells what is in the file (`TruthfulResult`) and its destructors do not change it (`QuietReturn`); datasets are made with the lists that were asked for (`DatasetAsRequested`) |

### Findings

1. *Lost rows* (HFC:246). `extra_rows` is counted into the iteration before the test
   whether it fits the buffer. With a buffer of whole chunks and a tail that does
   not fit, the cursors pass it and nobody writes it. The comment at HFC:247-248 promises "another iteration".
2. *Filename column* (HFC:693-702). An input with some datasets of a group but not the
   longest makes `required_size` smaller than `current_size`: the column is shrunk and the
   unsigned difference wraps. The usage text says it has as many rows as the largest dataset.
3. *Lone failure* (main:733). Unwinding destroys the concatenator, whose File closes
   collectively, before `abort()`. The others wait in another call: nobody goes on.
4. *Nested scopes* (errorHandling.cpp:102). One slot: the inner scope overwrites what the
   outer one saved, the inner exit resets it, and the outer exit installs the system default
   instead of the handler it found. The run is over `ScopesSpec`: set, enter, leave, no misuse.

Further divergences the models contain, for which the properties above are
weakened by a stated condition instead of having a run of their own:

* a selected group in a group that is not selected cannot be created (HFC:756;
  `ParentLeftOut` in `InputsReadOrExcused`);
* HDF5 1.10.2, one process, `--mpi-io`: collective writes are switched off, filters
  stay (main:451; the condition of `FiltersNeedCollective`);
* `--append` is always refused, as `overwrite_` is true by default (main:478);
* an option that needs an argument, at the end of the command line, reads behind it
  (main:146); a list file that cannot be opened is an empty one, and the run succeeds
  (main:155; `ReadList`); MPI with more thread support than asked for is refused
  (MPIInstance.cpp:13);
* a later input whose type is wider than the first's is read into a buffer whose rows were
  counted by the first's size (HFC:470, 878; the condition of `BufferBound`);
* a write that fails after the dataset was extended leaves a hole, and the retry writes
  behind it (Ntuple.hpp:636; `NoHoles` in `Aligned`, `FileConsistent`, `NothingLeftBehind`.
  `HolesOnlyShift` says what still holds);
* an exception in the middle of insert() leaves the columns before it one row longer
  (Ntuple.hpp:740; `Whole`);
* a close that fails in `~Ntuple()` ends the process in mode EXCEPTION, and goes
  unnoticed otherwise: the handler that the destructor installs covers only its body
  (Ntuple.hpp:540; a named exception of `FlushSurvived`);
* the flush of a column of strings allocates a vector of pointers (Ntuple.hpp:677, 700); when that
  fails in `~Ntuple()`, which is noexcept, the process ends in every error mode (the other named
  exception of `FlushSurvived`);
* the destructor of a moved-from Ntuple locks a mutex through a null pointer, and assigning to
  an Ntuple drops the rows it has buffered (Ntuple.hpp:282-284; `shells`, `Kept`);
* after a flush in which only a later column failed, that column's buffer can outgrow its
  capacity, since insert() looks at column 0 (Ntuple.hpp:592; `CapacityUntilFailure`);
* any failure to create a group is reported as an existing group
  (NtupleDataStructure.cpp:12);
* `PropertyList::getClass()` never closes the class it asks for (PropertyList.cpp:33;
  `dropped` in `NothingLeaks`);
* a failing `write_attribute()` can leave an attribute without a value, which makes every
  later call for that name fail (write_attribute.cpp:105-132; second part of `TruthfulResult`);
* `elementsPerChunk` given without a creation list makes a list without the default
  compression (make_column.hpp:201; `Requested`), and in modes without exceptions failures
  in `setColumnProperties()` lose lists without a word (`hushed` in `DatasetAsRequested`);
* `concat-hdf5.py` hangs in a collective write (line 230) in which a rank has no rows, with h5py 2.8.0 or
  whichever cannot do it; test/concat_hdf5/CMakeLists.txt:92-95 keeps the program out of a test for that
  reason and demonstrate_h5py_cw_issue.py shows it. `PyImplementsConcatenation` excuses the program from
  coming to the end then (`Hung`), not from the rest;
* it makes no progress when a chunk does not fit into the memory and the input
  is longer than a chunk (line 209; `Roomy`), and raises on a first input without rows
  or chunks, or with attributes (lines 187-195; `Dissectible`). Its extra rows may also take
  a rank beyond the number that `mem_max` allows; nothing overflows, as there is no buffer.

### Bounds, and why they are enough

* ConcatDataset: three ranks are the first number with a rank that is neither first nor
  last (leftover chunks, extra rows and the incomplete chunk can fall to three
  different ranks); chunks of 1 to 4 rows, memory for 0 to 6 bytes, inputs of 0 to 9 rows
  cover several iterations, empty slices and every remainder; two inputs give a second
  one that starts anywhere in a chunk. `Instance` selects which of these are combined:
  all of them for collective transfers of rows of one byte; rows of two bytes or none and other
  shapes with fewer sizes; independent transfers with a limit of 7 and inputs of 0 to 5
  rows, because their interleavings multiply. `Roomy` layouts have
  the spare rows without which finding 1 makes the refinement false. The lost rows are
  shown with one rank and one chunk.
* ConcatPython: the same ranks, inputs, chunks and memory; the first inputs it fails on
  with chunks of 0 or 2 and rows of 0 or 2 bytes; and h5py with and without collective writes of
  ranks that have no rows, which most inputs of so few rows lead to.
* ConcatFiles: three files let one grow, one lack and one overtake a column; two datasets
  suffice for "not the longest"; a nested group for selections; `MaxRows` 3 lies inside the
  third file. The violation has no limit and a single group.
* ConcatJob: one to three ranks (one is special in the options), one to three calls:
  a failure before, between and in the last call; five arguments (`MaxArguments`) set any two
  flags with an option with an argument and one without; lists of none or one file (`MaxListed`).
* ErrorController: three live scopes; three handlers of the program's own. The theorems
  have no bound.
* Ntuple: two threads, one in each error mode; two columns, one of strings; a buffer of two rows; three
  rows (a full buffer and one more) and two failures of any kind, so that a retry can fail; one
  moved-from object at a time (`MaxShells`).
* NtupleCreation: two makers, with each set of overwriters; four groups and two failures
  in a behaviour.
* Resource: three objects (source, target, bystander) beside the three locals of
  `write_attribute()`, five identifiers; lists of up to three properties (`MaxLists`), so that one
  can repeat, and two failures (`MaxHDF5Failures`).

Bounds on counters (`MaxRows` and `MaxFailures` of Ntuple, `MaxGroups` and `MaxFailures` of
NtupleCreation, `MaxShells`, `MaxArguments`, `MaxListed`, `MaxLists`, `MaxHDF5Failures`, `MaxDepth`,
the finite `Ids`) are guards named so in the modules.
Deadlock is checked in the ConcatDataset, ConcatPython and ErrorController runs; it is switched off
where the program ends (ConcatFiles, ConcatJob, a destroyed Ntuple) or where a bound
stops it (NtupleCreation, Resource).

### Fairness

ConcatDataset: weak fairness of every rank's own steps and of each collective call
that all ranks have entered: MPI processes run, and MPI completes a collective that
everybody entered; ConcatPython likewise, but for the write that h5py cannot do (`Hung`). ConcatFiles: weak fairness of the sequential program. ConcatJob: the
command line is finite and is read to its end, ranks run, joint calls complete; `FailsAlone` is not fair. Ntuple: a
thread in a call that can run is run; nothing is assumed about who gets the mutex,
and nobody has to start a call, a destructor that was begun excepted, which is a call under way. The other modules have no liveness property and no fairness.

## 4. What is proved

All theorems hold for every value of the constants under the named assumptions in the
modules (for instance chunk sizes positive, `MaxRows` any integer, thread and
object sets arbitrary, also infinite).

* **ConcatDataset_proofs** begins with the arithmetic: `IterationProgress` (with rows left and a
  buffer, an iteration advances by at least one row and not beyond the end), `RankRowsFitBuffer`,
  `RankSliceInIteration`, `RankSlicesDisjoint`, `RankSlicesCover` (each row of an iteration belongs to some
  rank, the rows that complete an input excepted when they do not fit). It is nonlinear (quotients by
  chunk size and rank count); lemmas isolate each quotient, the monotonicity of products and the
  telescoping of the ranks' offsets.
  Then the ranks: `IInv` = types; `LayoutFits` (what the first input has decided: rows
  that fit the memory, and as many as it has room for); `Phases` (ranks are at most one resize
  apart, those that refused an input included); `Anchored` (each rank's cursors are measured from the
  shared extent: `total - done = extent - threshold`); `PlansCurrent` (the plan of a transfer is
  that of the cursors); `CursorsAgree` (collective mode); the limit. The properties
  alone are not inductive: lockstep needs that each rank's threshold was computed from the
  same extent, which `Anchored` with `Phases` remembers. Corollaries: `TypeCorrect`, `ResizesInLockstep`,
  `TransfersInLockstep`, `BufferNeverOverrun` (in bytes, from `RankRowsFitBuffer` and `LayoutFits`),
  `SelectionsInBounds`, `LimitRespected`, and `ChunksHaveOneWriter`: in a collective call two slices
  meet at the end of a chunk, also when the iteration begins within one (`IncompleteChunkSize`).
* **ConcatRows_proofs** is about what is in the output. With independent transfers a rank can be several
  iterations ahead of another, with slices of its own; that it still writes nobody else's rows is because all
  ranks go through the *same* iterations, if not at the same time. `SameIterations` says so: the cursor
  of every rank is in `CursorPositions`, the smallest set that has 0 and is closed under `NextCursor`. The
  lemmas `IterationsFollowOneAnother` (no position lies inside another's iteration) and `IterationsCover` (every
  row lies in one) do the rest. `Deposited`: what a rank had to write in the iterations behind it is
  there, and nothing else of the input is (`NothingAhead`); when the last rank leaves an input, `IterationsCover` and `RankSlicesCover` make of this that all of
  the input is there but a short tail. `AnchoredInInputs` ties the cursors to the concatenation (`Start` of
  each input, with the limit). `RowsInv`, with `IInv`, is these with `RowsInPlace`, `LossesAreShortTails` and
  `ShapesMatch`. Theorems `RowsAreInPlace`, `OnlyShortTailsLost`, `EveryWriteDisjoint`, `NoRowWrittenAgain`
  (the row that a rank has in hand is unwritten: what is written belongs to a slice that its rank has
  behind it, and `OneIteration` says that a row belongs to one slice of one iteration), and
  `ConcatenationImplemented`: under the mapping, each step is a step of ConcatAbstract or none. Only
  the step in which the last rank leaves an input (`EndMaps`) appends; there `Roomy` excludes the lost
  tails. This is the safety half (`AppendsInOrder`) of `ImplementsConcatenation`.
* **ConcatFiles_proofs**, for any tree of groups and datasets, any inputs and any number of them: in
  `IInv` an entry of `group_filename_column_ds_size_` is either at rest (`AtRest`: its column is as long
  as the largest dataset and its `required_size` is that length, or 0 for an entry just begun) or in
  progress (`Pending`), and then `Growing`: what the datasets have beyond the column are rows of this file,
  and `required_size` is the length of a dataset that the file has been through. A group that an input
  lacks goes from rest to progress with the `required_size` of the past; that this does no harm is what
  `ColumnsCompleteAtOpen` is about, and the step that needs "at rest, it equals the column's length". Rows
  come from opened files (`FromOpened`), in order, so that a later row never brings an earlier name
  (`NamesTrigger`). Theorems `TypeCorrect`, `ColumnsComplete`, `NamesCorrect`.
* **Ntuple_proofs**: `IInv` = types, `Locking` (who is in the critical section has the mutex, with the
  right depth), `Destruction` (the destructor runs alone and empties one buffer after the other; when
  the Ntuple has ended otherwise, nothing runs), and, while no row is torn, `ColumnsComplete` (what is
  written of each column, holes left out, with its buffer is `accepted`, plus the row in progress for the columns
  already reached) and `WrittenPrefix`. It is about the columns *with* holes: that `Aligned`, `FileConsistent` and
  `NothingLeftBehind` hold without them follows, as a column without holes is what is written of it
  (`WrittenOfWhole`). `Aligned` speaks only of moments without a lock and so is not inductive. Theorems
  `TypeCorrect`, `RowsOnlyShift`, `ColumnsAligned`, `FileAlwaysConsistent`, `DestructorCompletes`,
  `FlushFailureSurvived` (an action property, from `Destruction`) and `CapacityRespected`, which needs `Level`
  beside `IInv`: without failures all buffers are equally long, up to the column that an insertion or a flush has
  reached. `TableImplemented` is the refinement of NtupleTable, whole, as that has no fairness: an insertion
  appends when it ends, the flush of the column that has the fewest rows persists, the close of the destructor
  closes, and no other step of any thread changes anything of the table.
* **NtupleCreation_proofs**: `IInv` = types, an open file by name excludes the program's
  own, a maker at column `next` has the datasets of the columns before it, in a valid group
  (`DatasetsInOrder`), incomplete groups without failures are under construction
  (`LeftByFailures`), `SoleWriter` and `KeptUnlessOverwritten`. `LiveIsComplete` follows: at the end `next` is beyond the columns. Theorems `TypeCorrect`, `GroupHasOneWriter`, `ConstructedIsComplete`,
  `NothingOverwritten`, and the action property `NamesReplacedByOverwriters`.
* **Handles_proofs**, of Resource: types, `NothingLeaks` and `SoleOwner` are inductive together (no leak alone
  is not: an identifier with two owners leaks nothing until one of them closes it). Of Attribute:
  the invariant of Resource carries over, for the locals are objects like others;
  with it, which locals live at which step, and how `attribute` and `before` are related there.
  Theorems `LocalsNeverLeak`, `ResultIsTruthful`, `ReturnIsQuiet`: a local that holds the -1 of a
  failure exists only in modes in which its teardown does not throw. Of Column (`ColumnSpec`): while
  the lists are looked at they are of different roles, and each is in its slot or its copy has failed (`Sorted`); a column
  then has what was asked for, or a copy that nobody can use, or a failure was hushed up
  (`SlotsKept`). Theorem `ColumnsAsRequested`, for arguments of any number and lists with any chunks.
* **ConcatJob_proofs**, of ProgramOptions and main(), for command lines of any length, any number of ranks and calls:
  in `JobIInv` a rank's place follows from the verdict on its options (`PlacedByVerdict`: no work without accepted
  options), a failure is on its way to the rank's status or has got there (`Remembered`), who leaves the
  try block otherwise has made all calls (`AllCallsMade`), and all end together (`EndTogether`).
  `AdjustedFits` is about the adjustments of main:441-487 for all flags. Theorems `AcceptedOptionsFit`,
  `FailuresReported`, `MistakesAreNoAbort`.
* **ErrorController_proofs**: types with `ModeMatchesHandler`; `InnermostScopesRestore` from "while
  `intact`, the slot is what the innermost scope found".

Type correctness is proved for all of these modules and is therefore not an invariant of their runs. Every
invariant and every action property of a passing run is stated by one of these theorems. The inductive
invariants were checked with TLC, on the instances of the runs or smaller ones, before they were proved.

Induction over data: the library's induction theorems cannot be used (their parameter is an operator). Where
it cannot be avoided, the modules take sets in place of predicates: `LeastElement` (a non-empty
set of naturals has a least element, from the well-foundedness of `<`), and from it `StepByStep` (a function on
0..n defined from one value to the next exists), which gives `Start` and `RowsUpTo`, both recursive
functions, their equations. No module declares a RECURSIVE operator.

Only model-checked: liveness under fairness, out of TLAPS' reach (`Termination`, the fairness of
`ImplementsConcatenation`, `InputsReadOrExcused`, `EndsWhenFailingTogether`, `MutexReleased`, `DestructorEnds`), and
the refinement of ConcatAbstract by ConcatPython (`PyImplementsConcatenation`).

## 5. What is not modelled

* Data: datatypes and their conversion, fill values, filters, the bytes of rows, regular expressions,
  texts. `chunk_rows` of an input is given, as H5Pget_chunk gives it or the default does.
* Appending to an existing output, which no command line reaches (main:478), and inputs whose types
  cannot be converted (ConcatJob has the joint failure).
* The syntax of option arguments: an argument is good or bad.
* Scalar datasets as inputs (HFC:94 reads a dimension that they do not have).
* A C++ exception through H5Ovisit's C frames (HFC:642): ConcatJob takes it to reach main().
* The memory that `throwH5Error()` leaks for its message (errorHandling.cpp:44): the models follow
  identifiers only.
* Copying a default Dataspace, which asks HDF5 to copy H5S_ALL and fails (Dataspace.hpp:167), is the
  general `CopyAssignFails`; no text says that it should work.
* `Ntuple`'s move assignment compiles only for columns that are all one-dimensional; the model
  moves any.
* Of `concat-hdf5.py`: the walk over groups, inputs of other shapes, the filename column. memstream:
  a replacement for a libc function, used for messages.
* That closing a valid identifier fails: Resource and Attribute take it to succeed. In EXCEPTION mode
  a failure would throw in the destructor (Resource.hpp:45-58), as the close of an Ntuple's member does, which Ntuple has (`CloseMembersFails`).
* Template metaprogramming, build files, tests: nothing that runs in the library.

## 6. Plan

Done, in this order: RowNumerology and ConcatDataset with proofs, Ntuple with proofs, ConcatFiles,
ConcatJob with the options, ErrorController, NtupleCreation and Resource with proofs; then bytes,
shapes and refusals in ConcatDataset, moves, torn rows and closing in Ntuple, the MPI wrappers in
Resource, Attribute with proofs, Column, the arguments of ProgramOptions, the start of ConcatJob,
ConcatPython, and the proofs about ConcatFiles.

Then, proved: `WritesDisjoint` for independent transfers, `ChunksExclusive`, `RowsInPlace`, `LossesAreShortTails`,
`RowsWrittenOnce` and the step refinement of ConcatAbstract; `HolesOnlyShift` and the refinement of NtupleTable;
`OnlyOverwritersReplace`; the properties of ConcatJob and ProgramOptions; `DatasetAsRequested`.

Next, proving more: the step refinement of ConcatAbstract by ConcatPython. Its row arithmetic differs (the extra rows
follow the leftover chunks in another order), the argument about iterations is that of ConcatRows_proofs. Then that
an iteration's measure decreases (`threshold - done` on each rank), which is the core of `Termination`.

Next, modelling more: the walk and the filename column of `concat-hdf5.py`, which are arranged
differently from those of the C++ program; scalar datasets in ConcatFiles; memstream.
