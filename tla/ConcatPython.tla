---------------------------- MODULE ConcatPython ----------------------------
(***************************************************************************)
(* concat-hdf5.py, the Python program that concat_hdf5 has replaced, as it *)
(* concatenates one dataset over a list of inputs: _handle_dataset() and   *)
(* _row_numerology() on every MPI rank.                                    *)
(*                                                                         *)
(* The program is written for Python 2: its quotients are integers.  There *)
(* is no buffer that could overflow; mem_max decides how many rows each    *)
(* rank copies in one assignment.  With several ranks every assignment is  *)
(* a collective write.  Cursors are local, but the current size of the     *)
(* output is asked of the dataset for each input.                          *)
(***************************************************************************)
EXTENDS Integers

CONSTANTS
  NRanks,      \* n_ranks
  NFiles,      \* number of input files
  InputSizes,  \* the numbers of rows an input may have
  Formats,     \* what the first may be: [chunks, row_size_bytes, attrs]
  MemMaxBytes, \* what _mem_max_bytes may be
  Unwritten    \* HDF5's fill value in a row that nobody wrote

ASSUME SizesAssumption   == NRanks \in Nat \ {0} /\ NFiles \in Nat /\ InputSizes \subseteq Nat
ASSUME FormatsAssumption ==
  /\ Formats \subseteq [chunks : Nat, row_size_bytes : Nat, attrs : BOOLEAN]
  /\ MemMaxBytes \subseteq Nat

Ranks == 0 .. NRanks - 1
Files == 1 .. NFiles

NotSeen == [chunk_rows |-> 0, buffer_size_rows |-> 0]

NoPlan == [iteration |-> 0, rows |-> 0, input |-> 0, output |-> 0]

VARIABLES
  mem_max_bytes, \* the same on all ranks
  idle_ranks,    \* whether h5py can write collectively when a rank has no rows
  sizes,         \* rows of the dataset in each input file
  format,        \* of the first: rows of a chunk, or 0; bytes; attributes
  ds_out,        \* _ds_out[path]; NotSeen before the first input
  extent,        \* current number of rows of the output dataset
  output,        \* its contents
  pc,            \* where each rank is
  file,          \* the input each rank works on
  written,       \* n_rows_written
  current,       \* output_current_size
  plan           \* what _row_numerology() returned, on each rank

inputs  == <<mem_max_bytes, idle_ranks, sizes, format>>
cursors == <<file, written, current>>
vars    == <<inputs, ds_out, extent, output, pc, cursors, plan>>

At(r, location) == pc[r] = location
AllAt(location) == \A r \in Ranks : At(r, location)
Goto(r, location) == pc' = [pc EXCEPT ![r] = location]
AllGoto(location) == pc' = [r \in Ranks |-> location]

Smaller(a, b) == IF a <= b THEN a ELSE b

-----------------------------------------------------------------------------
(* _row_numerology(): `size' and `done' are those of the input, `len' is   *)
(* the cursor in the output.                                               *)

ChunkedBufferRows ==
  ds_out.buffer_size_rows - (ds_out.buffer_size_rows % ds_out.chunk_rows)

IncompleteChunk(len) == len % ds_out.chunk_rows

ChunkedRows(done, size) ==
  LET remaining == size - done
  IN  Smaller(remaining - (remaining % ds_out.chunk_rows), ChunkedBufferRows * NRanks)

Minsize(done, size)   == (ChunkedRows(done, size) \div ds_out.chunk_rows) \div NRanks
Leftovers(done, size) == (ChunkedRows(done, size) \div ds_out.chunk_rows) % NRanks

(* Taken off rank 0, whose first rows complete a chunk of the output. *)
CompletingRows(len, done, size) ==
  IF ChunkedRows(done, size) >= IncompleteChunk(len) THEN IncompleteChunk(len) ELSE 0

ChunksOfRank(done, size, rank) ==
  IF rank < Leftovers(done, size) THEN Minsize(done, size) + 1 ELSE Minsize(done, size)

ChunkThresholdBug(len) == ds_out.chunk_rows - IncompleteChunk(len)

(* At most so many rows are tacked on to complete the file. *)
RemainingRowsThreshold(len) ==
  IF IncompleteChunk(len) > 0
  THEN 2 * ds_out.chunk_rows - IncompleteChunk(len)
  ELSE ds_out.chunk_rows

ExtraRows(len, done, size) ==
  LET remaining == size - (done + ChunkedRows(done, size) - CompletingRows(len, done, size))
  IN  IF remaining <= RemainingRowsThreshold(len) THEN remaining ELSE 0

LastRankBug(done, size) == NRanks - 1

ExtraRank(done, size) ==
  IF Minsize(done, size) = 0 THEN Leftovers(done, size) ELSE NRanks - 1

(* Where a rank starts, counted from the cursors. *)
Offset(len, done, size, rank) ==
  IF rank = 0 THEN 0
  ELSE ds_out.chunk_rows * (IF rank < Leftovers(done, size)
                            THEN rank * (Minsize(done, size) + 1)
                            ELSE Leftovers(done, size) + rank * Minsize(done, size))
         - IncompleteChunk(len)

RowNumerology(len, done, size, rank) ==
  LET completing == CompletingRows(len, done, size)
      extra      == ExtraRows(len, done, size)
      offset     == Offset(len, done, size, rank)
  IN  [iteration |-> ChunkedRows(done, size) - completing + extra,
       rows      |-> ChunksOfRank(done, size, rank) * ds_out.chunk_rows
                       - (IF rank = 0 THEN completing ELSE 0)
                       + (IF rank = ExtraRank(done, size) THEN extra ELSE 0),
       input     |-> done + offset,
       output    |-> len + offset]

-----------------------------------------------------------------------------
Init ==
  /\ mem_max_bytes \in MemMaxBytes
  /\ idle_ranks \in BOOLEAN
  /\ sizes \in [Files -> InputSizes]
  /\ format \in Formats
  /\ ds_out = NotSeen
  /\ extent = 0
  /\ output = [row \in {} |-> Unwritten]
  /\ pc = [r \in Ranks |-> IF NFiles = 0 THEN "close" ELSE "visit"]
  /\ file = [r \in Ranks |-> 1]
  /\ written = [r \in Ranks |-> 0]
  /\ current = [r \in Ranks |-> 0]
  /\ plan = [r \in Ranks |-> NoPlan]

(* What the first input is taken apart by: the size of its rows is divided *)
(* by their number and divides the memory; chunks is None without chunks;  *)
(* and the attributes of a dataset cannot be assigned to.                  *)
Dissectible ==
  /\ sizes[1] > 0
  /\ format.row_size_bytes > 0
  /\ format.chunks > 0
  /\ ~ format.attrs

(* The first input: the output is created, without rows. *)
CreateDataset ==
  /\ AllAt("visit") /\ ds_out = NotSeen
  /\ Dissectible
  /\ ds_out' = [chunk_rows |-> format.chunks,
                buffer_size_rows |-> mem_max_bytes \div format.row_size_bytes]
  /\ UNCHANGED <<inputs, extent, output, pc, cursors, plan>>

(* Every rank alike raises, and leaves the "with" that closes the output.  *)
CreateFails ==
  /\ AllAt("visit") /\ ds_out = NotSeen
  /\ ~ Dissectible
  /\ AllGoto("failed")
  /\ UNCHANGED <<inputs, ds_out, extent, output, cursors, plan>>

ResizeDataset ==
  /\ AllAt("visit") /\ ds_out # NotSeen
  /\ \E r \in Ranks : extent' = extent + sizes[file[r]]
  /\ output' = [row \in 0 .. extent' - 1 |->
                  IF row < extent THEN output[row] ELSE Unwritten]
  /\ current' = [r \in Ranks |-> extent]
  /\ written' = [r \in Ranks |-> 0]
  /\ AllGoto("loop")
  /\ UNCHANGED <<inputs, ds_out, file, plan>>

PlanIteration(r) ==
  /\ At(r, "loop")
  /\ written[r] < sizes[file[r]]
  /\ plan' = [plan EXCEPT ![r] = RowNumerology(current[r], written[r], sizes[file[r]], r)]
  /\ Goto(r, "write")
  /\ UNCHANGED <<inputs, ds_out, extent, output, cursors>>

Target(r) == plan[r].output .. plan[r].output + plan[r].rows - 1

Source(r, row) == <<file[r], plan[r].input + (row - plan[r].output)>>

(* As at 2.8.0, h5py cannot write collectively while a rank has nothing to *)
(* write: the ranks wait for one another and go no further, as             *)
(* demonstrate_h5py_cw_issue.py shows.  One rank alone does not write      *)
(* collectively.                                                           *)
Hung ==
  /\ AllAt("write")
  /\ NRanks > 1 /\ ~ idle_ranks
  /\ \E r \in Ranks : Target(r) = {}

(* The assignment of a slice of the input to one of the output, by all     *)
(* ranks together, and the cursors.                                        *)
WriteSlices ==
  /\ AllAt("write") /\ ~ Hung
  /\ output' = [row \in 0 .. extent - 1 |->
                  IF \E r \in Ranks : row \in Target(r)
                  THEN Source(CHOOSE r \in Ranks : row \in Target(r), row)
                  ELSE output[row]]
  /\ written' = [r \in Ranks |-> written[r] + plan[r].iteration]
  /\ current' = [r \in Ranks |-> current[r] + plan[r].iteration]
  /\ AllGoto("loop")
  /\ UNCHANGED <<inputs, ds_out, extent, file, plan>>

EndInput(r) ==
  /\ At(r, "loop")
  /\ written[r] >= sizes[file[r]]
  /\ file' = [file EXCEPT ![r] = IF @ < NFiles THEN @ + 1 ELSE @]
  /\ Goto(r, IF file[r] < NFiles THEN "visit" ELSE "close")
  /\ UNCHANGED <<inputs, ds_out, extent, output, written, current, plan>>

CloseOutput ==
  /\ AllAt("close")
  /\ AllGoto("closed")
  /\ UNCHANGED <<inputs, ds_out, extent, output, cursors, plan>>

(* Nothing is left to do, or nothing can be done. *)
Terminated == (AllAt("closed") \/ AllAt("failed") \/ Hung) /\ UNCHANGED vars

CollectiveStep ==
  CreateDataset \/ CreateFails \/ ResizeDataset \/ WriteSlices \/ CloseOutput

Next ==
  \/ \E r \in Ranks : PlanIteration(r) \/ EndInput(r)
  \/ CollectiveStep
  \/ Terminated

(* No rank stops, and MPI completes a collective call that all ranks made, *)
(* if h5py makes it on all of them.                                        *)
Fairness ==
  /\ \A r \in Ranks : WF_vars(PlanIteration(r) \/ EndInput(r))
  /\ WF_vars(CollectiveStep)

Spec == Init /\ [][Next]_vars /\ Fairness
=============================================================================
