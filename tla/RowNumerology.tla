--------------------------- MODULE RowNumerology ---------------------------
(***************************************************************************)
(* The partition of one iteration of the copy loop of                      *)
(* HDF5FileConcatenator among the MPI ranks: row_numerology() of           *)
(* src/hep_hpc/concat_hdf5/HDF5FileConcatenator.cpp.  Every rank evaluates *)
(* it on its own copy of the cursors; the operators are pure functions of  *)
(*   info       what ConcatenatedDSInfo says of the output dataset,        *)
(*   remaining  the rows of the input not yet passed by the cursor,        *)
(*   rank       my_rank.                                                   *)
(*                                                                         *)
(* hsize_t arithmetic is modelled by integers.  The one subtraction that   *)
(* can wrap is the offset of a rank that is given no row; it is negative   *)
(* here, and TransfersInBounds (ConcatDataset) says that no such start is  *)
(* used in a transfer.                                                     *)
(***************************************************************************)
EXTENDS Integers

CONSTANT NRanks          \* n_ranks, the size of MPI_COMM_WORLD

ASSUME NRanksAssumption == NRanks \in Nat \ {0}

Ranks == 0 .. NRanks - 1

\* What the numerology reads of ConcatenatedDSInfo.
DSInfo == [n_rows_written_total : Nat,
           chunk_rows           : Nat \ {0},
           buffer_size_rows     : Nat \ {0}]

NumerologyInfo == [rows_to_write_this_iteration : Nat,
                   rows_to_write_this_rank      : Nat,
                   input_start_row_this_rank    : Int,
                   output_start_row_this_rank   : Int]

Smaller(a, b) == IF a <= b THEN a ELSE b

(***************************************************************************)
(* Definitions whose names end in "Bug" are faulty variants of the one     *)
(* that follows, used to see that the properties tell them apart.          *)
(***************************************************************************)
IncompleteChunkIgnoredBug(info) == 0

(* Rows of the last chunk of the output that is only partly filled. *)
IncompleteChunkSize(info) == info.n_rows_written_total % info.chunk_rows

MaxChunksPerRank(info) == info.buffer_size_rows \div info.chunk_rows

(* Whole chunks handed out in this iteration, over all ranks. *)
WholeChunks(info, remaining) ==
  LET rows == Smaller(remaining,
                      MaxChunksPerRank(info) * info.chunk_rows * NRanks)
  IN  (rows - (rows % info.chunk_rows)) \div info.chunk_rows

(* Ranks below Leftovers get MinSize + 1 chunks, the others MinSize. *)
MinSize(info, remaining)   == WholeChunks(info, remaining) \div NRanks
Leftovers(info, remaining) == WholeChunks(info, remaining) % NRanks

ChunksOfRank(info, remaining, rank) ==
  IF rank < Leftovers(info, remaining)
  THEN MinSize(info, remaining) + 1
  ELSE MinSize(info, remaining)

(* Rows taken off the first chunk, so that the chunk boundaries of this    *)
(* iteration are those of the output file.                                 *)
CompletingRows(info, remaining) ==
  IF /\ IncompleteChunkSize(info) > 0
     /\ WholeChunks(info, remaining) * info.chunk_rows
          >= IncompleteChunkSize(info)
  THEN IncompleteChunkSize(info)
  ELSE 0

ChunkedRows(info, remaining) ==
  WholeChunks(info, remaining) * info.chunk_rows
    - CompletingRows(info, remaining)

RankZeroKeepsAllBug(info, remaining, rank) ==
  ChunksOfRank(info, remaining, rank) * info.chunk_rows

ChunkedRowsOfRank(info, remaining, rank) ==
  ChunksOfRank(info, remaining, rank) * info.chunk_rows
    - (IF rank = 0 THEN CompletingRows(info, remaining) ELSE 0)

(* The rows that complete the input, or all that a buffer smaller than a   *)
(* chunk can take.                                                         *)
TailRows(info, remaining) ==
  remaining - ChunkedRows(info, remaining)

CompletesInput(info, remaining) ==
  /\ TailRows(info, remaining) > 0
  /\ TailRows(info, remaining) < info.chunk_rows

ExtraRows(info, remaining) ==
  IF CompletesInput(info, remaining)
  THEN TailRows(info, remaining)
  ELSE IF ChunkedRows(info, remaining) = 0
       THEN Smaller(TailRows(info, remaining), info.buffer_size_rows)
       ELSE 0

ExtraToRankZeroBug(info, remaining) == 0

ExtraRank(info, remaining) ==
  IF ~ CompletesInput(info, remaining) THEN 0
  ELSE IF MinSize(info, remaining) = 0 THEN Leftovers(info, remaining)
       ELSE NRanks - 1

OnlyChunksCountBug(info, remaining) == ChunkedRows(info, remaining)

(* The extra rows are counted as written by the iteration whether or not   *)
(* they fit into the buffer of the one rank that would write them.         *)
IterationRows(info, remaining) ==
  ChunkedRows(info, remaining) + ExtraRows(info, remaining)

ExtraAlwaysFitsBug(info, remaining) == TRUE

ExtraFitsStrictlyBug(info, remaining) ==
  ChunkedRowsOfRank(info, remaining, ExtraRank(info, remaining))
    + ExtraRows(info, remaining) < info.buffer_size_rows

ExtraFits(info, remaining) ==
  ChunkedRowsOfRank(info, remaining, ExtraRank(info, remaining))
    + ExtraRows(info, remaining) <= info.buffer_size_rows

RankRows(info, remaining, rank) ==
  ChunkedRowsOfRank(info, remaining, rank)
    + (IF /\ rank = ExtraRank(info, remaining)
          /\ ExtraFits(info, remaining)
       THEN ExtraRows(info, remaining)
       ELSE 0)

LeftoversForgottenBug(info, remaining, rank) ==
  rank * (MinSize(info, remaining) + 1)

(* Where a rank starts: the chunks of the ranks below it, as an offset     *)
(* from the cursors.                                                       *)
FirstChunk(info, remaining, rank) ==
  IF rank < Leftovers(info, remaining)
  THEN rank * (MinSize(info, remaining) + 1)
  ELSE Leftovers(info, remaining) + rank * MinSize(info, remaining)

Offset(info, remaining, rank) ==
  IF rank = 0 THEN 0
  ELSE FirstChunk(info, remaining, rank) * info.chunk_rows
         - IncompleteChunkSize(info)

(* Row `x' of an iteration, counted from its cursors, is one of those that *)
(* `rank' has to write.                                                    *)
InSlice(info, remaining, rank, x) ==
  /\ Offset(info, remaining, rank) <= x
  /\ x < Offset(info, remaining, rank) + RankRows(info, remaining, rank)

(* row_numerology() as rank `rank' evaluates it. *)
RowNumerologyOf(info, n_rows_written_this_input, in_ds_size, rank) ==
  LET remaining == in_ds_size - n_rows_written_this_input
      offset    == Offset(info, remaining, rank)
  IN  [rows_to_write_this_iteration |-> IterationRows(info, remaining),
       rows_to_write_this_rank      |-> RankRows(info, remaining, rank),
       input_start_row_this_rank    |-> n_rows_written_this_input + offset,
       output_start_row_this_rank   |-> info.n_rows_written_total + offset]
=============================================================================
