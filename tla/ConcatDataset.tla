--------------------------- MODULE ConcatDataset ---------------------------
(***************************************************************************)
(* HDF5FileConcatenator concatenating one dataset over a list of input     *)
(* files: handle_dataset_() and create_or_open_and_resize_dataset() as     *)
(* every MPI rank runs them, once per input.                               *)
(*                                                                         *)
(* Each rank is a process with its own cursors.  The output dataset is     *)
(* shared.  Creating, extending and closing it are collective calls; so    *)
(* are the reads and writes when want_collective_writes_ is set.  A        *)
(* collective call is one action of all ranks, enabled when every rank has *)
(* reached it; otherwise ranks run ahead of each other.                    *)
(*                                                                         *)
(* A row of an input is the pair <<index of the file, row number>>.  Of    *)
(* what its rows are made of, the model keeps the further dimensions (a    *)
(* shape), the size in bytes that H5Tget_size() gives, and the chunking,   *)
(* which is 128 rows where the input has no chunks of full rows.           *)
(***************************************************************************)
EXTENDS RowNumerology

CONSTANTS
  NFiles,      \* number of input files
  InputSizes,  \* the numbers of rows an input may have
  Formats,     \* what these may be: [shape, row_size_bytes, chunk_rows]
  Options,     \* what the program may be started with
  Unwritten    \* HDF5's fill value in a row that nobody wrote

Files == 1 .. NFiles

InputRows == Files \X Nat

ASSUME NFilesAssumption     == NFiles \in Nat
ASSUME InputSizesAssumption == InputSizes \subseteq Nat
ASSUME FormatsAssumption    ==
  \A f \in Formats : f.row_size_bytes \in Nat /\ f.chunk_rows \in Nat \ {0}
ASSUME OptionsAssumption    ==
  Options \subseteq [mem_max_bytes : Nat, max_rows : Int, want_collective_writes : BOOLEAN]
ASSUME UnwrittenAssumption  == Unwritten \notin InputRows

Layouts == [chunk_rows : Nat \ {0}, buffer_size_rows : Nat, format : Formats]

NoLayout == [chunk_rows |-> 0, buffer_size_rows |-> 0]

VARIABLES
  options,    \* of the HDF5FileConcatenator, the same on all ranks
  sizes,      \* rows of the dataset in each input file
  formats,    \* and what these are
  layout,     \* of the output: chunking, buffer, rows; NoLayout before creation
  extent,     \* current number of rows of the output dataset
  output,     \* its contents
  pc,         \* where each rank is
  file,       \* the input each rank works on
  total,      \* n_rows_written_total of each rank
  done,       \* n_rows_written_this_input of each rank
  threshold,  \* rows_threshold of each rank
  numerology, \* the plan of each rank's current iteration
  buffer      \* the slice of an input that buffer_ holds, on each rank

inputs  == <<options, sizes, formats>>
cursors == <<file, total, done, threshold>>
vars    == <<inputs, layout, extent, output, pc, cursors, numerology, buffer>>

(***************************************************************************)
(*   "enter"   in create_or_open_and_resize_dataset(), about to create or  *)
(*             resize the output dataset                                   *)
(*   "loop"    at the head of the loop over buffer-sized chunks            *)
(*   "read"    calling H5Dread        "write"  calling H5Dwrite            *)
(*   "close"   all inputs done, closing the output                         *)
(*   "failed"  the concatenator threw                                      *)
(***************************************************************************)
Locations == {"enter", "loop", "read", "write", "close", "closed", "failed"}

Slices == [file : Files, first : Nat, rows : Nat]

NoRows == [file |-> 1, first |-> 0, rows |-> 0]

NoPlan == [rows_to_write_this_iteration |-> 0, rows_to_write_this_rank |-> 0,
           input_start_row_this_rank |-> 0, output_start_row_this_rank |-> 0]

(* The ConcatenatedDSInfo of a rank. *)
Info(r) == [n_rows_written_total |-> total[r],
            chunk_rows           |-> layout.chunk_rows,
            buffer_size_rows     |-> layout.buffer_size_rows]

MaxRows == options.max_rows  \* negative (-1) when there is no limit

Collective == options.want_collective_writes

LimitPerInputBug(written, size) ==
  IF MaxRows < 0 THEN size ELSE Smaller(MaxRows, size)

(* min(rows_available(), in_ds_size), where a negative max_rows_ and a     *)
(* negative difference both wrap to a huge hsize_t.                        *)
RowsThreshold(written, size) ==
  IF MaxRows < written THEN size ELSE Smaller(MaxRows - written, size)

At(r, location) == pc[r] = location

AllAt(location) == \A r \in Ranks : At(r, location)

Goto(r, location) == pc' = [pc EXCEPT ![r] = location]

AllGoto(location) == pc' = [r \in Ranks |-> location]

-----------------------------------------------------------------------------
Init ==
  /\ options \in Options
  /\ sizes \in [Files -> InputSizes]
  /\ formats \in [Files -> Formats]
  /\ layout = NoLayout
  /\ extent = 0
  /\ output = [row \in {} |-> Unwritten]
  /\ pc = [r \in Ranks |-> IF NFiles = 0 THEN "close" ELSE "enter"]
  /\ file = [r \in Ranks |-> 1]
  /\ total = [r \in Ranks |-> 0]
  /\ done = [r \in Ranks |-> 0]
  /\ threshold = [r \in Ranks |-> 0]
  /\ numerology = [r \in Ranks |-> NoPlan]
  /\ buffer = [r \in Ranks |-> NoRows]

ExtendByInputBug(r) ==
  /\ extent' = extent + sizes[file[r]]
  /\ output' = [row \in 0 .. extent' - 1 |->
                  IF row < extent THEN output[row] ELSE Unwritten]

(* The extent grows by what rank `r' computed: the call is collective and  *)
(* HDF5 requires, but does not check, that all ranks pass the same size.   *)
Extend(r) ==
  /\ extent' = extent + RowsThreshold(total[r], sizes[file[r]])
  /\ output' = [row \in 0 .. extent' - 1 |->
                  IF row < extent THEN output[row] ELSE Unwritten]

EnterLoop ==
  /\ AllGoto("loop")
  /\ done' = [r \in Ranks |-> 0]
  /\ threshold' = [r \in Ranks |-> RowsThreshold(total[r], sizes[file[r]])]
  /\ UNCHANGED <<inputs, file, total, numerology, buffer>>

(* The rows that buffer_, of mem_max_bytes, has room for. *)
BufferRows(format) == options.mem_max_bytes \div format.row_size_bytes

(* A row has bytes, and the buffer has room for one.  Rows without any     *)
(* cannot be chunked: H5Pset_chunk throws before the size is divided by.   *)
Storable(format) ==
  0 < format.row_size_bytes /\ format.row_size_bytes <= options.mem_max_bytes

(* The output has no row_size_bytes yet: the first input decides on its    *)
(* chunks, its buffer and its rows.                                        *)
CreateDataset ==
  /\ AllAt("enter")
  /\ layout = NoLayout
  /\ \E r \in Ranks :
       LET format == formats[file[r]]
       IN  /\ Storable(format)
           /\ layout' = [chunk_rows |-> format.chunk_rows,
                         buffer_size_rows |-> BufferRows(format),
                         format |-> format]
           /\ Extend(r)
  /\ EnterLoop

(* Every rank alike throws, before anything is created. *)
CreateFails ==
  /\ AllAt("enter")
  /\ layout = NoLayout
  /\ \E r \in Ranks : ~ Storable(formats[file[r]])
  /\ AllGoto("failed")
  /\ UNCHANGED <<inputs, layout, extent, output, cursors, numerology, buffer>>

AnythingFitsBug(format) == TRUE

(* The further dimensions of an input are compared with those of the       *)
(* output.  Its type is not.                                               *)
Compatible(format) == format.shape = layout.format.shape

ResizeDataset ==
  /\ AllAt("enter")
  /\ layout # NoLayout
  /\ \A r \in Ranks : Compatible(formats[file[r]])
  /\ \E r \in Ranks : Extend(r)
  /\ EnterLoop
  /\ UNCHANGED layout

(* Each rank finds out for itself, before the collective call. *)
RefuseInput(r) ==
  /\ At(r, "enter")
  /\ layout # NoLayout
  /\ ~ Compatible(formats[file[r]])
  /\ Goto(r, "failed")
  /\ UNCHANGED <<inputs, layout, extent, output, cursors, numerology, buffer>>

(* The head of the loop: work out the rows of this rank. *)
PlanIteration(r) ==
  /\ At(r, "loop")
  /\ done[r] < threshold[r]
  /\ numerology' = [numerology EXCEPT
                      ![r] = RowNumerologyOf(Info(r), done[r], threshold[r], r)]
  /\ Goto(r, "read")
  /\ UNCHANGED <<inputs, layout, extent, output, cursors, buffer>>

(* Return from handle_dataset_() and go on to the next input. *)
EndInput(r) ==
  /\ At(r, "loop")
  /\ done[r] >= threshold[r]
  /\ file' = [file EXCEPT ![r] = IF @ < NFiles THEN @ + 1 ELSE @]
  /\ Goto(r, IF file[r] < NFiles THEN "enter" ELSE "close")
  /\ UNCHANGED <<inputs, layout, extent, output, total, done, threshold,
                 numerology, buffer>>

-----------------------------------------------------------------------------
OffsetForgottenBug(r) ==
  [file |-> file[r], first |-> done[r],
   rows |-> numerology[r].rows_to_write_this_rank]

SliceOf(r) == [file  |-> file[r],
               first |-> numerology[r].input_start_row_this_rank,
               rows  |-> numerology[r].rows_to_write_this_rank]

(* The rows of the output that rank `r' is about to write. *)
Target(r) ==
  { row \in 0 .. extent - 1 :
      /\ numerology[r].output_start_row_this_rank <= row
      /\ row < numerology[r].output_start_row_this_rank
                 + numerology[r].rows_to_write_this_rank }

(* The input row that rank `r' puts into row `row' of the output. *)
Source(r, row) ==
  << buffer[r].file,
     buffer[r].first + (row - numerology[r].output_start_row_this_rank) >>

(* H5Dwrite by the ranks in `writers'; rows that two ranks write get the   *)
(* value of one of them.                                                   *)
Put(writers) ==
  output' = [row \in 0 .. extent - 1 |->
               IF \E r \in writers : row \in Target(r)
               THEN Source(CHOOSE r \in writers : row \in Target(r), row)
               ELSE output[row]]

AdvanceByRankBug(cursor, movers) ==
  [r \in Ranks |-> IF r \in movers
                   THEN cursor[r] + numerology[r].rows_to_write_this_rank
                   ELSE cursor[r]]

(* 4.3 Update cursors: by the rows of the iteration, not of the rank. *)
Advance(cursor, movers) ==
  [r \in Ranks |-> IF r \in movers
                   THEN cursor[r] + numerology[r].rows_to_write_this_iteration
                   ELSE cursor[r]]

TotalForgottenBug(movers) ==
  /\ done' = Advance(done, movers)
  /\ UNCHANGED total

UpdateCursors(movers) ==
  /\ done'  = Advance(done, movers)
  /\ total' = Advance(total, movers)

ReadIndependently(r) ==
  /\ ~ Collective
  /\ At(r, "read")
  /\ buffer' = [buffer EXCEPT ![r] = SliceOf(r)]
  /\ Goto(r, "write")
  /\ UNCHANGED <<inputs, layout, extent, output, cursors, numerology>>

WriteIndependently(r) ==
  /\ ~ Collective
  /\ At(r, "write")
  /\ Put({r})
  /\ UpdateCursors({r})
  /\ Goto(r, "loop")
  /\ UNCHANGED <<inputs, layout, extent, file, threshold, numerology, buffer>>

ReadCollectively ==
  /\ Collective
  /\ AllAt("read")
  /\ buffer' = [r \in Ranks |-> SliceOf(r)]
  /\ AllGoto("write")
  /\ UNCHANGED <<inputs, layout, extent, output, cursors, numerology>>

WriteCollectively ==
  /\ Collective
  /\ AllAt("write")
  /\ Put(Ranks)
  /\ UpdateCursors(Ranks)
  /\ AllGoto("loop")
  /\ UNCHANGED <<inputs, layout, extent, file, threshold, numerology, buffer>>

(* The output file is closed collectively when its File is destroyed. *)
CloseOutput ==
  /\ AllAt("close")
  /\ AllGoto("closed")
  /\ UNCHANGED <<inputs, layout, extent, output, cursors, numerology, buffer>>

(* Nothing is left to do. *)
Terminated ==
  /\ \A r \in Ranks : pc[r] \in {"closed", "failed"}
  /\ UNCHANGED vars

RankStep(r) ==
  \/ PlanIteration(r)
  \/ EndInput(r)
  \/ RefuseInput(r)
  \/ ReadIndependently(r)
  \/ WriteIndependently(r)

CollectiveStep ==
  \/ CreateDataset
  \/ CreateFails
  \/ ResizeDataset
  \/ ReadCollectively
  \/ WriteCollectively
  \/ CloseOutput

Next ==
  \/ \E r \in Ranks : RankStep(r)
  \/ CollectiveStep
  \/ Terminated

(* No rank stops, and MPI completes a collective call that all ranks made. *)
Fairness ==
  /\ \A r \in Ranks : WF_vars(RankStep(r))
  /\ WF_vars(CollectiveStep)

Spec == Init /\ [][Next]_vars /\ Fairness

-----------------------------------------------------------------------------
TypeOK ==
  /\ options \in Options
  /\ sizes \in [Files -> InputSizes]
  /\ formats \in [Files -> Formats]
  /\ layout \in Layouts \cup {NoLayout}
  /\ extent \in Nat
  /\ output \in [0 .. extent - 1 -> InputRows \cup {Unwritten}]
  /\ pc \in [Ranks -> Locations]
  /\ file \in [Ranks -> Nat \ {0}]
  /\ total \in [Ranks -> Nat]
  /\ done \in [Ranks -> Nat]
  /\ threshold \in [Ranks -> Nat]
  /\ numerology \in [Ranks -> NumerologyInfo]
  /\ buffer \in [Ranks -> [file : Nat \ {0}, first : Int, rows : Nat]]

InLoop(r)      == pc[r] \in {"loop", "read", "write"}
Transferring(r) == pc[r] \in {"read", "write"}

(* At every collective call on the dataset the ranks agree on the input    *)
(* they are processing and on how many rows the output has: each of them   *)
(* asks HDF5 for the same new extent, and that extent is the cursor from   *)
(* which the next input is appended.                                       *)
LockstepAtResize ==
  \A r \in Ranks :
    /\ pc[r] \in {"enter", "close", "closed"} => total[r] = extent
    /\ InLoop(r) => total[r] - done[r] = extent - threshold[r]
    /\ \A s \in Ranks : At(r, "enter") /\ At(s, "enter") => file[r] = file[s]

(* In collective mode the ranks of one H5Dread or H5Dwrite all work on the *)
(* same iteration: none is at another cursor position or has left the loop *)
LockstepInTransfers ==
  Collective =>
    \A r, s \in Ranks : Transferring(r) =>
       /\ InLoop(s)
       /\ done[r] = done[s] /\ total[r] = total[s]

(* What a rank has in buffer_, in bytes: in_type is that of the input. *)
BytesInHand(r) ==
  numerology[r].rows_to_write_this_rank * formats[file[r]].row_size_bytes

(* A rank never reads more than buffer_ has room for - unless the rows of  *)
(* this input are larger than those of the first one, for which its room   *)
(* has been counted.                                                       *)
BufferBound ==
  \A r \in Ranks :
    /\ Transferring(r)
    /\ formats[file[r]].row_size_bytes <= layout.format.row_size_bytes
    => BytesInHand(r) <= options.mem_max_bytes

(* The slice a rank transfers lies inside the input, inside the output,    *)
(* and inside the part of the output that this iteration appends.          *)
TransfersInBounds ==
  \A r \in Ranks : Transferring(r) /\ numerology[r].rows_to_write_this_rank > 0 =>
    LET n == numerology[r]
    IN  /\ n.input_start_row_this_rank >= done[r]
        /\ n.input_start_row_this_rank + n.rows_to_write_this_rank <= threshold[r]
        /\ n.output_start_row_this_rank >= total[r]
        /\ n.output_start_row_this_rank + n.rows_to_write_this_rank
             <= total[r] + n.rows_to_write_this_iteration
        /\ total[r] + n.rows_to_write_this_iteration <= extent

(* Two ranks never have the same row of the output in hand, in whatever    *)
(* iterations they are.                                                    *)
WritesDisjoint ==
  \A r, s \in Ranks :
    r # s /\ Transferring(r) /\ Transferring(s) => Target(r) \cap Target(s) = {}

(* In one collective write, each chunk of the output is written by one     *)
(* rank only, as the partition into whole chunks intends.                  *)
ChunksExclusive ==
  Collective =>
    \A r, s \in Ranks : r # s /\ Transferring(r) /\ Transferring(s) =>
      \A i \in Target(r), j \in Target(s) :
        i \div layout.chunk_rows # j \div layout.chunk_rows

(* --max-rows bounds the output exactly. *)
MaxRowsRespected == MaxRows >= 0 => extent <= MaxRows

(* The rows that a rank has in hand, nobody has written yet, neither it    *)
(* nor another rank, in this iteration or an earlier one, of this input or *)
(* an earlier one: inputs are appended, and no row is written again, not   *)
(* even with the same value.  (In one call, WritesDisjoint sees to it.)    *)
RowsWrittenOnce ==
  \A r \in Ranks : Transferring(r) =>
    \A row \in Target(r) : output[row] = Unwritten

-----------------------------------------------------------------------------
(* The inductive invariant from which the proofs derive the properties.    *)

(* Ranks are at most one resize apart: those that are ahead wait for the   *)
(* others at the next collective call, or have refused the next input.     *)
Phases ==
  \A r, s \in Ranks :
    /\ InLoop(r) =>
         \/ InLoop(s) /\ file[s] = file[r] /\ threshold[s] = threshold[r]
         \/ pc[s] \in {"enter", "failed"} /\ file[s] = file[r] + 1
         \/ At(s, "close") /\ file[r] = NFiles
    /\ pc[r] \in {"enter", "failed"} =>
         \/ pc[s] \in {"enter", "failed"} /\ file[s] = file[r]
         \/ InLoop(s) /\ file[r] = file[s] + 1
    /\ At(r, "close") =>
         \/ At(s, "close")
         \/ InLoop(s) /\ file[s] = NFiles
    /\ At(r, "closed") => At(s, "closed")

(* The extent is the anchor of every rank's cursors. *)
Anchored ==
  \A r \in Ranks :
    /\ pc[r] \in {"enter", "close", "closed"} => total[r] = extent
    /\ pc[r] \in {"enter", "loop", "read", "write", "failed"} => file[r] \in Files
    /\ InLoop(r) =>
         /\ layout # NoLayout
         /\ done[r] <= threshold[r]
         /\ threshold[r] <= extent
         /\ total[r] - done[r] = extent - threshold[r]

(* The plan of a rank in a transfer is the one its cursors call for. *)
PlansCurrent ==
  \A r \in Ranks :
    /\ Transferring(r) =>
         /\ done[r] < threshold[r]
         /\ numerology[r] = RowNumerologyOf(Info(r), done[r], threshold[r], r)
    /\ At(r, "write") => buffer[r] = SliceOf(r)

(* In collective mode the cursors of the ranks in the loop agree, and a    *)
(* rank leaves the loop only when no other has anything left to do.        *)
CursorsAgree ==
  Collective =>
    \A r, s \in Ranks :
      InLoop(r) => done[r] = IF InLoop(s) THEN done[s] ELSE threshold[r]

(* What the first input has decided. *)
LayoutFits ==
  layout # NoLayout =>
    /\ Storable(layout.format)
    /\ layout.buffer_size_rows = BufferRows(layout.format)

IInv ==
  /\ TypeOK
  /\ LayoutFits
  /\ Phases
  /\ Anchored
  /\ PlansCurrent
  /\ CursorsAgree
  /\ MaxRowsRespected

(* The concatenation ends and the output is closed on all ranks. *)
Termination == <>(AllAt("closed") \/ AllAt("failed"))
=============================================================================
