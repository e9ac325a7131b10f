----------------------------- MODULE ConcatRows -----------------------------
(***************************************************************************)
(* What becomes of the rows when ConcatDataset runs: where each of them    *)
(* belongs in the output, which may be missing, and the mapping under      *)
(* which the ranks together append the inputs one after another, as        *)
(* ConcatAbstract does.                                                    *)
(***************************************************************************)
EXTENDS ConcatDataset, Sequences

(* Where the rows of each input begin in the concatenation; Start[NFiles   *)
(* + 1] is its length.                                                     *)
Start[f \in 1 .. NFiles + 1] == IF f = 1 THEN 0 ELSE Start[f - 1] + sizes[f - 1]

(* Row `row' of the output is the place of <<f, i>>, row i of input f. *)
IsPlaceOf(row, source) ==
  /\ source[2] < sizes[source[1]]
  /\ row = Start[source[1]] + source[2]

(* Every row that is written holds the row of the inputs that belongs      *)
(* there; a row is never misplaced, even if others are missing.            *)
RowsInPlace ==
  /\ extent <= Start[NFiles + 1]
  /\ \A row \in DOMAIN output :
       output[row] # Unwritten => IsPlaceOf(row, output[row])

(* Rank `r' has returned from handle_dataset_() for input `f'. *)
Passed(r, f) == file[r] > f \/ pc[r] \in {"close", "closed"}

(* What is lost of an input, when the buffer has no spare rows, is always  *)
(* a tail that is shorter than one chunk: of the input, or of the rows     *)
(* that --max-rows leaves of it.                                           *)
LossesAreShortTails ==
  \A f \in Files : (\A r \in Ranks : Passed(r, f)) =>
    \A i \in 0 .. sizes[f] - 1 :
      LET row == Start[f] + i
      IN  /\ row \in DOMAIN output
          /\ output[row] = Unwritten
          => \/ sizes[f] - i < layout.chunk_rows
             \/ MaxRows >= 0 /\ MaxRows - row < layout.chunk_rows

-----------------------------------------------------------------------------
(* Refinement: an input counts as appended when no rank is in its loop     *)
(* any more.  While it is being copied the abstract table ends at the row  *)
(* from which it is appended.                                              *)
Between == \A r \in Ranks : ~ InLoop(r)

Copying == CHOOSE r \in Ranks : InLoop(r)

Base == IF Between THEN extent ELSE extent - threshold[Copying]

AllInputsDone == AllAt("close") \/ AllAt("closed")

InputsAppended ==
  IF AllInputsDone THEN NFiles
  ELSE IF Between THEN file[0] - 1
       ELSE file[Copying] - 1

(* The buffer always has room for the rows left over after the whole       *)
(* chunks of a rank: it has chunk_rows - 1 spare rows.                     *)
Roomy ==
  Storable(formats[1]) =>
    BufferRows(formats[1]) % formats[1].chunk_rows = formats[1].chunk_rows - 1

(* The first `n' inputs are of one shape, and can be stored. *)
Appendable(n) ==
  \A f \in 1 .. n : Storable(formats[1]) /\ formats[f].shape = formats[1].shape

(* The inputs up to the first one that is refused. *)
Acceptable ==
  CHOOSE n \in 0 .. NFiles :
    Appendable(n) /\ \A m \in 0 .. NFiles : Appendable(m) => m <= n

(* Without spare rows nothing is claimed: nothing counts as acceptable. *)
Abstract ==
  INSTANCE ConcatAbstract WITH
    max_rows   <- MaxRows,
    acceptable <- IF Roomy THEN Acceptable ELSE 0,
    appended   <- IF Roomy THEN InputsAppended ELSE 0,
    table      <- IF Roomy THEN [i \in 1 .. Base |-> output[i - 1]] ELSE << >>

(* With spare rows in the buffer the parallel copy implements the abstract *)
(* concatenation, step by step.                                            *)
AppendsInOrder == Abstract!AbsSafety

ImplementsConcatenation == Abstract!AbsSpec

-----------------------------------------------------------------------------
(* The invariants from which the proofs derive the properties of rows.     *)

InfoAt(written) ==
  [n_rows_written_total |-> written,
   chunk_rows           |-> layout.chunk_rows,
   buffer_size_rows     |-> layout.buffer_size_rows]

(* Where an iteration takes the cursor of an input of which `rows' rows    *)
(* are appended from row `base' of the output.                             *)
NextCursor(base, rows, d) == d + IterationRows(InfoAt(base + d), rows - d)

HoldsCursors(S, base, rows) ==
  0 \in S /\ \A d \in S : d < rows => NextCursor(base, rows, d) \in S

(* The values that the cursor of every rank takes, one after another: the  *)
(* smallest set that has 0 and is closed under iterations.                 *)
CursorPositions(base, rows) ==
  {d \in 0 .. rows : \A S \in SUBSET (0 .. rows) :
                        HoldsCursors(S, base, rows) => d \in S}

BaseOf(r) == extent - threshold[r]

(* How far rank `s' has come with the input of rank `r'. *)
Progress(r, s) == IF InLoop(s) THEN done[s] ELSE threshold[r]

(* All ranks go through the same iterations, whether together or not. *)
SameIterations ==
  \A r \in Ranks :
    InLoop(r) => done[r] \in CursorPositions(BaseOf(r), threshold[r])

(* What a rank had to write in the iterations it has behind it, is there. *)
Deposited ==
  \A r, s \in Ranks : InLoop(r) =>
    \A d \in CursorPositions(BaseOf(r), threshold[r]) :
      d < Progress(r, s) =>
        \A x \in 0 .. threshold[r] - 1 - d :
          InSlice(InfoAt(BaseOf(r) + d), threshold[r] - d, s, x)
            => output[BaseOf(r) + d + x] # Unwritten

(* And nothing else is: what is written of the input is of a slice that    *)
(* some rank has behind it.                                                *)
NothingAhead ==
  \A r \in Ranks : InLoop(r) =>
    \A row \in DOMAIN output : output[row] # Unwritten =>
      \/ row < BaseOf(r)
      \/ \E s \in Ranks, d \in CursorPositions(BaseOf(r), threshold[r]) :
           /\ d < Progress(r, s)
           /\ BaseOf(r) + d <= row
           /\ InSlice(InfoAt(BaseOf(r) + d), threshold[r] - d, s, row - (BaseOf(r) + d))

(* The first input that rank `r' has not begun. *)
Upcoming(r) ==
  IF InLoop(r) THEN file[r] + 1
  ELSE IF pc[r] \in {"close", "closed"} THEN NFiles + 1
       ELSE file[r]

(* The output ends where input `f' begins, or the limit is reached. *)
EndsBefore(f) ==
  \/ extent = Start[f]
  \/ MaxRows >= 0 /\ extent = MaxRows /\ extent <= Start[f]

(* The cursors of every rank are anchored in the concatenation. *)
AnchoredInInputs ==
  \A r \in Ranks :
    /\ EndsBefore(Upcoming(r))
    /\ InLoop(r) =>
         /\ threshold[r] <= sizes[file[r]]
         /\ threshold[r] = sizes[file[r]] \/ (MaxRows >= 0 /\ extent = MaxRows)
         /\ BaseOf(r) <= Start[file[r]]
         /\ threshold[r] > 0 => BaseOf(r) = Start[file[r]]

(* What has been appended can be appended: it is of the shape of the       *)
(* first input, which has decided on the layout.                           *)
ShapesMatch ==
  /\ IF layout = NoLayout
     THEN \A r \in Ranks : Upcoming(r) = 1
     ELSE /\ layout.format = formats[1]
          /\ layout.chunk_rows = formats[1].chunk_rows
  /\ \A r \in Ranks : Appendable(Upcoming(r) - 1)

RowsInv ==
  /\ SameIterations
  /\ Deposited
  /\ NothingAhead
  /\ AnchoredInInputs
  /\ RowsInPlace
  /\ LossesAreShortTails
  /\ ShapesMatch
=============================================================================
