--------------------------- MODULE ConcatAbstract ---------------------------
(***************************************************************************)
(* What concatenating one dataset promises, without ranks, buffers or      *)
(* chunks: the inputs are appended to the output one after another, each   *)
(* of them whole, until max_rows rows are there - or until an input comes  *)
(* whose rows do not fit to those of the first.                            *)
(***************************************************************************)
EXTENDS Integers, Sequences

CONSTANTS NFiles, InputSizes

VARIABLES
  max_rows,    \* the limit; negative when there is none
  sizes,       \* rows of each input
  acceptable,  \* how many inputs, from the first, can be appended
  appended,    \* how many have been
  table        \* the rows of the output, in order

absvars == <<max_rows, sizes, acceptable, appended, table>>

(* Rows of input `f' that still fit under the limit. *)
RowsTaken(f) ==
  IF \/ max_rows < 0
     \/ Len(table) + sizes[f] <= max_rows
  THEN sizes[f]
  ELSE max_rows - Len(table)

AbsInit ==
  /\ max_rows \in Int
  /\ sizes \in [1 .. NFiles -> InputSizes]
  /\ acceptable \in 0 .. NFiles
  /\ appended = 0
  /\ table = << >>

AppendInput ==
  /\ appended < acceptable
  /\ appended' = appended + 1
  /\ table' = table \o [i \in 1 .. RowsTaken(appended + 1)
                          |-> <<appended + 1, i - 1>>]
  /\ UNCHANGED <<max_rows, sizes, acceptable>>

AbsNext == AppendInput

(* What never happens; that all of it happens comes with the fairness.     *)
AbsSafety == AbsInit /\ [][AbsNext]_absvars

AbsFairness == WF_absvars(AbsNext)

AbsSpec == AbsSafety /\ AbsFairness
=============================================================================
