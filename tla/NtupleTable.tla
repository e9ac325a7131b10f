---------------------------- MODULE NtupleTable ----------------------------
(***************************************************************************)
(* What an Ntuple promises to its users: a table that is appended to, of   *)
(* which a growing part from the beginning is in the file, and which is in *)
(* the file entirely when the Ntuple has been closed.  It promises nothing *)
(* any more once an exception has torn a row apart, or ended the process.  *)
(***************************************************************************)
EXTENDS Sequences, Naturals

CONSTANT Row

VARIABLES
  rows,   \* the rows accepted so far
  file,   \* those that can be read from the file
  closed,
  broken  \* has a row been inserted in part, or the process ended?

TableInit == rows = << >> /\ file = << >> /\ closed = FALSE

AppendRow ==
  /\ ~ closed
  /\ \E r \in Row : rows' = Append(rows, r)
  /\ UNCHANGED <<file, closed>>

Persist ==
  /\ \E n \in Len(file)..Len(rows) : file' = SubSeq(rows, 1, n)
  /\ UNCHANGED <<rows, closed>>

Close ==
  /\ ~ closed
  /\ file = rows
  /\ closed' = TRUE
  /\ UNCHANGED <<rows, file>>

TableNext == AppendRow \/ Persist \/ Close

TableSpec == TableInit /\ [][broken' \/ TableNext]_<<rows, file, closed>>
=============================================================================
