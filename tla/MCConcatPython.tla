--------------------------- MODULE MCConcatPython ---------------------------
(* Instances of ConcatPython, and that it implements ConcatAbstract.       *)
EXTENDS ConcatPython, Sequences

UpTo9 == 0 .. 9
Memory == 0 .. 6

(* Every chunking; and first inputs that the program cannot handle. *)
AnyFormats ==
  [chunks : 1 .. 4, row_size_bytes : {1}, attrs : {FALSE}]
    \cup [chunks : {0, 2}, row_size_bytes : {0, 2}, attrs : BOOLEAN]

InLoop(r) == pc[r] \in {"loop", "write"}

(* A buffer that holds a chunk, or inputs that need none. *)
Roomy ==
  \/ format.row_size_bytes = 0 \/ format.chunks = 0
  \/ mem_max_bytes \div format.row_size_bytes >= format.chunks
  \/ \A f \in Files : sizes[f] <= format.chunks

(* Rows of the output before the input that is being copied. *)
Base ==
  IF \E r \in Ranks : InLoop(r)
  THEN LET r == CHOOSE r \in Ranks : InLoop(r) IN extent - sizes[file[r]]
  ELSE extent

Finished ==
  IF AllAt("close") \/ AllAt("closed") THEN NFiles
  ELSE LET r == CHOOSE r \in Ranks : InLoop(r) \/ \A s \in Ranks : ~ InLoop(s)
       IN  file[r] - 1

Abstract ==
  INSTANCE ConcatAbstract WITH
    max_rows   <- -1,
    acceptable <- IF Roomy /\ Dissectible THEN NFiles ELSE 0,
    appended   <- IF Roomy THEN Finished ELSE 0,
    table      <- IF Roomy THEN [i \in 1 .. Base |-> output[i - 1]] ELSE << >>

(* concat-hdf5.py:2-3, "Concatenate HDF5 files": every rank copies its     *)
(* rows, none is left out, misplaced or written twice, and the program     *)
(* goes through all inputs.  Two cases are excused, no other: memory that  *)
(* is not enough for a chunk (Roomy), with which the loop at line 209      *)
(* makes no progress; and, for coming to the end only, a collective write  *)
(* in which a rank has no rows, when h5py cannot do it (Hung; see          *)
(* test/concat_hdf5/CMakeLists.txt:92-95).                                 *)
PyImplementsConcatenation ==
  /\ Abstract!AbsSafety
  /\ (<>Hung \/ Abstract!AbsFairness)
=============================================================================
