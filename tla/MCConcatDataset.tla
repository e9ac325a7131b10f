-------------------------- MODULE MCConcatDataset --------------------------
(* Instances of ConcatDataset and ConcatRows for TLC.                      *)
EXTENDS ConcatRows

Rows(shape, bytes, chunk) ==
  [shape |-> shape, row_size_bytes |-> bytes, chunk_rows |-> chunk]

Started(memory, limit, collective) ==
  [mem_max_bytes |-> memory, max_rows |-> limit, want_collective_writes |-> collective]

UpTo9 == 0 .. 9

Plain(chunk) == Rows("scalar", 1, chunk)

AnyFormats ==
  UNION {{Plain(n), Rows("scalar", 2, n), Rows("vector", 2, n), Rows("empty", 0, n)} : n \in 1 .. 4}
AnyOptions ==
  {Started(memory, -1, TRUE) : memory \in 0 .. 6}
    \cup {Started(memory, 7, FALSE) : memory \in {3, 5}}

(* The instances: every chunking and memory with collective transfers of   *)
(* rows of one byte; inputs of different rows; and, with fewer rows,       *)
(* independent transfers.  The chunking of later inputs is not looked at.  *)
Instance ==
  /\ \A f \in Files : formats[f].chunk_rows = formats[1].chunk_rows
  /\ \/ Collective /\ \A f \in Files : formats[f].row_size_bytes = 1
     \/ /\ options.mem_max_bytes \in {0, 5}
        /\ \A f \in Files : sizes[f] \in {0, 1, 4}
     \/ /\ ~ Collective
        /\ \A f \in Files : sizes[f] <= 5 /\ formats[f].row_size_bytes = 1

MCInit == Init /\ Instance

MCSpec == MCInit /\ [][Next]_vars /\ Fairness

OneFormat   == {Plain(4)}
ExactBuffer == {Started(4, -1, TRUE)}

(* The comment at HDF5FileConcatenator.cpp:247-248: "If there's room in    *)
(* the buffer for the remaining rows, write them, otherwise we get to do   *)
(* another iteration."  So the rows before the cursor of a rank that is at *)
(* the head of the loop have been written once no transfer is in flight.   *)
NoRowSkipped ==
  (\A r \in Ranks : ~ Transferring(r)) =>
    \A row \in DOMAIN output :
      (\A r \in Ranks : row < total[r]) => output[row] # Unwritten
=============================================================================
