---------------------------- MODULE ConcatFiles ----------------------------
(***************************************************************************)
(* HDF5FileConcatenator::concatFiles(): the input files one after another, *)
(* in each of them the groups and datasets that H5Ovisit finds, and after  *)
(* each of them the filename column of every group that has one            *)
(* (src/hep_hpc/concat_hdf5/HDF5FileConcatenator.cpp:602-799, 911-919).    *)
(*                                                                         *)
(* All ranks take the same path here.  How one dataset is copied is        *)
(* ConcatDataset's subject; here it is one step.  A row is represented by  *)
(* the number of the file it comes from, a filename by that number.        *)
(***************************************************************************)
EXTENDS Integers, Sequences, FiniteSets

CONSTANTS
  Groups,
  Parent,    \* the group a group is in, or Root
  Datasets,
  GroupOf,   \* the group a dataset is in
  Root,
  Selections, \* the sets of groups that --only-groups may match
  Columned,  \* groups that match --filename-column's regexes
  Contents,  \* what an input file can hold: records [groups, rows]
  NFiles,
  MaxRows    \* --max-rows, negative for no limit

ASSUME TreeAssumption ==
  /\ Root \notin Groups /\ Groups \cap Datasets = {}
  /\ Parent \in [Groups -> Groups \cup {Root}]
  /\ GroupOf \in [Datasets -> Groups]
ASSUME SelectionAssumption ==
  Selections \subseteq SUBSET Groups /\ Columned \subseteq Groups
ASSUME InputsAssumption ==
  /\ NFiles \in Nat /\ MaxRows \in Int
  /\ \A c \in Contents :
       /\ c.groups \subseteq Groups
       /\ DOMAIN c.rows \subseteq Datasets
       /\ \A d \in DOMAIN c.rows : c.rows[d] \in Nat /\ GroupOf[d] \in c.groups
       /\ \A g \in c.groups : Parent[g] \in c.groups \cup {Root}

VARIABLES
  selected,  \* the groups that match --only-groups
  pc,        \* "open" a file, "visit" its items, fill the "column"s; the ends
  file,      \* number of the current input file
  content,   \* what it holds
  todo,      \* the items of it that H5Ovisit has not reached, or the groups
             \* whose column concatFiles() has not reached
  outGroups, \* the groups of the output
  table,     \* the datasets of the output
  required,  \* required_size of the entries of group_filename_column_ds_size_
  column     \* the filename columns; an entry's current_size is its length

vars == <<selected, pc, file, content, todo, outGroups, table, required, column>>

Shorter(m, n) == IF m <= n THEN m ELSE n
Longer(m, n)  == IF m <= n THEN n ELSE m

Tracked == DOMAIN required

Init ==
  /\ selected \in Selections
  /\ pc = "open"
  /\ file = 0
  /\ content = [groups |-> {}, rows |-> << >>]
  /\ todo = {}
  /\ outGroups = {}
  /\ table = [d \in Datasets |-> << >>]
  /\ required = << >>
  /\ column = [g \in Groups |-> << >>]

OpenInput ==
  /\ pc = "open" /\ file < NFiles
  /\ file' = file + 1
  /\ content' \in Contents
  /\ todo' = content'.groups \cup DOMAIN content'.rows
  /\ pc' = "visit"
  /\ UNCHANGED <<selected, outGroups, table, required, column>>

-----------------------------------------------------------------------------
(* visit_item_().  H5Ovisit comes to a group before what is in it.         *)
OnlyGroupsIgnoredBug(g) == TRUE

IsSelected(g) == g \in selected

RootForgottenBug(g) == Parent[g] \in outGroups

(* H5Gcreate makes no intermediate groups. *)
CanCreate(g) == Parent[g] \in outGroups \cup {Root}

WithColumn(g) ==
  IF g \in Columned
  THEN [h \in Tracked \cup {g} |-> IF h = g THEN 0 ELSE required[h]]
  ELSE required

VisitGroup(g) ==
  /\ pc = "visit"
  /\ g \in todo /\ Parent[g] \notin todo
  /\ IsSelected(g)
  /\ g \in outGroups \/ CanCreate(g)
  /\ outGroups' = outGroups \cup {g}
  /\ required' = WithColumn(g)
  /\ todo' = todo \ {g}
  /\ UNCHANGED <<selected, pc, file, content, table, column>>

(* Group(..., OPEN_OR_CREATE_MODE, ...) throws. *)
VisitGroupFails(g) ==
  /\ pc = "visit"
  /\ g \in todo /\ Parent[g] \notin todo
  /\ IsSelected(g)
  /\ g \notin outGroups /\ ~ CanCreate(g)
  /\ pc' = "refused"
  /\ UNCHANGED <<selected, file, content, todo, outGroups, table, required, column>>

IgnoreGroup(g) ==
  /\ pc = "visit"
  /\ g \in todo /\ Parent[g] \notin todo
  /\ ~ IsSelected(g)
  /\ todo' = todo \ {g}
  /\ UNCHANGED <<selected, pc, file, content, outGroups, table, required, column>>

(* handle_dataset_(): as many rows as there is room for are appended. *)
RowsTaken(d) ==
  IF MaxRows < 0 THEN content.rows[d]
  ELSE Shorter(MaxRows - Len(table[d]), content.rows[d])

LastDatasetBug(size, total) == total

LargestSoFar(size, total) == Longer(size, total)

VisitDataset(d) ==
  /\ pc = "visit"
  /\ d \in todo /\ GroupOf[d] \notin todo
  /\ IsSelected(GroupOf[d])
  /\ table' = [table EXCEPT ![d] = @ \o [i \in 1..RowsTaken(d) |-> file]]
  /\ required' = IF GroupOf[d] \in Tracked
                 THEN [required EXCEPT ![GroupOf[d]] = LargestSoFar(@, Len(table'[d]))]
                 ELSE required
  /\ todo' = todo \ {d}
  /\ UNCHANGED <<selected, pc, file, content, outGroups, column>>

IgnoreDataset(d) ==
  /\ pc = "visit"
  /\ d \in todo /\ GroupOf[d] \notin todo
  /\ ~ IsSelected(GroupOf[d])
  /\ todo' = todo \ {d}
  /\ UNCHANGED <<selected, pc, file, content, outGroups, table, required, column>>

EndVisit ==
  /\ pc = "visit" /\ todo = {}
  /\ pc' = "column"
  /\ todo' = Tracked
  /\ UNCHANGED <<selected, file, content, outGroups, table, required, column>>

-----------------------------------------------------------------------------
(* The loop over group_filename_column_ds_size_. *)

SkipColumn(g) ==
  /\ pc = "column"
  /\ g \in todo /\ required[g] = 0
  /\ todo' = todo \ {g}
  /\ UNCHANGED <<selected, pc, file, content, outGroups, table, required, column>>

(* The column is created or extended; the new rows get this file's name.   *)
RewrittenBug(g) == [i \in 1..required[g] |-> file]

Extended(g) ==
  column[g] \o [i \in 1..(required[g] - Len(column[g])) |-> file]

FillColumn(g) ==
  /\ pc = "column"
  /\ g \in todo /\ required[g] > 0
  /\ required[g] >= Len(column[g])
  /\ column' = [column EXCEPT ![g] = Extended(g)]
  /\ todo' = todo \ {g}
  /\ UNCHANGED <<selected, pc, file, content, outGroups, table, required>>

(* H5Dset_extent() cuts the column off, then n_new_elements wraps around   *)
(* and the buffer for that many values cannot be allocated.                *)
FillColumnFails(g) ==
  /\ pc = "column"
  /\ g \in todo /\ required[g] > 0
  /\ required[g] < Len(column[g])
  /\ column' = [column EXCEPT ![g] = SubSeq(@, 1, required[g])]
  /\ pc' = "failed"
  /\ UNCHANGED <<selected, file, content, todo, outGroups, table, required>>

EndColumns ==
  /\ pc = "column" /\ todo = {}
  /\ pc' = "open"
  /\ UNCHANGED <<selected, file, content, todo, outGroups, table, required, column>>

Next ==
  \/ OpenInput
  \/ \E g \in Groups : VisitGroup(g) \/ VisitGroupFails(g) \/ IgnoreGroup(g)
  \/ \E d \in Datasets : VisitDataset(d) \/ IgnoreDataset(d)
  \/ EndVisit
  \/ \E g \in Groups : SkipColumn(g) \/ FillColumn(g) \/ FillColumnFails(g)
  \/ EndColumns

Spec == Init /\ [][Next]_vars /\ WF_vars(Next)

-----------------------------------------------------------------------------
TypeOK ==
  /\ pc \in {"open", "visit", "column", "refused", "failed"}
  /\ file \in 0..NFiles
  /\ todo \subseteq Groups \cup Datasets
  /\ selected \in Selections /\ outGroups \subseteq selected
  /\ table \in [Datasets -> Seq(1..NFiles)]
  /\ Tracked \subseteq Columned \cap selected
  /\ \A g \in Tracked : required[g] \in Nat
  /\ column \in [Groups -> Seq(1..NFiles)]

DatasetsOf(g) == {d \in Datasets : GroupOf[d] = g}

RowsIn(g) == {Len(table[d]) : d \in DatasetsOf(g)}

LongAsLargest(g) ==
  /\ \A n \in RowsIn(g) : n <= Len(column[g])
  /\ Len(column[g]) \in RowsIn(g) \cup {0}

(* Whatever an input has or lacks, when the next one is opened, or the     *)
(* output closed, every filename column is as long as the largest dataset  *)
(* of its group, a stale required_size notwithstanding.                    *)
ColumnsCompleteAtOpen ==
  pc = "open" => \A g \in Tracked : LongAsLargest(g)

(* concat_hdf5.cpp:525-526, the column "will have as many rows as the      *)
(* largest dataset in that group": also when the program has failed while  *)
(* it extended the column, for that is what the output file then has.      *)
ColumnAsLongAsLargest ==
  pc \in {"open", "failed"} => \A g \in Tracked : LongAsLargest(g)

(* concat_hdf5.cpp:526-528, "the value will match the extracted value from *)
(* the path of the input file who dataset(s) triggered the resize": the    *)
(* file named in a row is the first that brought any dataset to that row,  *)
(* whatever is missing from which file; for tabular data, which have every *)
(* row in every dataset from the same file, it is the origin of the row.   *)
NamesTrigger(g) ==
  \A i \in 1..Len(column[g]) :
    LET reached == {d \in DatasetsOf(g) : i <= Len(table[d])}
    IN  /\ \E d \in reached : table[d][i] = column[g][i]
        /\ \A d \in reached : table[d][i] >= column[g][i]

ColumnNamesTrigger ==
  pc \in {"open", "failed"} => \A g \in Tracked : NamesTrigger(g)

(* Two kinds of input stop the program.  A selected group of this input    *)
(* whose parent is not selected has nowhere to be created.                 *)
ParentLeftOut ==
  \E g \in content.groups \cap selected : Parent[g] \notin selected \cup {Root}

(* Or it has some datasets of a group, but not one that is longer than     *)
(* those.                                                                  *)
LongestMissing ==
  \E d \in Datasets \ DOMAIN content.rows : \E e \in DOMAIN content.rows :
    GroupOf[d] = GroupOf[e] /\ Len(table[d]) > Len(table[e])

(* Every input is read, unless one is of these kinds; nothing else stops   *)
(* the program, and the program does stop there or at the end.             *)
InputsReadOrExcused ==
  <>( \/ pc = "open" /\ file = NFiles
      \/ pc = "refused" /\ ParentLeftOut
      \/ pc = "failed" /\ LongestMissing )

-----------------------------------------------------------------------------
(* The inductive invariant.                                                *)

(* The items that are left are items of this file; a column's group that   *)
(* has been visited has its entry.                                         *)
InThisFile ==
  /\ pc \in {"visit", "column"} => file > 0
  /\ pc = "visit" =>
       /\ content \in Contents
       /\ todo \subseteq content.groups \cup DOMAIN content.rows
       /\ content.groups \cap selected \cap Columned \subseteq Tracked \cup todo
  /\ pc = "column" => todo \subseteq Tracked

(* Nothing was copied into a group before it had its entry. *)
Untouched ==
  \A g \in Columned \ Tracked :
    column[g] = << >> /\ \A d \in DatasetsOf(g) : table[d] = << >>

(* An entry that this file has not touched yet, or that is done with it:   *)
(* its required_size is the one the column was last extended to, or 0.     *)
AtRest(g) == pc = "open" \/ (pc = "visit" /\ g \in todo) \/ (pc = "column" /\ g \notin todo)

Complete(g) == LongAsLargest(g) /\ required[g] \in {0, Len(column[g])}

(* An entry in between: datasets have grown beyond the column, by rows of  *)
(* this file, to the required_size; or the column is as long as before.    *)
Pending(g) == (pc = "visit" /\ g \notin todo) \/ (pc = "column" /\ g \in todo)

Growing(g) ==
  /\ \A d \in DatasetsOf(g) :
       /\ Len(table[d]) <= Longer(Len(column[g]), required[g])
       /\ \A i \in 1..Len(table[d]) : i > Len(column[g]) => table[d][i] = file
  /\ required[g] = 0 \/ \E d \in DatasetsOf(g) \ todo : Len(table[d]) = required[g]
  /\ Len(column[g]) \in RowsIn(g) \cup {0} \/ required[g] > Len(column[g])

(* No row comes from a file that has not been opened. *)
FromOpened ==
  /\ \A d \in Datasets : \A i \in 1..Len(table[d]) : table[d][i] <= file
  /\ \A g \in Groups : \A i \in 1..Len(column[g]) : column[g][i] <= file

IInv ==
  /\ TypeOK /\ InThisFile /\ Untouched /\ FromOpened
  /\ \A g \in Tracked :
       /\ NamesTrigger(g)
       /\ AtRest(g) => Complete(g)
       /\ Pending(g) => Growing(g)
=============================================================================
