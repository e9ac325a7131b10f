------------------------- MODULE ConcatFiles_proofs -------------------------
(***************************************************************************)
(* ConcatFiles keeps IInv, hence its columns are complete and name the     *)
(* file that brought the row, whatever the groups, inputs and limits are.  *)
(* There is a lemma for every action.                                      *)
(***************************************************************************)
EXTENDS ConcatFiles, SequenceTheorems, TLAPS

-----------------------------------------------------------------------------
(* Sequences.                                                              *)

(* How many rows 1..n are. *)
RowCount(n) == IF n > 0 THEN n ELSE 0

(* The domain of a sequence determines its length. *)
LEMMA SameLength == ASSUME NEW m \in Nat, NEW n \in Nat, 1..m = 1..n PROVE m = n
<1>1. CASE m < n
  <2>1. n \in 1..n /\ n \notin 1..m
    BY <1>1
  <2> QED BY <2>1
<1>2. CASE n < m
  <2>1. m \in 1..m /\ m \notin 1..n
    BY <1>2
  <2> QED BY <2>1
<1> QED BY <1>1, <1>2

(* The elements of a concatenation. *)
LEMMA Concatenated ==
  ASSUME NEW S, NEW s \in Seq(S), NEW r \in Seq(S)
  PROVE  /\ s \o r \in Seq(S) /\ Len(s \o r) = Len(s) + Len(r)
         /\ \A i \in 1..Len(s) : (s \o r)[i] = s[i]
         /\ \A i \in 1..Len(s \o r) :
               i > Len(s) => i - Len(s) \in 1..Len(r) /\ (s \o r)[i] = r[i - Len(s)]
OBVIOUS

(* t is s and n times x. *)
Extends(t, s, n, x, S) ==
  /\ t \in Seq(S)
  /\ Len(t) = Len(s) + RowCount(n)
  /\ \A i \in 1..Len(s) : t[i] = s[i]
  /\ \A i \in 1..Len(t) : i > Len(s) => t[i] = x

(* Rows of a file are appended to a dataset or a column: the old ones are  *)
(* still there, and every new one is this file's.                          *)
LEMMA AppendRows ==
  ASSUME NEW S, NEW s \in Seq(S), NEW n \in Int, NEW x \in S
  PROVE  Extends(s \o [i \in 1..n |-> x], s, n, x, S)
<1> DEFINE r == [i \in 1..n |-> x]
           t == s \o r
<1>1. r = [i \in 1..n |-> x]
  OBVIOUS
<1>2. t = s \o r
  OBVIOUS
<1> HIDE DEF r, t
<1>3. r \in Seq(S) /\ Len(r) = RowCount(n) /\ \A i \in 1..Len(r) : r[i] = x
  <2>1. RowCount(n) \in Nat /\ 1..n = 1..RowCount(n)
    BY DEF RowCount
  <2>2. r \in [1..RowCount(n) -> S] /\ \A i \in 1..RowCount(n) : r[i] = x
    BY <1>1, <2>1
  <2>3. r \in Seq(S)
    BY <2>1, <2>2, SeqDef
  <2>4. Len(r) \in Nat /\ 1..RowCount(n) = 1..Len(r)
    BY <2>2, <2>3, LenProperties
  <2>5. Len(r) = RowCount(n)
    BY <2>1, <2>4, SameLength
  <2> QED BY <2>2, <2>3, <2>5
<1>4. /\ t \in Seq(S) /\ Len(t) = Len(s) + Len(r)
      /\ \A i \in 1..Len(s) : t[i] = s[i]
      /\ \A i \in 1..Len(t) :
            i > Len(s) => i - Len(s) \in 1..Len(r) /\ t[i] = r[i - Len(s)]
  BY <1>2, <1>3, Concatenated
<1>5. \A i \in 1..Len(t) : i > Len(s) => t[i] = x
  BY <1>3, <1>4
<1>6. Extends(t, s, n, x, S)
  BY <1>3, <1>4, <1>5 DEF Extends
<1> QED BY <1>6 DEF r, t

-----------------------------------------------------------------------------
(* The first input finds nothing in the output. *)
LEMMA InitIInv == Init => IInv
<1> SUFFICES ASSUME Init PROVE IInv
  OBVIOUS
<1>0. << >> \in Seq(1..NFiles) /\ Len(<< >>) = 0 /\ DOMAIN << >> = {}
  BY EmptySeq
<1>1. TypeOK
  BY <1>0, InputsAssumption DEF Init, TypeOK, Tracked
<1>2. InThisFile
  BY DEF Init, InThisFile
<1>3. Untouched
  BY SelectionAssumption DEF Init, Untouched, DatasetsOf
<1>4. FromOpened
  BY <1>0 DEF Init, FromOpened
<1>5. Tracked = {}
  BY <1>0 DEF Init, Tracked
<1> QED BY <1>1, <1>2, <1>3, <1>4, <1>5 DEF IInv

(* What holds of a group's rows and column is not disturbed by a step that *)
(* leaves them alone.                                                      *)
LEMMA SameRows ==
  ASSUME NEW g, table' = table, column' = column
  PROVE  /\ RowsIn(g)' = RowsIn(g)
         /\ LongAsLargest(g)' = LongAsLargest(g)
         /\ NamesTrigger(g)' = NamesTrigger(g)
BY DEF RowsIn, LongAsLargest, NamesTrigger, DatasetsOf

(* A new input: what is at rest may be overtaken by it, and a group it     *)
(* does not have counts as visited, with the required_size of the past.    *)
LEMMA OpenInputKeeps == IInv /\ OpenInput => IInv'
<1> SUFFICES ASSUME IInv, OpenInput PROVE IInv'
  OBVIOUS
<1> USE DEF Tracked
<1>1. content'.groups \subseteq Groups /\ DOMAIN content'.rows \subseteq Datasets
  BY InputsAssumption DEF OpenInput
<1>2. TypeOK'
  BY <1>1, InputsAssumption DEF IInv, TypeOK, OpenInput
<1>3. InThisFile'
  BY InputsAssumption DEF IInv, TypeOK, InThisFile, OpenInput
<1>4. Untouched'
  BY DEF IInv, Untouched, DatasetsOf, OpenInput
<1>5. FromOpened'
  <2>1. file \in Nat /\ file' = file + 1
    BY InputsAssumption DEF IInv, TypeOK, OpenInput
  <2>2. \A d \in Datasets : \A i \in 1..Len(table[d]) : table[d][i] \in Nat
    BY InputsAssumption DEF IInv, TypeOK
  <2>3. \A g \in Groups : \A i \in 1..Len(column[g]) : column[g][i] \in Nat
    BY InputsAssumption DEF IInv, TypeOK
  <2> QED BY <2>1, <2>2, <2>3 DEF IInv, FromOpened, OpenInput
<1>6. ASSUME NEW g \in Tracked'
      PROVE  NamesTrigger(g)' /\ (AtRest(g)' => Complete(g)') /\ (Pending(g)' => Growing(g)')
  <2>1. g \in Tracked /\ g \in Groups
    BY <1>6, SelectionAssumption DEF IInv, TypeOK, OpenInput
  <2>2. NamesTrigger(g) /\ Complete(g)
    BY <2>1 DEF IInv, AtRest, OpenInput
  <2>3. NamesTrigger(g)' /\ LongAsLargest(g)' /\ RowsIn(g)' = RowsIn(g)
    BY <2>2, SameRows DEF Complete, OpenInput
  <2>4. Complete(g)'
    BY <2>2, <2>3 DEF Complete, OpenInput
  <2>5. ASSUME g \notin todo'
        PROVE  Growing(g)'
    <3>1. \A d \in DatasetsOf(g) : d \notin todo'
      BY <1>1, <2>5, TreeAssumption, InputsAssumption DEF DatasetsOf, OpenInput
    <3>2. \A d \in DatasetsOf(g) : Len(table[d]) \in Nat /\ Len(table[d]) <= Len(column[g])
      BY <2>2 DEF Complete, LongAsLargest, RowsIn, DatasetsOf, IInv, TypeOK
    <3>3. Len(column[g]) \in Nat /\ required[g] \in Nat
      BY <2>1 DEF IInv, TypeOK
    <3>4. required[g] = 0 \/ \E d \in DatasetsOf(g) \ todo' : Len(table[d]) = required[g]
      BY <2>2, <3>1 DEF Complete, LongAsLargest, RowsIn
    <3>5. Len(column[g]) \in RowsIn(g) \cup {0}
      BY <2>2 DEF Complete, LongAsLargest
    <3> QED BY <2>3, <3>2, <3>3, <3>4, <3>5 DEF Growing, DatasetsOf, Longer, OpenInput
  <2> QED BY <2>3, <2>4, <2>5 DEF Pending, OpenInput
<1> QED BY <1>2, <1>3, <1>4, <1>5, <1>6 DEF IInv

-----------------------------------------------------------------------------
(* Steps of a visit, and of the loop over the columns, that copy nothing.  *)

(* An entry that this file has rows for keeps them. *)
LEMMA GrowingKept ==
  ASSUME NEW g, Growing(g), todo' \subseteq todo,
         UNCHANGED <<file, table, column>>, required'[g] = required[g]
  PROVE  Growing(g)'
BY SameRows DEF Growing, DatasetsOf

(* The entry of a group starts with 0, at the first visit and at the later *)
(* ones: until one of its datasets comes the column is as it was.          *)
LEMMA VisitGroupKeeps ==
  ASSUME IInv, NEW g \in Groups, VisitGroup(g)
  PROVE  IInv'
<1>1. /\ \A h \in Tracked' : h \in Tracked \/ (h = g /\ g \in Columned)
      /\ \A h \in Tracked' \ {g} : required'[h] = required[h]
      /\ g \in Columned => g \in Tracked' /\ required'[g] = 0
      /\ Tracked \subseteq Tracked'
  BY DEF VisitGroup, WithColumn, Tracked
<1>2. g \notin todo' /\ g \in selected
  BY DEF VisitGroup, IsSelected
<1>3. \A h \in Tracked' : required'[h] \in Nat
  BY <1>1 DEF IInv, TypeOK
<1>4. TypeOK'
  BY <1>1, <1>2, <1>3 DEF IInv, TypeOK, VisitGroup
<1>5. InThisFile'
  BY <1>1 DEF IInv, InThisFile, VisitGroup
<1>6. Untouched'
  BY <1>1 DEF IInv, Untouched, DatasetsOf, VisitGroup
<1>7. FromOpened'
  BY DEF IInv, FromOpened, VisitGroup
<1>8. ASSUME NEW h \in Tracked'
      PROVE  NamesTrigger(h)' /\ (AtRest(h)' => Complete(h)') /\ (Pending(h)' => Growing(h)')
  <2> USE DEF VisitGroup
  <2>1. CASE h # g
    <3>1. h \in Tracked /\ required'[h] = required[h]
      BY <1>1, <1>8, <2>1
    <3>2. NamesTrigger(h)' /\ LongAsLargest(h)' = LongAsLargest(h)
      BY <3>1, SameRows DEF IInv
    <3>3. AtRest(h)' => AtRest(h)
      BY DEF AtRest
    <3>4. Pending(h)' => Pending(h)
      BY <2>1 DEF Pending
    <3>5. AtRest(h)' => Complete(h)'
      BY <3>1, <3>2, <3>3 DEF IInv, Complete
    <3>6. Pending(h)' => Growing(h)'
      BY <3>1, <3>4, GrowingKept DEF IInv
    <3> QED BY <3>2, <3>5, <3>6
  <2>2. CASE h = g
    <3>1. g \in Columned /\ required'[g] = 0
      BY <1>1, <1>8, <2>2 DEF IInv, TypeOK
    <3>2. LongAsLargest(g) /\ NamesTrigger(g)
      <4>1. CASE g \in Tracked
        BY <4>1 DEF IInv, AtRest, Complete
      <4>2. CASE g \notin Tracked
        <5>1. column[g] = << >> /\ \A d \in DatasetsOf(g) : table[d] = << >>
          BY <3>1, <4>2 DEF IInv, Untouched
        <5>2. Len(<< >>) = 0 /\ 0 <= 0
          BY EmptySeq
        <5> QED BY <5>1, <5>2 DEF LongAsLargest, RowsIn, NamesTrigger
      <4> QED BY <4>1, <4>2
    <3>3. \A d \in DatasetsOf(g) :
            Len(table[d]) \in Nat /\ Len(column[g]) \in Nat /\ Len(table[d]) <= Len(column[g])
      BY <3>2 DEF LongAsLargest, RowsIn, DatasetsOf, IInv, TypeOK
    <3>4. Growing(g)'
      <4>1. \A d \in DatasetsOf(g) :
              /\ Len(table[d]) <= Longer(Len(column[g]), 0)
              /\ \A i \in 1..Len(table[d]) : ~ i > Len(column[g])
        BY <3>3 DEF Longer
      <4>2. DatasetsOf(g)' = DatasetsOf(g) /\ RowsIn(g)' = RowsIn(g)
        BY SameRows DEF DatasetsOf
      <4> QED BY <3>1, <3>2, <4>1, <4>2 DEF Growing, LongAsLargest
    <3>5. ~ AtRest(g)'
      BY <1>2 DEF AtRest
    <3> QED BY <2>2, <3>2, <3>4, <3>5, SameRows
  <2> QED BY <2>1, <2>2
<1> QED BY <1>4, <1>5, <1>6, <1>7, <1>8 DEF IInv

(* A step that copies nothing and leaves the entries as they are keeps     *)
(* what an entry is in, or has it at rest when it was at rest.             *)
LEMMA QuietStep ==
  ASSUME IInv, TypeOK', InThisFile', todo' \subseteq todo,
         UNCHANGED <<file, table, required, column>>,
         \A g \in Tracked : (AtRest(g)' => AtRest(g)) /\ (Pending(g)' => Pending(g))
  PROVE  IInv'
<1>1. Tracked' = Tracked
  BY DEF Tracked
<1>2. Untouched' /\ FromOpened'
  BY <1>1 DEF IInv, Untouched, FromOpened, DatasetsOf
<1>3. ASSUME NEW g \in Tracked
      PROVE  NamesTrigger(g)' /\ (AtRest(g)' => Complete(g)') /\ (Pending(g)' => Growing(g)')
  <2>1. NamesTrigger(g)' /\ LongAsLargest(g)' = LongAsLargest(g)
    BY SameRows DEF IInv
  <2>2. AtRest(g)' => Complete(g)'
    BY <2>1 DEF IInv, Complete
  <2>3. Pending(g)' => Growing(g)'
    BY GrowingKept DEF IInv
  <2> QED BY <2>1, <2>2, <2>3
<1> QED BY <1>1, <1>2, <1>3 DEF IInv

LEMMA VisitGroupFailsKeeps ==
  ASSUME IInv, NEW g \in Groups, VisitGroupFails(g)
  PROVE  IInv'
<1> USE DEF VisitGroupFails, Tracked
<1>1. TypeOK' /\ InThisFile'
  BY DEF IInv, TypeOK, InThisFile
<1>2. \A h \in Tracked : ~ AtRest(h)' /\ ~ Pending(h)'
  BY DEF AtRest, Pending
<1> QED BY <1>1, <1>2, QuietStep

(* Only selected groups have entries. *)
LEMMA IgnoreGroupKeeps ==
  ASSUME IInv, NEW g \in Groups, IgnoreGroup(g)
  PROVE  IInv'
<1> USE DEF IgnoreGroup, Tracked
<1>1. g \notin Tracked /\ g \notin selected
  BY DEF IInv, TypeOK, IsSelected
<1>2. TypeOK' /\ InThisFile'
  BY <1>1 DEF IInv, TypeOK, InThisFile
<1>3. \A h \in Tracked : (AtRest(h)' => AtRest(h)) /\ (Pending(h)' => Pending(h))
  BY <1>1 DEF AtRest, Pending
<1> QED BY <1>2, <1>3, QuietStep

LEMMA IgnoreDatasetKeeps ==
  ASSUME IInv, NEW d \in Datasets, IgnoreDataset(d)
  PROVE  IInv'
<1> USE DEF IgnoreDataset, Tracked
<1>1. d \notin Groups
  BY TreeAssumption
<1>2. Tracked \subseteq Groups /\ d \notin Tracked
  BY <1>1, SelectionAssumption DEF IInv, TypeOK
<1>3. TypeOK' /\ InThisFile'
  BY <1>1, SelectionAssumption DEF IInv, TypeOK, InThisFile
<1>4. \A h \in Tracked : (AtRest(h)' => AtRest(h)) /\ (Pending(h)' => Pending(h))
  BY <1>2 DEF AtRest, Pending
<1> QED BY <1>3, <1>4, QuietStep

(* After a visit no dataset is left, and every entry's column is. *)
LEMMA EndVisitKeeps ==
  ASSUME IInv, EndVisit
  PROVE  IInv'
<1> USE DEF EndVisit
<1>1. Tracked' = Tracked /\ Tracked \subseteq Groups
  BY SelectionAssumption DEF Tracked, IInv, TypeOK
<1>2. TypeOK' /\ InThisFile'
  BY <1>1 DEF IInv, TypeOK, InThisFile
<1>3. Untouched' /\ FromOpened'
  BY <1>1 DEF IInv, Untouched, FromOpened, DatasetsOf
<1>4. ASSUME NEW g \in Tracked
      PROVE  NamesTrigger(g)' /\ ~ AtRest(g)' /\ Growing(g)'
  <2>1. NamesTrigger(g)' /\ RowsIn(g)' = RowsIn(g)
    BY SameRows DEF IInv
  <2>2. ~ AtRest(g)'
    BY DEF AtRest
  <2>3. Growing(g)
    BY DEF IInv, Pending
  <2>4. DatasetsOf(g) \cap todo' = {}
    BY <1>1, TreeAssumption DEF DatasetsOf
  <2>5. Growing(g)'
    BY <2>1, <2>3, <2>4 DEF Growing, DatasetsOf
  <2> QED BY <2>1, <2>2, <2>5
<1> QED BY <1>1, <1>2, <1>3, <1>4 DEF IInv

LEMMA EndColumnsKeeps ==
  ASSUME IInv, EndColumns
  PROVE  IInv'
<1> USE DEF EndColumns, Tracked
<1>1. TypeOK' /\ InThisFile'
  BY DEF IInv, TypeOK, InThisFile
<1>2. \A h \in Tracked : AtRest(h) /\ ~ Pending(h)'
  BY DEF AtRest, Pending
<1> QED BY <1>1, <1>2, QuietStep
-----------------------------------------------------------------------------
(* The rows of a dataset are this file's.  Rows that its column had before *)
(* keep the name they have: it is of an earlier file, or of this one.      *)
LEMMA VisitDatasetKeeps ==
  ASSUME IInv, NEW d \in Datasets, VisitDataset(d)
  PROVE  IInv'
<1> DEFINE own == GroupOf[d]
           n == RowsTaken(d)
           more == table[d] \o [i \in 1..n |-> file]
<1>1. /\ pc = "visit" /\ pc' = pc /\ d \in todo /\ own \notin todo /\ todo' = todo \ {d}
      /\ own \in selected /\ file > 0 /\ file \in 1..NFiles
      /\ UNCHANGED <<selected, file, content, outGroups, column>>
  BY InputsAssumption DEF IInv, InThisFile, TypeOK, VisitDataset, IsSelected
<1>2. /\ d \in DOMAIN content.rows /\ content.rows[d] \in Nat
      /\ own \in content.groups /\ own \in Groups /\ d \notin Groups
  BY <1>1, TreeAssumption, InputsAssumption DEF IInv, InThisFile
<1>3. n \in Int
  <2>1. Len(table[d]) \in Nat
    BY DEF IInv, TypeOK
  <2> QED BY <1>2, <2>1, InputsAssumption DEF RowsTaken, Shorter
<1>4. own \in Columned => own \in Tracked
  BY <1>1, <1>2 DEF IInv, InThisFile
<1> HIDE DEF n
<1>5. Extends(more, table[d], n, file, 1..NFiles)
  <2>1. table[d] \in Seq(1..NFiles)
    BY DEF IInv, TypeOK
  <2>2. file \in 1..NFiles
    BY <1>1
  <2> QED BY <1>3, <2>1, <2>2, AppendRows
<1>6. table' = [table EXCEPT ![d] = more]
  BY DEF VisitDataset, n
<1> HIDE DEF more
<1>7. /\ table[d] \in Seq(1..NFiles) /\ Len(table[d]) \in Nat
      /\ table'[d] = more
      /\ \A e \in Datasets \ {d} : table'[e] = table[e]
  BY <1>6 DEF IInv, TypeOK
<1>8. required' = IF own \in Tracked
                  THEN [required EXCEPT ![own] = Longer(required[own], Len(table'[d]))]
                  ELSE required
  BY DEF VisitDataset, LargestSoFar
<1>9. /\ table'[d] \in Seq(1..NFiles) /\ Len(table'[d]) \in Nat
      /\ Len(table'[d]) >= Len(table[d])
      /\ \A i \in 1..Len(table[d]) : i \in 1..Len(table'[d]) /\ table'[d][i] = table[d][i]
      /\ \A i \in 1..Len(table'[d]) : i > Len(table[d]) => table'[d][i] = file
  <2>1. Len(table[d]) \in Nat /\ RowCount(n) \in Nat /\ Len(more) = Len(table[d]) + RowCount(n)
    BY <1>3, <1>7, <1>5 DEF RowCount, Extends
  <2>2. \A i \in 1..Len(table[d]) : i \in 1..Len(more)
    BY <2>1
  <2>3. Len(more) \in Nat /\ Len(more) >= Len(table[d])
    BY <2>1
  <2> QED BY <1>7, <1>5, <2>2, <2>3 DEF Extends
<1>10. /\ Tracked' = Tracked /\ Tracked \subseteq Groups /\ Tracked \subseteq Columned
      /\ \A g \in Tracked :
            /\ required[g] \in Nat
            /\ g # own => required'[g] = required[g]
            /\ g = own => required'[g] = Longer(required[g], Len(table'[d]))
  BY <1>8, SelectionAssumption DEF Tracked, IInv, TypeOK
<1>11. TypeOK'
  <2>1. table' \in [Datasets -> Seq(1..NFiles)]
    BY <1>7, <1>9, <1>6 DEF IInv, TypeOK
  <2>2. \A g \in Tracked' : required'[g] \in Nat
    BY <1>9, <1>10 DEF Longer
  <2>3. todo' \subseteq Groups \cup Datasets /\ outGroups' \subseteq selected'
    BY <1>1 DEF IInv, TypeOK
  <2>4. Tracked' \subseteq Columned \cap selected'
    BY <1>1, <1>10 DEF IInv, TypeOK
  <2>5. /\ pc' \in {"open", "visit", "column", "refused", "failed"}
        /\ file' \in 0..NFiles /\ selected' \in Selections
        /\ column' \in [Groups -> Seq(1..NFiles)]
    BY <1>1 DEF IInv, TypeOK
  <2> QED BY <2>1, <2>2, <2>3, <2>4, <2>5 DEF TypeOK
<1>12. InThisFile'
  BY <1>1, <1>2, <1>10, SelectionAssumption DEF IInv, InThisFile
<1>13. Untouched'
  BY <1>1, <1>4, <1>7, <1>10 DEF IInv, Untouched, DatasetsOf
<1>14. FromOpened'
  <2>1. ASSUME NEW e \in Datasets, NEW i \in 1..Len(table'[e])
        PROVE  table'[e][i] <= file
    <3>1. CASE e # d
      BY <1>7, <3>1 DEF IInv, FromOpened
    <3>2. CASE e = d /\ i > Len(table[d])
      BY <1>1, <1>9, <3>2
    <3>3. CASE e = d /\ i <= Len(table[d])
      <4>1. i \in 1..Len(table[d])
        BY <1>7, <1>9, <3>3
      <4>2. table'[d][i] = table[d][i] /\ table[d][i] <= file
        BY <1>9, <4>1 DEF IInv, FromOpened
      <4> QED BY <3>3, <4>2
    <3> QED BY <1>7, <1>9, <3>1, <3>2, <3>3
  <2> QED BY <1>1, <2>1 DEF IInv, FromOpened
<1>15. ASSUME NEW g \in Tracked
       PROVE  NamesTrigger(g)' /\ (AtRest(g)' => Complete(g)') /\ (Pending(g)' => Growing(g)')
  <2>1. Len(column[g]) \in Nat /\ \A i \in 1..Len(column[g]) : column[g][i] \in Nat /\ column[g][i] <= file
    BY <1>10, InputsAssumption DEF IInv, TypeOK, FromOpened
  <2>2. CASE g # own
    <3>1. d \notin DatasetsOf(g) /\ DatasetsOf(g)' = DatasetsOf(g)
      BY <2>2 DEF DatasetsOf
    <3>2. \A e \in DatasetsOf(g) : table'[e] = table[e]
      BY <1>7, <3>1 DEF DatasetsOf
    <3>3. RowsIn(g)' = RowsIn(g)
      BY <3>1, <3>2 DEF RowsIn
    <3>4. required'[g] = required[g] /\ g # d
      BY <1>2, <1>10, <2>2
    <3>5. (AtRest(g)' => AtRest(g)) /\ (Pending(g)' => Pending(g))
      BY <1>1, <3>4 DEF AtRest, Pending
    <3>6. NamesTrigger(g)'
      BY <1>1, <3>1, <3>2 DEF IInv, NamesTrigger
    <3>7. AtRest(g)' => Complete(g)'
      BY <1>1, <3>3, <3>4, <3>5 DEF IInv, Complete, LongAsLargest
    <3>8. Pending(g)' => Growing(g)'
      BY <1>1, <3>1, <3>2, <3>3, <3>4, <3>5 DEF IInv, Growing
    <3> QED BY <3>6, <3>7, <3>8
  <2>3. CASE g = own
    <3> DEFINE m == Len(table'[d])
    <3>1. /\ d \in DatasetsOf(g) /\ DatasetsOf(g)' = DatasetsOf(g)
          /\ DatasetsOf(g) \subseteq Datasets
          /\ required'[g] = Longer(required[g], m)
          /\ required[g] \in Nat /\ m \in Nat
          /\ \A e \in DatasetsOf(g) : Len(table[e]) \in Nat
      BY <1>9, <1>10, <2>3 DEF DatasetsOf, IInv, TypeOK
    <3>2. Growing(g) /\ NamesTrigger(g) /\ ~ AtRest(g)'
      BY <1>1, <2>3 DEF IInv, Pending, AtRest
    <3>3. NamesTrigger(g)'
      <4> SUFFICES ASSUME NEW i \in 1..Len(column[g])
                   PROVE  /\ \E e \in DatasetsOf(g) :
                               i <= Len(table'[e]) /\ table'[e][i] = column[g][i]
                          /\ \A e \in DatasetsOf(g) :
                               i <= Len(table'[e]) => table'[e][i] >= column[g][i]
        BY <1>1, <3>1 DEF NamesTrigger
      <4>1. i \in 1..Len(table[d]) \/ i > Len(table[d])
        BY <1>7, <2>1
      <4>2. PICK e \in DatasetsOf(g) : i <= Len(table[e]) /\ table[e][i] = column[g][i]
        BY <3>2 DEF NamesTrigger
      <4>3. i <= Len(table'[e]) /\ table'[e][i] = column[g][i]
        <5>1. CASE e # d
          BY <1>7, <3>1, <4>2, <5>1
        <5>2. CASE e = d
          <6>1. i \in 1..Len(table[d])
            BY <1>7, <2>1, <4>2, <5>2
          <6> QED BY <1>9, <4>2, <5>2, <6>1
        <5> QED BY <5>1, <5>2
      <4>4. ASSUME NEW f \in DatasetsOf(g), i <= Len(table'[f])
            PROVE  table'[f][i] >= column[g][i]
        <5>1. CASE f # d
          BY <1>7, <3>1, <3>2, <4>4, <5>1 DEF NamesTrigger
        <5>2. CASE f = d /\ i \in 1..Len(table[d])
          <6>1. i <= Len(table[d]) /\ table'[d][i] = table[d][i]
            BY <1>7, <1>9, <5>2
          <6> QED BY <3>1, <3>2, <5>2, <6>1 DEF NamesTrigger
        <5>3. CASE f = d /\ i > Len(table[d])
          <6>1. i \in 1..Len(table'[d])
            BY <1>9, <2>1, <4>4, <5>3
          <6>2. table'[d][i] = file
            BY <1>9, <5>3, <6>1
          <6> QED BY <1>1, <2>1, <5>3, <6>2
        <5> QED BY <4>1, <5>1, <5>2, <5>3
      <4> QED BY <4>3, <4>4
    <3>4. \A e \in DatasetsOf(g) :
            /\ Len(table'[e]) <= Longer(Len(column[g]), required'[g])
            /\ \A i \in 1..Len(table'[e]) : i > Len(column[g]) => table'[e][i] = file
      <4>1. ASSUME NEW e \in DatasetsOf(g), e # d
            PROVE  /\ Len(table'[e]) <= Longer(Len(column[g]), required'[g])
                   /\ \A i \in 1..Len(table'[e]) : i > Len(column[g]) => table'[e][i] = file
        <5>1. table'[e] = table[e] /\ Len(table[e]) \in Nat
          BY <1>7, <3>1, <4>1
        <5>2. Len(table[e]) <= Longer(Len(column[g]), required[g])
          BY <3>2 DEF Growing
        <5>3. Longer(Len(column[g]), required[g]) <= Longer(Len(column[g]), required'[g])
          BY <2>1, <3>1 DEF Longer
        <5>4. Longer(Len(column[g]), required[g]) \in Nat /\ Longer(Len(column[g]), required'[g]) \in Nat
          BY <2>1, <3>1 DEF Longer
        <5> QED BY <3>2, <5>1, <5>2, <5>3, <5>4 DEF Growing
      <4>2. Len(table'[d]) <= Longer(Len(column[g]), required'[g])
        BY <2>1, <3>1 DEF Longer
      <4>3. ASSUME NEW i \in 1..Len(table'[d]), i > Len(column[g])
            PROVE  table'[d][i] = file
        <5>1. CASE i > Len(table[d])
          BY <1>9, <5>1
        <5>2. CASE ~ i > Len(table[d])
          <6>1. i \in 1..Len(table[d])
            BY <1>7, <1>9, <5>2
          <6> QED BY <1>9, <3>1, <3>2, <4>3, <6>1 DEF Growing
        <5> QED BY <5>1, <5>2
      <4> QED BY <4>1, <4>2, <4>3
    <3>5. required'[g] = 0 \/ \E e \in DatasetsOf(g) \ todo' : Len(table'[e]) = required'[g]
      <4>1. CASE required'[g] = m
        BY <1>1, <3>1, <4>1
      <4>2. CASE required'[g] = required[g]
        <5>1. \A e \in DatasetsOf(g) \ todo : e \notin todo' /\ table'[e] = table[e]
          BY <1>1, <1>7, <3>1
        <5> QED BY <3>2, <4>2, <5>1 DEF Growing
      <4> QED BY <3>1, <4>1, <4>2 DEF Longer
    <3>6. Len(column[g]) \in RowsIn(g)' \cup {0} \/ required'[g] > Len(column[g])
      <4>1. CASE Len(column[g]) = 0
        BY <4>1
      <4>2. CASE required[g] > Len(column[g])
        BY <2>1, <3>1, <4>2 DEF Longer
      <4>3. CASE Len(column[g]) \in RowsIn(g)
        <5>1. PICK e \in DatasetsOf(g) : Len(table[e]) = Len(column[g])
          BY <4>3 DEF RowsIn
        <5>2. CASE e # d \/ m = Len(table[d])
          <6>1. Len(table'[e]) = Len(column[g])
            BY <1>7, <3>1, <5>1, <5>2
          <6> QED BY <3>1, <6>1 DEF RowsIn
        <5>3. CASE e = d /\ m > Len(table[d])
          <6>1. m > Len(column[g])
            BY <5>1, <5>3
          <6>2. required'[g] > Len(column[g])
            BY <2>1, <3>1, <6>1 DEF Longer
          <6> QED BY <6>2
        <5> QED BY <1>7, <1>9, <5>2, <5>3
      <4> QED BY <3>2, <4>1, <4>2, <4>3 DEF Growing
    <3>7. Growing(g)'
      BY <1>1, <3>1, <3>4, <3>5, <3>6 DEF Growing
    <3> QED BY <3>2, <3>3, <3>7
  <2> QED BY <2>2, <2>3
<1> QED BY <1>10, <1>11, <1>12, <1>13, <1>14, <1>15 DEF IInv
-----------------------------------------------------------------------------
(* Nothing was copied into the group in this file, or nothing at all: its  *)
(* column is as long as it has to be already.                              *)
LEMMA SkipColumnKeeps ==
  ASSUME IInv, NEW g \in Groups, SkipColumn(g)
  PROVE  IInv'
<1> USE DEF SkipColumn
<1>1. Tracked' = Tracked /\ g \in Tracked
  BY DEF Tracked, IInv, InThisFile
<1>2. TypeOK' /\ InThisFile'
  BY <1>1 DEF IInv, TypeOK, InThisFile
<1>3. Untouched' /\ FromOpened'
  BY <1>1 DEF IInv, Untouched, FromOpened, DatasetsOf
<1>4. ASSUME NEW h \in Tracked
      PROVE  NamesTrigger(h)' /\ (AtRest(h)' => Complete(h)') /\ (Pending(h)' => Growing(h)')
  <2>1. NamesTrigger(h)' /\ LongAsLargest(h)' = LongAsLargest(h)
    BY SameRows DEF IInv
  <2>2. CASE h # g
    <3>1. (AtRest(h)' => AtRest(h)) /\ (Pending(h)' => Pending(h))
      BY <2>2 DEF AtRest, Pending
    <3>2. AtRest(h)' => Complete(h)'
      BY <2>1, <3>1 DEF IInv, Complete
    <3>3. Pending(h)' => Growing(h)'
      BY <3>1, GrowingKept DEF IInv
    <3> QED BY <2>1, <3>2, <3>3
  <2>3. CASE h = g
    <3>1. Growing(g) /\ required[g] = 0 /\ ~ Pending(g)'
      BY <1>1 DEF IInv, Pending
    <3>2. /\ Len(column[g]) \in Nat /\ DatasetsOf(g) \subseteq Datasets
          /\ \A d \in Datasets : Len(table[d]) \in Nat
      BY DEF IInv, TypeOK, DatasetsOf
    <3>3. \A d \in DatasetsOf(g) : Len(table[d]) <= Len(column[g])
      BY <3>1, <3>2 DEF Growing, Longer
    <3>4. Len(column[g]) \in RowsIn(g) \cup {0}
      BY <3>1, <3>2 DEF Growing
    <3>5. LongAsLargest(g)
      BY <3>3, <3>4 DEF LongAsLargest, RowsIn
    <3> QED BY <2>1, <2>3, <3>1, <3>5 DEF Complete
  <2> QED BY <2>2, <2>3
<1> QED BY <1>1, <1>2, <1>3, <1>4 DEF IInv

(* The new rows of a column take this file's name, for the rows of the     *)
(* datasets beyond it are this file's.                                     *)
LEMMA FillColumnKeeps ==
  ASSUME IInv, NEW g \in Groups, FillColumn(g)
  PROVE  IInv'
<1> DEFINE n == required[g] - Len(column[g])
           longer == column[g] \o [i \in 1..n |-> file]
<1>1. /\ Tracked' = Tracked /\ Tracked \subseteq Groups /\ Tracked \subseteq Columned
      /\ g \in Tracked /\ pc = "column" /\ g \in todo /\ todo' = todo \ {g}
      /\ file > 0 /\ file \in 1..NFiles
      /\ UNCHANGED <<selected, pc, file, content, outGroups, table, required>>
  BY SelectionAssumption, InputsAssumption DEF FillColumn, Tracked, IInv, InThisFile, TypeOK
<1>2. /\ column[g] \in Seq(1..NFiles) /\ Len(column[g]) \in Nat /\ required[g] \in Nat
      /\ required[g] > 0 /\ required[g] >= Len(column[g])
  BY <1>1 DEF FillColumn, IInv, TypeOK
<1>3. n \in Int /\ RowCount(n) = n
  BY <1>2 DEF RowCount
<1>4. column' = [column EXCEPT ![g] = longer]
  BY DEF FillColumn, Extended
<1>5. Extends(longer, column[g], n, file, 1..NFiles)
  BY <1>1, <1>2, <1>3, AppendRows
<1> HIDE DEF longer
<1>6. /\ longer \in Seq(1..NFiles) /\ Len(longer) = required[g]
      /\ \A i \in 1..Len(column[g]) : longer[i] = column[g][i]
      /\ \A i \in 1..Len(longer) : i > Len(column[g]) => longer[i] = file
  BY <1>2, <1>3, <1>5 DEF Extends
<1> HIDE DEF n
<1>7. column'[g] = longer /\ \A h \in Groups \ {g} : column'[h] = column[h]
  BY <1>4 DEF IInv, TypeOK
<1>8. TypeOK'
  BY <1>1, <1>4, <1>6 DEF IInv, TypeOK
<1>9. InThisFile'
  BY <1>1 DEF IInv, InThisFile
<1>10. Untouched'
  BY <1>1, <1>7, SelectionAssumption DEF IInv, Untouched, DatasetsOf
<1>11. FromOpened'
  <2>1. ASSUME NEW i \in 1..Len(longer)
        PROVE  longer[i] <= file
    <3>1. CASE i > Len(column[g])
      BY <1>1, <1>6, <3>1
    <3>2. CASE i \in 1..Len(column[g])
      BY <1>6, <3>2 DEF IInv, FromOpened
    <3> QED BY <1>2, <1>6, <3>1, <3>2
  <2>2. \A h \in Groups \ {g} : \A i \in 1..Len(column'[h]) : column'[h][i] <= file
    BY <1>7 DEF IInv, FromOpened
  <2> QED BY <1>1, <1>7, <2>1, <2>2 DEF IInv, FromOpened
<1>12. ASSUME NEW h \in Tracked
       PROVE  NamesTrigger(h)' /\ (AtRest(h)' => Complete(h)') /\ (Pending(h)' => Growing(h)')
  <2>1. /\ DatasetsOf(h)' = DatasetsOf(h) /\ RowsIn(h)' = RowsIn(h)
        /\ required'[h] = required[h]
    BY <1>1 DEF DatasetsOf, RowsIn
  <2>2. CASE h # g
    <3>1. column'[h] = column[h]
      BY <1>1, <1>7, <2>2
    <3>2. (AtRest(h)' => AtRest(h)) /\ (Pending(h)' => Pending(h))
      BY <1>1, <2>2 DEF AtRest, Pending
    <3>3. NamesTrigger(h)'
      BY <1>1, <2>1, <3>1 DEF IInv, NamesTrigger
    <3>4. AtRest(h)' => Complete(h)'
      BY <2>1, <3>1, <3>2 DEF IInv, Complete, LongAsLargest
    <3>5. Pending(h)' => Growing(h)'
      BY <1>1, <2>1, <3>1, <3>2 DEF IInv, Growing
    <3> QED BY <3>3, <3>4, <3>5
  <2>3. CASE h = g
    <3>1. Growing(g) /\ NamesTrigger(g) /\ ~ Pending(g)'
      BY <1>1 DEF IInv, Pending
    <3>2. PICK f \in DatasetsOf(g) : Len(table[f]) = required[g]
      BY <1>2, <3>1 DEF Growing
    <3>3. \A d \in DatasetsOf(g) :
            /\ Len(table[d]) \in Nat /\ Len(table[d]) <= required[g]
            /\ \A i \in 1..Len(table[d]) : i > Len(column[g]) => table[d][i] = file
      BY <1>2, <3>1 DEF Growing, Longer, DatasetsOf, IInv, TypeOK
    <3>4. LongAsLargest(g)'
      BY <1>6, <1>7, <2>1, <2>3, <3>2, <3>3 DEF LongAsLargest, RowsIn
    <3>5. Complete(g)'
      BY <1>6, <1>7, <2>1, <2>3, <3>4 DEF Complete
    <3>6. NamesTrigger(g)'
      <4> SUFFICES ASSUME NEW i \in 1..Len(longer)
                   PROVE  /\ \E d \in DatasetsOf(g) :
                               i <= Len(table[d]) /\ table[d][i] = longer[i]
                          /\ \A d \in DatasetsOf(g) :
                               i <= Len(table[d]) => table[d][i] >= longer[i]
        BY <1>1, <1>7, <2>1, <2>3 DEF NamesTrigger
      <4>1. CASE i \in 1..Len(column[g])
        BY <1>6, <3>1, <4>1 DEF NamesTrigger
      <4>2. CASE i > Len(column[g])
        <5>1. longer[i] = file /\ file \in Nat
          BY <1>1, <1>6, <4>2
        <5>2. ASSUME NEW d \in DatasetsOf(g), i <= Len(table[d])
              PROVE  table[d][i] = file
          <6>1. i \in 1..Len(table[d])
            BY <3>3, <5>2
          <6> QED BY <3>3, <4>2, <6>1
        <5>3. i <= Len(table[f])
          BY <1>6, <3>2
        <5> QED BY <5>1, <5>2, <5>3
      <4> QED BY <1>2, <1>6, <4>1, <4>2
    <3> QED BY <2>3, <3>1, <3>5, <3>6
  <2> QED BY <2>2, <2>3
<1> QED BY <1>1, <1>8, <1>9, <1>10, <1>11, <1>12 DEF IInv

(* A column that is cut off still names what its rows came with. *)
LEMMA FillColumnFailsKeeps ==
  ASSUME IInv, NEW g \in Groups, FillColumnFails(g)
  PROVE  IInv'
<1> DEFINE cut == SubSeq(column[g], 1, required[g])
<1>1. /\ Tracked' = Tracked /\ Tracked \subseteq Groups /\ g \in Tracked /\ pc' = "failed"
      /\ UNCHANGED <<selected, file, content, todo, outGroups, table, required>>
  BY SelectionAssumption DEF FillColumnFails, Tracked, IInv, InThisFile, TypeOK
<1>2. /\ column[g] \in Seq(1..NFiles) /\ Len(column[g]) \in Nat /\ required[g] \in Nat
      /\ required[g] > 0 /\ required[g] < Len(column[g])
  BY <1>1 DEF FillColumnFails, IInv, TypeOK
<1>3. column' = [column EXCEPT ![g] = cut]
  BY DEF FillColumnFails
<1>4. /\ cut \in Seq(1..NFiles) /\ Len(cut) <= Len(column[g]) /\ Len(cut) \in Nat
      /\ \A i \in 1..Len(cut) : cut[i] = column[g][i] /\ i \in 1..Len(column[g])
  <2>1. \A i \in 1..required[g] : column[g][i] \in 1..NFiles
    <3>1. \A i \in 1..Len(column[g]) : column[g][i] \in 1..NFiles
      BY <1>2, ElementOfSeq
    <3>2. \A i \in 1..required[g] : i \in 1..Len(column[g])
      BY <1>2
    <3> QED BY <3>1, <3>2
  <2>2. /\ cut \in Seq(1..NFiles) /\ Len(cut) = required[g]
        /\ \A i \in 1..required[g] : cut[i] = column[g][i]
    BY <1>2, <2>1
  <2> HIDE DEF cut
  <2> QED BY <1>2, <2>2
<1> HIDE DEF cut
<1>5. column'[g] = cut /\ \A h \in Groups \ {g} : column'[h] = column[h]
  BY <1>3 DEF IInv, TypeOK
<1>6. TypeOK' /\ InThisFile'
  BY <1>1, <1>3, <1>4 DEF IInv, TypeOK, InThisFile
<1>7. Untouched'
  BY <1>1, <1>5, SelectionAssumption DEF IInv, Untouched, DatasetsOf
<1>8. FromOpened'
  BY <1>1, <1>4, <1>5 DEF IInv, FromOpened
<1>9. ASSUME NEW h \in Tracked
      PROVE  NamesTrigger(h)' /\ ~ AtRest(h)' /\ ~ Pending(h)'
  <2>1. NamesTrigger(h) /\ DatasetsOf(h)' = DatasetsOf(h) /\ h \in Groups
    BY <1>1 DEF IInv, DatasetsOf
  <2>2. \A i \in 1..Len(column'[h]) : i \in 1..Len(column[h]) /\ column'[h][i] = column[h][i]
    <3>1. CASE h # g
      BY <1>5, <2>1, <3>1
    <3>2. CASE h = g
      BY <1>4, <1>5, <3>2
    <3> QED BY <3>1, <3>2
  <2>3. NamesTrigger(h)'
    <3> SUFFICES ASSUME NEW i \in 1..Len(column'[h])
                 PROVE  /\ \E d \in DatasetsOf(h) :
                             i <= Len(table[d]) /\ table[d][i] = column'[h][i]
                        /\ \A d \in DatasetsOf(h) :
                             i <= Len(table[d]) => table[d][i] >= column'[h][i]
      BY <1>1, <2>1 DEF NamesTrigger
    <3> QED BY <2>1, <2>2 DEF NamesTrigger
  <2>4. ~ AtRest(h)' /\ ~ Pending(h)'
    BY <1>1 DEF AtRest, Pending
  <2> QED BY <2>3, <2>4
<1> QED BY <1>1, <1>6, <1>7, <1>8, <1>9 DEF IInv

-----------------------------------------------------------------------------
(* Every step of concatFiles() keeps the inductive invariant. *)
THEOREM Invariance == Spec => []IInv
<1>1. Init => IInv
  BY InitIInv
<1>2. IInv /\ [Next]_vars => IInv'
  <2> SUFFICES ASSUME IInv, [Next]_vars PROVE IInv'
    OBVIOUS
  <2>1. CASE OpenInput
    BY <2>1, OpenInputKeeps
  <2>2. ASSUME NEW g \in Groups, VisitGroup(g) \/ VisitGroupFails(g) \/ IgnoreGroup(g)
        PROVE  IInv'
    BY <2>2, VisitGroupKeeps, VisitGroupFailsKeeps, IgnoreGroupKeeps
  <2>3. ASSUME NEW d \in Datasets, VisitDataset(d) \/ IgnoreDataset(d)
        PROVE  IInv'
    BY <2>3, VisitDatasetKeeps, IgnoreDatasetKeeps
  <2>4. CASE EndVisit
    BY <2>4, EndVisitKeeps
  <2>5. ASSUME NEW g \in Groups, SkipColumn(g) \/ FillColumn(g) \/ FillColumnFails(g)
        PROVE  IInv'
    BY <2>5, SkipColumnKeeps, FillColumnKeeps, FillColumnFailsKeeps
  <2>6. CASE EndColumns
    BY <2>6, EndColumnsKeeps
  <2>7. CASE UNCHANGED vars
    <3> USE DEF vars, Tracked
    <3>1. TypeOK' /\ InThisFile'
      BY <2>7 DEF IInv, TypeOK, InThisFile
    <3>2. \A g \in Tracked : (AtRest(g)' => AtRest(g)) /\ (Pending(g)' => Pending(g))
      BY <2>7 DEF AtRest, Pending
    <3> QED BY <2>7, <3>1, <3>2, QuietStep
  <2> QED BY <2>1, <2>2, <2>3, <2>4, <2>5, <2>6, <2>7 DEF Next
<1> QED BY <1>1, <1>2, PTL DEF Spec

(* The output only ever has groups that were selected, entries only for    *)
(* those that have a column, and rows only from the inputs there are.      *)
THEOREM TypeCorrect == Spec => []TypeOK
<1>1. IInv => TypeOK
  BY DEF IInv
<1> QED BY <1>1, Invariance, PTL

(* Between two inputs, and at the end, every filename column is as long as *)
(* the largest dataset of its group, though group_filename_column_ds_size_ *)
(* keeps the required_size of an earlier file for a group that an input    *)
(* does not have.                                                          *)
THEOREM ColumnsComplete == Spec => []ColumnsCompleteAtOpen
<1>1. IInv => ColumnsCompleteAtOpen
  BY DEF IInv, ColumnsCompleteAtOpen, AtRest, Complete
<1> QED BY <1>1, Invariance, PTL

(* The file that a row of the column names is the first that brought any   *)
(* dataset of the group to that row.                                       *)
THEOREM NamesCorrect == Spec => []ColumnNamesTrigger
<1>1. IInv => ColumnNamesTrigger
  BY DEF IInv, ColumnNamesTrigger
<1> QED BY <1>1, Invariance, PTL
=============================================================================
