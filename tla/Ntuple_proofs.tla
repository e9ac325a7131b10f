--------------------------- MODULE Ntuple_proofs ---------------------------
(***************************************************************************)
(* Ntuple for any number of threads, columns and rows, any buffer size and *)
(* any number of failures of either kind.                                  *)
(***************************************************************************)
EXTENDS Ntuple, TLAPS, WellFoundedInduction
(* Induction on sets of numbers.                                           *)

LessThan == {pair \in Nat \X Nat : pair[1] < pair[2]}

LEMMA LessThanWellFounded == IsWellFoundedOn(LessThan, Nat)
BY NatLessThanWellFounded, Zenon DEF OpToRel, LessThan

LEMMA LeastElement ==
  ASSUME NEW S \in SUBSET Nat, S # {}
  PROVE  \E n \in S : \A m \in S : n <= m
<1>1. \E n \in S : \A m \in S : ~ (<<m, n>> \in LessThan)
  BY LessThanWellFounded, WFMin
<1>2. PICK n \in S : \A m \in S : ~ (<<m, n>> \in LessThan)
  BY <1>1
<1>3. ASSUME NEW m \in S PROVE ~ (m < n)
  <2>1. <<m, n>> \in Nat \X Nat
    OBVIOUS
  <2>2. m < n => <<m, n>> \in LessThan
    BY <2>1 DEF LessThan
  <2> QED
    BY <1>2, <2>2
<1> QED
  BY <1>3

(* What holds at 0 and passes from each number to the next holds up to n. *)
LEMMA StepByStep ==
  ASSUME NEW n \in Nat, NEW S, 0 \in S,
         \A i \in 0 .. n - 1 : i \in S => i + 1 \in S
  PROVE  \A i \in 0 .. n : i \in S
<1> SUFFICES ASSUME NEW k \in 0 .. n, k \notin S PROVE FALSE
  OBVIOUS
<1> DEFINE Out == {i \in 0 .. n : i \notin S}
<1>1. Out \in SUBSET Nat /\ Out # {}
  OBVIOUS
<1>2. PICK i \in Out : \A m \in Out : i <= m
  BY <1>1, LeastElement
<1>3. i # 0
  OBVIOUS
<1>4. i - 1 \in 0 .. n - 1 /\ i - 1 \in 0 .. n
  BY <1>2, <1>3
<1>5. i - 1 \notin Out
  BY <1>2, <1>4
<1>6. i - 1 \in S
  BY <1>4, <1>5
<1>7. (i - 1) + 1 \in S /\ (i - 1) + 1 = i
  BY <1>4, <1>6
<1> QED
  BY <1>7

-----------------------------------------------------------------------------
(* Sequences. *)

(* Moving a buffer to the end of a dataset keeps the rows of both. *)
LEMMA MoveRows ==
  ASSUME NEW S, NEW s \in Seq(S), NEW b \in Seq(S)
  PROVE  (s \o b) \o << >> = s \o b
  OBVIOUS

(* A row at the end of the buffer is at the end of the column. *)
LEMMA ConcatAppend ==
  ASSUME NEW S, NEW s \in Seq(S), NEW b \in Seq(S), NEW e \in S
  PROVE  s \o Append(b, e) = Append(s \o b, e)
  OBVIOUS

(* An appended row leaves the others in their places. *)
LEMMA AppendKeeps ==
  ASSUME NEW S, NEW s \in Seq(S), NEW e \in S
  PROVE  /\ Len(Append(s, e)) = Len(s) + 1
         /\ \A i \in 1..Len(s) : Append(s, e)[i] = s[i]
  OBVIOUS
-----------------------------------------------------------------------------
(* The rows of a dataset, apart from holes.                                *)

Cells == Threads \cup {Fill}

CollectsRows(dataset, n, rows) ==
  rows = [i \in 0..n |-> IF i = 0 THEN << >>
                         ELSE IF dataset[i] = Fill THEN rows[i - 1]
                         ELSE Append(rows[i - 1], dataset[i])]

(* The recursion of RowsUpTo() defines a function. *)
LEMMA RowsUpToDefined ==
  ASSUME NEW d \in Seq(Cells)
  PROVE  CollectsRows(d, Len(d), RowsUpTo(d))
<1> DEFINE S == {n \in Nat : \E g : CollectsRows(d, n, g)}
<1>1. Len(d) \in Nat
  OBVIOUS
<1>2. 0 \in S
  <2>1. CollectsRows(d, 0, [i \in 0..0 |-> << >>])
    BY DEF CollectsRows
  <2> QED
    BY <2>1
<1>3. ASSUME NEW n \in 0 .. Len(d) - 1, n \in S
      PROVE  n + 1 \in S
  <2>1. PICK g : CollectsRows(d, n, g)
    BY <1>3
  <2> DEFINE h == [i \in 0 .. n + 1 |->
                     IF i # n + 1 THEN g[i]
                     ELSE IF d[n + 1] = Fill THEN g[n] ELSE Append(g[n], d[n + 1])]
  <2>2. ASSUME NEW i \in 0 .. n + 1
        PROVE  h[i] = IF i = 0 THEN << >>
                      ELSE IF d[i] = Fill THEN h[i - 1] ELSE Append(h[i - 1], d[i])
    <3>1. CASE i = n + 1
      <4>1. i - 1 = n /\ i - 1 \in 0 .. n + 1 /\ i # 0 /\ i - 1 # n + 1
        BY <3>1
      <4> QED
        BY <3>1, <4>1
    <3>2. CASE i # n + 1
      <4>1. i \in 0 .. n /\ i - 1 # n + 1 /\ (i # 0 => i - 1 \in 0 .. n + 1)
        BY <3>2
      <4>2. g[i] = IF i = 0 THEN << >>
                   ELSE IF d[i] = Fill THEN g[i - 1] ELSE Append(g[i - 1], d[i])
        BY <2>1, <4>1, Zenon DEF CollectsRows
      <4>3. h[i] = g[i] /\ (i # 0 => h[i - 1] = g[i - 1])
        BY <3>2, <4>1
      <4> QED
        BY <4>2, <4>3
    <3> QED
      BY <3>1, <3>2
  <2>3. h = [i \in 0 .. n + 1 |-> h[i]]
    OBVIOUS
  <2> HIDE DEF h
  <2>4. CollectsRows(d, n + 1, h)
    BY <2>2, <2>3, Zenon DEF CollectsRows
  <2> QED
    BY <2>4
<1> HIDE DEF S
<1>4. Len(d) \in S
  <2>1. \A i \in 0 .. Len(d) : i \in S
    BY <1>1, <1>2, <1>3, StepByStep
  <2> QED
    BY <1>1, <2>1
<1>5. PICK g : CollectsRows(d, Len(d), g)
  BY <1>4 DEF S
<1> QED
  BY <1>5, Zenon DEF RowsUpTo, CollectsRows

LEMMA RowsUpToEquation ==
  ASSUME NEW d \in Seq(Cells)
  PROVE  /\ RowsUpTo(d)[0] = << >>
         /\ \A i \in 0 .. Len(d) - 1 :
              RowsUpTo(d)[i + 1] = IF d[i + 1] = Fill THEN RowsUpTo(d)[i]
                                   ELSE Append(RowsUpTo(d)[i], d[i + 1])
<1>1. \A i \in 0 .. Len(d) :
        RowsUpTo(d)[i] = IF i = 0 THEN << >>
                         ELSE IF d[i] = Fill THEN RowsUpTo(d)[i - 1]
                         ELSE Append(RowsUpTo(d)[i - 1], d[i])
  BY RowsUpToDefined, Zenon DEF CollectsRows
<1>2. Len(d) \in Nat
  OBVIOUS
<1>3. ASSUME NEW i \in 0 .. Len(d) - 1
      PROVE  i + 1 \in 0 .. Len(d) /\ i + 1 # 0 /\ (i + 1) - 1 = i
  BY <1>2
<1>4. ASSUME NEW i \in 0 .. Len(d) - 1
      PROVE  RowsUpTo(d)[i + 1] = IF d[i + 1] = Fill THEN RowsUpTo(d)[(i + 1) - 1]
                                  ELSE Append(RowsUpTo(d)[(i + 1) - 1], d[i + 1])
  BY <1>1, <1>3, Zenon
<1>5. 0 \in 0 .. Len(d)
  BY <1>2
<1> QED
  BY <1>1, <1>3, <1>4, <1>5

(* RowsOf() leaves out what nobody wrote. *)
LEMMA RowsTyped ==
  ASSUME NEW d \in Seq(Cells), NEW i \in 0 .. Len(d)
  PROVE  RowsUpTo(d)[i] \in Seq(Threads)
<1> DEFINE S == {k \in 0 .. Len(d) : RowsUpTo(d)[k] \in Seq(Threads)}
<1>1. Len(d) \in Nat
  OBVIOUS
<1>2. 0 \in S
  <2>1. RowsUpTo(d)[0] = << >>
    BY RowsUpToEquation
  <2>2. << >> \in Seq(Threads) /\ 0 \in 0 .. Len(d)
    BY <1>1
  <2>3. RowsUpTo(d)[0] \in Seq(Threads)
    BY <2>1, <2>2, Zenon
  <2> QED
    BY <2>2, <2>3, Zenon
<1>3. ASSUME NEW k \in 0 .. Len(d) - 1, k \in S
      PROVE  k + 1 \in S
  <2>1. k + 1 \in 0 .. Len(d) /\ k + 1 \in 1 .. Len(d)
    BY <1>1
  <2>2. d[k + 1] \in Cells
    BY <2>1
  <2>3. RowsUpTo(d)[k] \in Seq(Threads)
    BY <1>3
  <2>4. RowsUpTo(d)[k + 1] = IF d[k + 1] = Fill THEN RowsUpTo(d)[k]
                             ELSE Append(RowsUpTo(d)[k], d[k + 1])
    BY RowsUpToEquation
  <2>5. RowsUpTo(d)[k + 1] \in Seq(Threads)
    BY <2>2, <2>3, <2>4 DEF Cells
  <2> QED
    BY <2>1, <2>5
<1>4. \A k \in 0 .. Len(d) : k \in S
  <2> HIDE DEF S
  <2> QED
    BY <1>1, <1>2, <1>3, StepByStep
<1> QED
  BY <1>4

(* RowsOf() goes through two datasets that follow each other. *)
LEMMA RowsOfBoth ==
  ASSUME NEW d \in Seq(Cells), NEW e \in Seq(Cells)
  PROVE  RowsOf(d \o e) = RowsOf(d) \o RowsOf(e)
<1> DEFINE de == d \o e
<1>1. /\ de \in Seq(Cells) /\ Len(de) = Len(d) + Len(e) /\ Len(d) \in Nat /\ Len(e) \in Nat
      /\ \A i \in 1 .. Len(d) : de[i] = d[i]
      /\ \A i \in 1 .. Len(e) : de[Len(d) + i] = e[i]
  OBVIOUS
<1> HIDE DEF de
<1>2. \A i \in 0 .. Len(d) : RowsUpTo(de)[i] = RowsUpTo(d)[i]
  <2> DEFINE S == {k \in 0 .. Len(d) : RowsUpTo(de)[k] = RowsUpTo(d)[k]}
  <2>1. 0 \in S
    BY <1>1, RowsUpToEquation
  <2>2. ASSUME NEW k \in 0 .. Len(d) - 1, k \in S
        PROVE  k + 1 \in S
    <3>1. k + 1 \in 0 .. Len(d) /\ k \in 0 .. Len(de) - 1 /\ de[k + 1] = d[k + 1]
      BY <1>1
    <3>2. RowsUpTo(d)[k + 1] = IF d[k + 1] = Fill THEN RowsUpTo(d)[k]
                               ELSE Append(RowsUpTo(d)[k], d[k + 1])
      BY RowsUpToEquation
    <3>3. RowsUpTo(de)[k + 1] = IF de[k + 1] = Fill THEN RowsUpTo(de)[k]
                                ELSE Append(RowsUpTo(de)[k], de[k + 1])
      BY <1>1, <3>1, RowsUpToEquation
    <3> QED
      BY <2>2, <3>1, <3>2, <3>3
  <2>3. \A k \in 0 .. Len(d) : k \in S
    <3> HIDE DEF S
    <3> QED
      BY <1>1, <2>1, <2>2, StepByStep
  <2> QED
    BY <2>3
<1>3. \A i \in 0 .. Len(e) : RowsUpTo(de)[Len(d) + i] = RowsOf(d) \o RowsUpTo(e)[i]
  <2> DEFINE S == {k \in 0 .. Len(e) : RowsUpTo(de)[Len(d) + k] = RowsOf(d) \o RowsUpTo(e)[k]}
             rows == RowsOf(d)
  <2>1. rows \in Seq(Threads)
    BY <1>1, RowsTyped DEF RowsOf
  <2>2. 0 \in S
    <3>1. RowsUpTo(de)[Len(d) + 0] = rows
      BY <1>1, <1>2 DEF RowsOf
    <3>2. RowsUpTo(e)[0] = << >>
      BY RowsUpToEquation
    <3> HIDE DEF rows
    <3>3. rows \o << >> = rows
      BY <2>1
    <3>4. RowsUpTo(de)[Len(d) + 0] = rows \o RowsUpTo(e)[0]
      BY <3>1, <3>2, <3>3
    <3>5. 0 \in 0 .. Len(e)
      BY <1>1
    <3> QED
      BY <3>4, <3>5 DEF rows
  <2>3. ASSUME NEW k \in 0 .. Len(e) - 1, k \in S
        PROVE  k + 1 \in S
    <3>1. /\ k + 1 \in 0 .. Len(e) /\ k + 1 \in 1 .. Len(e) /\ k \in 0 .. Len(e)
          /\ Len(d) + k \in 0 .. Len(de) - 1
          /\ Len(d) + (k + 1) = (Len(d) + k) + 1
      BY <1>1
    <3>2. de[(Len(d) + k) + 1] = e[k + 1] /\ e[k + 1] \in Cells
      BY <1>1, <3>1
    <3> DEFINE x == e[k + 1]
               now == RowsUpTo(e)[k]
    <3>3. RowsUpTo(e)[k + 1] = IF x = Fill THEN now ELSE Append(now, x)
      BY RowsUpToEquation
    <3>4. RowsUpTo(de)[(Len(d) + k) + 1] =
            IF x = Fill THEN RowsUpTo(de)[Len(d) + k] ELSE Append(RowsUpTo(de)[Len(d) + k], x)
      BY <1>1, <3>1, <3>2, RowsUpToEquation
    <3>5. RowsUpTo(de)[Len(d) + k] = rows \o now
      BY <2>3
    <3>6. now \in Seq(Threads)
      BY <3>1, RowsTyped
    <3>7. x = Fill \/ x \in Threads
      BY <3>2 DEF Cells
    <3> HIDE DEF x, now, rows
    <3>8. x # Fill => rows \o Append(now, x) = Append(rows \o now, x)
      BY <2>1, <3>6, <3>7, ConcatAppend
    <3>9. RowsUpTo(de)[Len(d) + (k + 1)] = rows \o RowsUpTo(e)[k + 1]
      BY <3>1, <3>3, <3>4, <3>5, <3>8
    <3> QED
      BY <3>1, <3>9 DEF rows
  <2>4. \A k \in 0 .. Len(e) : k \in S
    <3> HIDE DEF S
    <3> QED
      BY <1>1, <2>2, <2>3, StepByStep
  <2> QED
    BY <2>4
<1>4. RowsUpTo(de)[Len(de)] = RowsOf(d) \o RowsUpTo(e)[Len(e)]
  BY <1>1, <1>3
<1> QED
  BY <1>4 DEF RowsOf, de

(* Rows that were written are all of them rows; *)
LEMMA RowsOfRows ==
  ASSUME NEW b \in Seq(Threads)
  PROVE  RowsOf(b) = b
<1> DEFINE Same(k) == RowsUpTo(b)[k] = SubSeq(b, 1, k)
           S == {k \in 0 .. Len(b) : Same(k)}
<1>1. Len(b) \in Nat /\ b \in Seq(Cells)
  BY DEF Cells
<1>2. 0 \in S
  <2>1. SubSeq(b, 1, 0) = << >> /\ 0 \in 0 .. Len(b)
    BY <1>1
  <2>2. RowsUpTo(b)[0] = << >>
    BY <1>1, RowsUpToEquation
  <2> QED
    BY <1>1, <2>1, <2>2
<1>3. ASSUME NEW k \in 0 .. Len(b) - 1, k \in S
      PROVE  k + 1 \in S
  <2>1. k + 1 \in 0 .. Len(b) /\ k + 1 \in 1 .. Len(b)
    BY <1>1
  <2>2. b[k + 1] # Fill
    BY <2>1, ThreadsAssumption
  <2>3. RowsUpTo(b)[k + 1] = Append(SubSeq(b, 1, k), b[k + 1])
    BY <1>1, <1>3, <2>2, RowsUpToEquation
  <2>4. Append(SubSeq(b, 1, k), b[k + 1]) = SubSeq(b, 1, k + 1)
    BY <2>1
  <2> QED
    BY <2>1, <2>3, <2>4
<1>4. \A k \in 0 .. Len(b) : k \in S
  <2> HIDE DEF S
  <2> QED
    BY <1>1, <1>2, <1>3, StepByStep
<1>5. RowsOf(b) = SubSeq(b, 1, Len(b))
  BY <1>1, <1>4 DEF RowsOf
<1> QED
  BY <1>5

(* what was only allocated is none. *)
LEMMA RowsOfHoles ==
  ASSUME NEW f \in Seq({Fill})
  PROVE  RowsOf(f) = << >>
<1> DEFINE S == {k \in 0 .. Len(f) : RowsUpTo(f)[k] = << >>}
<1>1. Len(f) \in Nat /\ f \in Seq(Cells)
  BY DEF Cells
<1>2. 0 \in S
  BY <1>1, RowsUpToEquation
<1>3. ASSUME NEW k \in 0 .. Len(f) - 1, k \in S
      PROVE  k + 1 \in S
  <2>1. k + 1 \in 0 .. Len(f) /\ f[k + 1] = Fill
    BY <1>1
  <2> QED
    BY <1>1, <1>3, <2>1, RowsUpToEquation
<1>4. \A k \in 0 .. Len(f) : k \in S
  <2> HIDE DEF S
  <2> QED
    BY <1>1, <1>2, <1>3, StepByStep
<1> QED
  BY <1>1, <1>4 DEF RowsOf

(* In a column that was written and in one that only has holes. *)
LEMMA WrittenTyped ==
  ASSUME TypeOK, NEW c \in Columns
  PROVE  Written(c) \in Seq(Threads)
<1>1. stored[c] \in Seq(Cells) /\ Len(stored[c]) \in Nat
  BY DEF TypeOK, Cells
<1>2. Len(stored[c]) \in 0 .. Len(stored[c])
  BY <1>1
<1> QED
  BY <1>1, <1>2, RowsTyped DEF Written, RowsOf

LEMMA WrittenOfWhole ==
  ASSUME TypeOK, NoHoles, NEW c \in Columns
  PROVE  Written(c) = stored[c]
<1>1. stored[c] \in Seq(Threads \cup {Fill})
  BY DEF TypeOK
<1>2. \A i \in 1 .. Len(stored[c]) : stored[c][i] \in Threads
  BY <1>1 DEF NoHoles
<1>3. stored[c] \in Seq(Threads)
  BY <1>1, <1>2
<1> QED
  BY <1>3, RowsOfRows DEF Written

-----------------------------------------------------------------------------
(* How a call, or everything, ends. *)
CallState ==
  /\ mutex \in [owner : Threads \cup {NoThread}, depth : 0..2]
  /\ mutex.owner = NoThread <=> mutex.depth = 0
  /\ pc \in [Threads -> PCs]
  /\ op \in [Threads -> Ops]
  /\ col \in [Threads -> 1..(NCols + 1)]
  /\ rc \in [Threads -> BOOLEAN]

LEMMA ReturnTyped ==
  ASSUME TypeOK, NEW t \in Threads, Return(t), mutex' \in {mutex, Unlocked}
  PROVE  CallState'
<1>1. mutex' \in [owner : Threads \cup {NoThread}, depth : 0..2]
      /\ (mutex'.owner = NoThread <=> mutex'.depth = 0)
  BY DEF TypeOK, Unlocked
<1> QED
  BY <1>1, ColumnsAssumption DEF TypeOK, Return, GoTo, CallState, PCs, Ops

LEMMA CrashTyped ==
  ASSUME TypeOK, NEW cause \in Losses, Crash(cause)
  PROVE  CallState' /\ alive' \in BOOLEAN /\ lost' \subseteq Losses
<1>1. mutex' \in [owner : Threads \cup {NoThread}, depth : 0..2]
      /\ (mutex'.owner = NoThread <=> mutex'.depth = 0)
  BY DEF Crash, Unlocked
<1>2. col' \in [Threads -> 1..(NCols + 1)]
  BY ColumnsAssumption DEF Crash
<1> QED
  BY <1>1, <1>2 DEF TypeOK, Crash, CallState, PCs, Ops, Losses

(* In a call other than ~Ntuple() an exception is the end of the call only. *)
LEMMA ThrowEndsCall ==
  ASSUME NEW t \in Threads, NEW how \in WriteFailures, Throws(t, how), Throw(t, "flush")
  PROVE  Leave(t) /\ UNCHANGED <<alive, lost>>
  BY DEF Throws, Throw

(* Without memory for its pointers a column is not flushed: the call ends, *)
(* or everything does.                                                     *)
LEMMA StarvedEnds ==
  ASSUME NEW t \in Threads, FlushColumnStarved(t)
  PROVE  /\ UNCHANGED <<stored, buffer, shells, accepted>> /\ failures' = failures + 1
         /\ pc[t] = "flush" /\ col[t] \in StringColumns
         /\ \/ op[t] # "destroy" /\ Leave(t) /\ UNCHANGED <<alive, lost>>
            \/ op[t] = "destroy" /\ Crash("memory")
  BY DEF FlushColumnStarved, Fails, Throw

LEMMA CauseIsLoss == {"memory", "close", "shell"} \subseteq Losses
  BY DEF Losses

-----------------------------------------------------------------------------
(* The steps of one thread. *)
LEMMA TypeStep ==
  ASSUME TypeOK, Locking, NEW t \in Threads, Proceed(t)
  PROVE  TypeOK'
<1> USE DEF TypeOK, PCs, Ops, Columns, Rows
<1> USE ThreadsAssumption, ColumnsAssumption
<1>1. CASE LockForInsert(t)
  BY <1>1 DEF LockForInsert, Lock, GoTo, Locking, table
<1>2. CASE CheckCapacity(t)
  BY <1>2 DEF CheckCapacity, GoTo, table
<1>3. CASE LockForFlush(t)
  BY <1>3 DEF LockForFlush, Lock, GoTo, Locking, table
<1>4. CASE FlushColumn(t)
  <2>1. stored[col[t]] \o buffer[col[t]] \in Seq(Threads \cup {Fill})
    BY <1>4 DEF FlushColumn
  <2> QED
    BY <1>4, <2>1 DEF FlushColumn, WriteColumn
<1>5. ASSUME NEW how \in WriteFailures, FlushColumnFails(t, how)
      PROVE  TypeOK'
  <2>1. stored' \in [Columns -> Seq(Threads \cup {Fill})]
    <3> DEFINE fills == [i \in 1..Len(buffer[col[t]]) |-> Fill]
    <3>1. fills \in Seq(Threads \cup {Fill})
      BY <1>5 DEF FlushColumnFails
    <3>2. stored[col[t]] \o fills \in Seq(Threads \cup {Fill})
      BY <1>5, <3>1 DEF FlushColumnFails
    <3> HIDE DEF fills
    <3>3. stored' = stored \/ stored' = [stored EXCEPT ![col[t]] = stored[col[t]] \o fills]
      BY <1>5 DEF FlushColumnFails, FailColumn, fills
    <3> QED
      BY <3>2, <3>3
  <2>2. CallState' /\ UNCHANGED <<alive, lost>>
    <3>1. CASE Throws(t, how) /\ Throw(t, "flush")
      <4> HIDE DEF TypeOK
      <4>1. Leave(t) /\ UNCHANGED <<alive, lost>>
        BY <3>1, ThrowEndsCall
      <4> QED
        BY <4>1, ReturnTyped DEF Leave
    <3>2. CASE /\ col' = [col EXCEPT ![t] = @ + 1]
               /\ rc' = [rc EXCEPT ![t] = TRUE]
               /\ UNCHANGED <<mutex, pc, op, alive, lost>>
      <4>1. col' \in [Threads -> 1..(NCols + 1)]
        BY <1>5, <3>2 DEF FlushColumnFails
      <4>2. rc' \in [Threads -> BOOLEAN]
        BY <3>2
      <4> QED
        BY <3>2, <4>1, <4>2 DEF CallState
    <3> QED
      BY <1>5, <3>1, <3>2, Zenon DEF FlushColumnFails
  <2>3. /\ failures' \in Nat /\ buffer' = buffer
        /\ UNCHANGED <<shells, accepted>>
    BY <1>5 DEF FlushColumnFails, FailColumn, Fails
  <2> QED
    BY <2>1, <2>2, <2>3 DEF CallState
<1>6. CASE EndFlush(t)
  <2>1. UNCHANGED <<stored, buffer, alive, shells, accepted, failures>> /\ pc[t] = "flush"
    BY <1>6, Zenon DEF EndFlush
  <2>2. lost' \subseteq Losses
    BY <1>6 DEF EndFlush, Losses
  <2>3. CallState'
    <3>1. CASE /\ GoesOnToInsert(t) /\ UnlockInner /\ GoTo(t, "insert")
               /\ col' = [col EXCEPT ![t] = 1] /\ UNCHANGED <<op, rc>>
      BY <2>1, <3>1 DEF UnlockInner, GoTo, GoesOnToInsert, Locking, CallState
    <3>2. CASE op[t] = "destroy" /\ mutex' = Unlocked /\ GoTo(t, "close")
               /\ UNCHANGED <<op, col, rc>>
      <4>1. mutex' \in [owner : Threads \cup {NoThread}, depth : 0..2]
            /\ (mutex'.owner = NoThread <=> mutex'.depth = 0)
        BY <3>2 DEF Unlocked
      <4> QED
        BY <3>2, <4>1 DEF GoTo, CallState
    <3>3. CASE Leave(t)
      BY <3>3, ReturnTyped DEF Leave
    <3> QED
      BY <1>6, <3>1, <3>2, <3>3, Zenon DEF EndFlush
  <2> QED
    BY <2>1, <2>2, <2>3 DEF CallState
<1>7. CASE InsertColumn(t)
  <2>1. accepted' \in Seq(Threads)
    BY <1>7 DEF InsertColumn
  <2>2. buffer' \in [Columns -> Seq(Threads)]
    BY <1>7 DEF InsertColumn
  <2>3. col' \in [Threads -> 1..(NCols + 1)]
    BY <1>7 DEF InsertColumn
  <2> QED
    BY <1>7, <2>1, <2>2, <2>3 DEF InsertColumn
<1>8. CASE EndInsert(t)
  BY <1>8, ReturnTyped DEF EndInsert, Leave, CallState, table
<1>9. CASE CloseMembers(t)
  BY <1>9, ReturnTyped DEF CloseMembers, CallState, table
<1>10. CASE CloseMembersFails(t)
  <2>1. CallState' /\ alive' \in BOOLEAN /\ lost' \subseteq Losses
    <3>1. CASE Crash("close")
      BY <3>1, CrashTyped, CauseIsLoss
    <3>2. CASE /\ Return(t) /\ lost' = lost \cup {"close"} /\ UNCHANGED <<mutex, alive>>
      BY <3>2, ReturnTyped DEF Losses
    <3> QED
      BY <1>10, <3>1, <3>2, Zenon DEF CloseMembersFails
  <2> QED
    BY <1>10, <2>1 DEF CloseMembersFails, Fails, CallState
<1>11. CASE InsertColumnFails(t)
  <2>1. CallState'
    BY <1>11, ReturnTyped DEF InsertColumnFails, Leave
  <2>2. lost' \subseteq Losses
    BY <1>11 DEF InsertColumnFails, Losses
  <2>3. failures' \in Nat
    BY <1>11 DEF InsertColumnFails, Fails
  <2> QED
    BY <1>11, <2>1, <2>2, <2>3 DEF InsertColumnFails, CallState
<1>12. CASE FlushColumnStarved(t)
  <2>1. CallState' /\ alive' \in BOOLEAN /\ lost' \subseteq Losses
    <3> HIDE DEF TypeOK
    <3>1. CASE Leave(t) /\ UNCHANGED <<alive, lost>>
      BY <3>1, ReturnTyped DEF Leave, TypeOK
    <3>2. CASE Crash("memory")
      BY <3>2, CrashTyped, CauseIsLoss
    <3> QED
      BY <1>12, <3>1, <3>2, StarvedEnds
  <2>2. UNCHANGED <<stored, buffer, shells, accepted>> /\ failures' = failures + 1
    BY <1>12, StarvedEnds
  <2>3. failures' \in Nat
    BY <2>2
  <2> QED
    BY <2>1, <2>2, <2>3 DEF CallState
<1> QED
  BY <1>1, <1>2, <1>3, <1>4, <1>5, <1>6, <1>7, <1>8, <1>9, <1>10, <1>11, <1>12 DEF Proceed

(* A call that has ended, and the end of everything, leave nothing locked. *)
LEMMA ReturnUnlocked ==
  ASSUME TypeOK, Locking, NEW t \in Threads, Return(t),
         mutex' = Unlocked, mutex.owner \in {t, NoThread}
  PROVE  Locking'
  BY ThreadsAssumption DEF TypeOK, PCs, Ops, Return, GoTo, Unlocked, Locking

LEMMA CrashUnlocked ==
  ASSUME NEW cause \in Losses, Crash(cause)
  PROVE  Locking'
  BY ThreadsAssumption DEF Crash, Unlocked, Locking

LEMMA LockingStep ==
  ASSUME TypeOK, Locking, NEW t \in Threads, Proceed(t)
  PROVE  Locking'
<1> USE DEF TypeOK, PCs, Ops, Columns
<1> USE ThreadsAssumption, ColumnsAssumption
<1>1. CASE LockForInsert(t)
  BY <1>1 DEF LockForInsert, Lock, GoTo, Locking
<1>2. CASE CheckCapacity(t)
  BY <1>2 DEF CheckCapacity, GoTo, Locking
<1>3. CASE LockForFlush(t)
  BY <1>3 DEF LockForFlush, Lock, GoTo, Locking
<1>4. CASE FlushColumn(t)
  BY <1>4 DEF FlushColumn, Locking
<1>5. ASSUME NEW how \in WriteFailures, FlushColumnFails(t, how)
      PROVE  Locking'
  <2>1. CASE Throws(t, how) /\ Throw(t, "flush")
    <3>1. mutex.owner = t
      BY <1>5 DEF FlushColumnFails, Locking
    <3> QED
      BY <2>1, <3>1, ThrowEndsCall, ReturnUnlocked DEF Leave
  <2>2. CASE UNCHANGED <<mutex, pc, op>>
    BY <1>5, <2>2 DEF FlushColumnFails, Locking
  <2> QED
    BY <1>5, <2>1, <2>2, Zenon DEF FlushColumnFails
<1>6. CASE EndFlush(t)
  <2>1. mutex.owner = t /\ pc[t] = "flush"
    BY <1>6 DEF EndFlush, Locking
  <2>2. CASE /\ GoesOnToInsert(t) /\ UnlockInner /\ GoTo(t, "insert") /\ UNCHANGED op
    BY <2>1, <2>2 DEF UnlockInner, GoesOnToInsert, GoTo, Locking
  <2>3. CASE op[t] = "destroy" /\ mutex' = Unlocked /\ GoTo(t, "close") /\ UNCHANGED op
    BY <2>1, <2>3 DEF Unlocked, GoTo, Locking
  <2>4. CASE Leave(t)
    BY <2>1, <2>4, ReturnUnlocked DEF Leave
  <2> QED
    BY <1>6, <2>2, <2>3, <2>4, Zenon DEF EndFlush
<1>7. CASE InsertColumn(t)
  BY <1>7 DEF InsertColumn, Locking
<1>8. CASE EndInsert(t)
  <2>1. mutex.owner = t
    BY <1>8 DEF EndInsert, Locking
  <2> QED
    BY <1>8, <2>1, ReturnUnlocked DEF EndInsert, Leave
<1>9. ASSUME Return(t), mutex' = mutex, pc[t] = "close"
      PROVE  Locking'
  BY <1>9 DEF Return, GoTo, Locking
<1>10. CASE CloseMembers(t)
  BY <1>9, <1>10 DEF CloseMembers
<1>11. CASE CloseMembersFails(t)
  BY <1>9, <1>11, CrashUnlocked, CauseIsLoss DEF CloseMembersFails
<1>12. CASE InsertColumnFails(t)
  <2>1. mutex.owner = t
    BY <1>12 DEF InsertColumnFails, Locking
  <2> QED
    BY <1>12, <2>1, ReturnUnlocked DEF InsertColumnFails, Leave
<1>13. CASE FlushColumnStarved(t)
  <2>1. mutex.owner = t
    BY <1>13, StarvedEnds DEF Locking
  <2>2. CASE Leave(t)
    BY <2>1, <2>2, ReturnUnlocked DEF Leave
  <2>3. CASE Crash("memory")
    BY <2>3, CrashUnlocked, CauseIsLoss
  <2> QED
    BY <1>13, <2>2, <2>3, StarvedEnds
<1> QED
  BY <1>1, <1>2, <1>3, <1>4, <1>5, <1>6, <1>7, <1>8, <1>10, <1>11, <1>12, <1>13 DEF Proceed

(* flush_one() writes the buffer, or leaves at most holes. *)
LEMMA WrittenByFlush ==
  ASSUME TypeOK, NEW t \in Threads, FlushColumn(t), NEW c \in Columns
  PROVE  Written(c)' = IF c = col[t] THEN Written(c) \o buffer[c] ELSE Written(c)
<1>1. CASE c # col[t]
  <2>1. stored'[c] = stored[c]
    BY <1>1 DEF TypeOK, FlushColumn, WriteColumn
  <2> QED
    BY <1>1, <2>1 DEF Written
<1>2. CASE c = col[t]
  <2> DEFINE d == stored[c]
             b == buffer[c]
  <2>1. stored'[c] = d \o b
    BY <1>2 DEF TypeOK, FlushColumn, WriteColumn
  <2>2. d \in Seq(Cells) /\ b \in Seq(Threads) /\ b \in Seq(Cells)
    BY DEF TypeOK, Rows, Cells
  <2>3. Written(c)' = RowsOf(d \o b) /\ Written(c) = RowsOf(d)
    BY <2>1 DEF Written
  <2> HIDE DEF d, b
  <2>4. Written(c)' = Written(c) \o b
    BY <2>2, <2>3, RowsOfBoth, RowsOfRows
  <2> QED
    BY <1>2, <2>4 DEF b
<1> QED
  BY <1>1, <1>2

LEMMA WrittenByFailure ==
  ASSUME TypeOK, NEW t \in Threads, NEW how \in WriteFailures, FlushColumnFails(t, how),
         NEW c \in Columns
  PROVE  Written(c)' = Written(c)
<1> DEFINE fills == [i \in 1..Len(buffer[c]) |-> Fill]
           d == stored[c]
<1>1. fills \in Seq({Fill}) /\ fills \in Seq(Cells) /\ d \in Seq(Cells)
  BY DEF TypeOK, Rows, Cells
<1>2. stored'[c] = d \/ stored'[c] = d \o fills
  BY DEF TypeOK, FlushColumnFails, FailColumn
<1>3. Written(c) = RowsOf(d) /\ Written(c)' = RowsOf(stored'[c])
  BY DEF Written
<1>4. Written(c) \in Seq(Threads)
  BY WrittenTyped
<1> HIDE DEF fills, d
<1>5. RowsOf(d \o fills) = RowsOf(d) \o << >>
  BY <1>1, RowsOfBoth, RowsOfHoles
<1>6. RowsOf(d) \o << >> = RowsOf(d)
  BY <1>3, <1>4
<1> QED
  BY <1>2, <1>3, <1>5, <1>6

(* A row that was torn apart stays so. *)
LEMMA TornStays ==
  ASSUME TypeOK, NEW t \in Threads, Proceed(t), Untorn'
  PROVE  Untorn
BY DEF Untorn, Proceed, LockForInsert, CheckCapacity, LockForFlush, FlushColumn,
       FlushColumnFails, FlushColumnStarved, Throw, EndFlush, CloseMembers, CloseMembersFails, Crash,
       InsertColumn, InsertColumnFails, EndInsert, table

(* No step of a thread changes what the columns hold together, other than  *)
(* by the row it inserts, and no thread other than the inserting one does. *)
LEMMA ColumnsStep ==
  ASSUME TypeOK, Locking, ColumnsComplete, Untorn', Kept',
         NEW t \in Threads, Proceed(t)
  PROVE  ColumnsComplete'
<1> USE DEF TypeOK, PCs, Ops, Columns, Rows
<1> USE ThreadsAssumption, ColumnsAssumption
<1>a. \A u \in Threads : pc[u] \in {"check", "flush", "insert"} /\ mutex.owner = t => u = t
  BY DEF Locking
<1>b. ASSUME \A c \in Columns : Written(c)' = Written(c), UNCHANGED <<buffer, accepted>>,
             \A u \in Threads, c \in Columns : InProgress(u, c)' <=> InProgress(u, c)
      PROVE  ColumnsComplete'
  BY <1>b DEF ColumnsComplete
<1>d. UNCHANGED stored => \A c \in Columns : Written(c)' = Written(c)
  BY DEF Written
<1>1. CASE LockForInsert(t)
  BY <1>1, <1>b, <1>d DEF LockForInsert, GoTo, table, InProgress
<1>2. CASE CheckCapacity(t)
  BY <1>2, <1>b, <1>d DEF CheckCapacity, GoTo, table, InProgress
<1>3. CASE LockForFlush(t)
  BY <1>3, <1>b, <1>d DEF LockForFlush, GoTo, table, InProgress
<1>4. CASE FlushColumn(t)
  <2>1. \A u \in Threads, c \in Columns : InProgress(u, c)' <=> InProgress(u, c)
    BY <1>4 DEF FlushColumn, InProgress
  <2>2. ASSUME NEW c \in Columns
        PROVE  Written(c)' \o buffer'[c] = Written(c) \o buffer[c]
    <3>1. CASE c = col[t]
      <4>1. Written(c)' = Written(c) \o buffer[c] /\ buffer'[c] = << >>
        BY <1>4, <3>1, WrittenByFlush DEF FlushColumn, WriteColumn
      <4>2. Written(c) \in Seq(Threads) /\ buffer[c] \in Seq(Threads)
        BY WrittenTyped
      <4> QED
        BY <4>1, <4>2, MoveRows
    <3>2. CASE c # col[t]
      BY <1>4, <3>2, WrittenByFlush DEF FlushColumn, WriteColumn
    <3> QED
      BY <3>1, <3>2
  <2>3. accepted' = accepted
    BY <1>4 DEF FlushColumn
  <2> QED
    BY <2>1, <2>2, <2>3 DEF ColumnsComplete
<1>c. ASSUME Return(t), UNCHANGED <<buffer, accepted>>,
             \A c \in Columns : Written(c)' = Written(c) /\ ~ InProgress(t, c)
      PROVE  ColumnsComplete'
  BY <1>b, <1>c DEF Return, GoTo, InProgress
<1>5. ASSUME NEW how \in WriteFailures, FlushColumnFails(t, how)
      PROVE  ColumnsComplete'
  <2>1. UNCHANGED <<buffer, accepted>> /\ \A c \in Columns : Written(c)' = Written(c)
    BY <1>5, WrittenByFailure DEF FlushColumnFails, FailColumn
  <2>2. pc[t] = "flush"
    BY <1>5 DEF FlushColumnFails
  <2>3. CASE Throws(t, how) /\ Throw(t, "flush")
    BY <2>1, <2>2, <2>3, <1>c, ThrowEndsCall DEF Leave, InProgress
  <2>4. CASE /\ col' = [col EXCEPT ![t] = @ + 1]
             /\ UNCHANGED pc
    BY <1>b, <2>1, <2>2, <2>4 DEF InProgress
  <2> QED
    BY <1>5, <2>3, <2>4, Zenon DEF FlushColumnFails
<1>6. CASE EndFlush(t)
  <2>0. UNCHANGED <<stored, buffer, accepted>> /\ pc[t] = "flush" /\ ~ col[t] \in Columns
    BY <1>6, Zenon DEF EndFlush
  <2>1. UNCHANGED <<stored, buffer, accepted>> /\ pc[t] = "flush" /\ ~ col[t] <= NCols
    BY <2>0
  <2>2. CASE GoTo(t, "insert") /\ col' = [col EXCEPT ![t] = 1]
    BY <1>b, <1>d, <2>1, <2>2 DEF GoTo, InProgress
  <2>3. CASE GoTo(t, "close") /\ UNCHANGED col
    BY <1>b, <1>d, <2>1, <2>3 DEF GoTo, InProgress
  <2>4. CASE Leave(t)
    BY <2>1, <2>4, <1>c, <1>d DEF Leave, InProgress
  <2> QED
    BY <1>6, <2>2, <2>3, <2>4, Zenon DEF EndFlush
<1>7. CASE InsertColumn(t)
  <2> DEFINE k == col[t]
  <2>1. /\ pc[t] = "insert" /\ k \in 1..NCols /\ pc' = pc /\ stored' = stored
        /\ buffer' = [buffer EXCEPT ![k] = Append(@, t)]
        /\ accepted' = IF k = NCols THEN Append(accepted, t) ELSE accepted
        /\ col' = [col EXCEPT ![t] = k + 1]
    BY <1>7 DEF InsertColumn
  <2>2. mutex.owner = t /\ \A u \in Threads \ {t} : pc[u] # "insert"
    BY <2>1, <1>a DEF Locking
  <2>3. \A u \in Threads, c \in Columns :
          /\ InProgress(u, c) <=> u = t /\ c < k
          /\ InProgress(u, c)' <=> u = t /\ c < k + 1 /\ k # NCols
    BY <2>1, <2>2 DEF InProgress
  <2> HIDE DEF k
  <2>a. \A c \in Columns : Written(c)' = Written(c)
    BY <1>d, <2>1
  <2>4. ASSUME NEW c \in Columns
        PROVE  Written(c)' \o buffer'[c] =
                 IF c < k + 1 THEN Append(accepted, t) ELSE accepted
    <3>1. Written(c) \o buffer[c] = IF c < k THEN Append(accepted, t) ELSE accepted
      BY <2>1, <2>3 DEF ColumnsComplete
    <3>2. CASE c = k
      <4>1. Written(c)' \o buffer'[c] = Written(c) \o Append(buffer[c], t)
        BY <2>1, <2>a, <3>2
      <4>2. Written(c) \in Seq(Threads) /\ buffer[c] \in Seq(Threads)
        BY WrittenTyped
      <4>3. Written(c) \o Append(buffer[c], t) = Append(Written(c) \o buffer[c], t)
        <5> DEFINE w == Written(c)
                   b == buffer[c]
        <5>1. w \in Seq(Threads) /\ b \in Seq(Threads)
          BY <4>2
        <5> HIDE DEF w, b
        <5>2. w \o Append(b, t) = Append(w \o b, t)
          BY <5>1, ConcatAppend
        <5> QED
          BY <5>2 DEF w, b
      <4>4. Written(c) \o buffer[c] = accepted
        BY <3>1, <3>2, <2>1
      <4>5. c < k + 1
        BY <3>2, <2>1
      <4> QED
        BY <4>1, <4>3, <4>4, <4>5
    <3>3. CASE c # k
      <4>1. Written(c)' \o buffer'[c] = Written(c) \o buffer[c]
        BY <2>1, <2>a, <3>3
      <4>2. c < k + 1 <=> c < k
        BY <2>1, <3>3
      <4> QED
        BY <3>1, <4>1, <4>2
    <3> QED
      BY <3>2, <3>3
  <2>5. CASE k = NCols
    <3>1. accepted' = Append(accepted, t) /\ \A c \in Columns : c < k + 1
      BY <2>1, <2>5
    <3>2. \A u \in Threads, c \in Columns : ~ InProgress(u, c)'
      BY <2>3, <2>5
    <3>3. \A c \in Columns : Written(c)' \o buffer'[c] = accepted'
      BY <2>4, <3>1
    <3> QED
      BY <3>2, <3>3, Zenon DEF ColumnsComplete
  <2>6. CASE k # NCols
    <3>1. accepted' = accepted
      BY <2>1, <2>6
    <3>2. ASSUME NEW c \in Columns, NEW u \in Threads, InProgress(u, c)'
          PROVE  Written(c)' \o buffer'[c] = Append(accepted', u)
      BY <2>3, <2>4, <3>1, <3>2
    <3>3. ASSUME NEW c \in Columns, \A u \in Threads : ~ InProgress(u, c)'
          PROVE  Written(c)' \o buffer'[c] = accepted'
      BY <2>3, <2>4, <2>6, <3>1, <3>3
    <3> QED
      BY <3>2, <3>3, Zenon DEF ColumnsComplete
  <2> QED
    BY <2>5, <2>6
<1>8. CASE EndInsert(t)
  <2>1. UNCHANGED <<stored, buffer, accepted>> /\ Return(t) /\ ~ col[t] <= NCols
    BY <1>8 DEF EndInsert, Leave, table
  <2> QED
    BY <1>c, <1>d, <2>1 DEF InProgress
<1>9. CASE CloseMembers(t)
  BY <1>9, <1>c, <1>d DEF CloseMembers, InProgress, table
<1>10. CASE CloseMembersFails(t)
  <2>1. ~ Crash("close")
    BY DEF Crash, Kept
  <2> QED
    BY <1>10, <2>1, <1>c, <1>d DEF CloseMembersFails, InProgress
<1>11. CASE InsertColumnFails(t)
  <2>1. col[t] = 1
    BY <1>11 DEF InsertColumnFails, Untorn
  <2> QED
    BY <1>11, <2>1, <1>c, <1>d DEF InsertColumnFails, Leave, InProgress
<1>12. CASE FlushColumnStarved(t)
  <2>1. ~ Crash("memory")
    BY DEF Crash, Kept
  <2> QED
    BY <1>12, <2>1, <1>c, <1>d, StarvedEnds DEF Leave, InProgress
<1> QED
  BY <1>1, <1>2, <1>3, <1>4, <1>5, <1>6, <1>7, <1>8, <1>9, <1>10, <1>11, <1>12 DEF Proceed

(* A flush brings a column of the file up to the accepted rows, and an     *)
(* accepted row goes behind those that are in the file.                    *)
LEMMA WrittenStep ==
  ASSUME TypeOK, Locking, Destruction, Kept => ColumnsComplete, WrittenPrefix, Untorn',
         NEW t \in Threads, Proceed(t)
  PROVE  WrittenPrefix'
<1>1. ASSUME \A c \in Columns : Written(c)' = Written(c), UNCHANGED accepted
      PROVE  WrittenPrefix'
  BY <1>1 DEF WrittenPrefix
<1>2. CASE FlushColumn(t)
  <2>1. \A u \in Threads : pc[u] # "insert"
    BY <1>2 DEF FlushColumn, Locking
  <2>2. Kept
    BY <1>2 DEF FlushColumn, Destruction, Resting
  <2>3. Written(col[t]) \o buffer[col[t]] = accepted /\ col[t] \in Columns
    BY <1>2, <2>1, <2>2 DEF FlushColumn, ColumnsComplete, InProgress
  <2>4. accepted' = accepted
    BY <1>2 DEF FlushColumn
  <2>5. ASSUME NEW c \in Columns
        PROVE  Written(c)' = accepted \/ Written(c)' = Written(c)
    BY <1>2, <2>3, WrittenByFlush
  <2>6. Len(accepted) \in Nat
    BY DEF TypeOK, Rows
  <2>7. ASSUME NEW c \in Columns
        PROVE  /\ Len(Written(c)') <= Len(accepted)
               /\ \A i \in 1..Len(Written(c)') : Written(c)'[i] = accepted[i]
    <3>1. CASE Written(c)' = accepted
      BY <2>6, <3>1
    <3>2. CASE Written(c)' = Written(c)
      BY <3>2 DEF WrittenPrefix
    <3> QED
      BY <2>5, <3>1, <3>2
  <2> QED
    BY <2>4, <2>7 DEF WrittenPrefix
<1>3. CASE InsertColumn(t)
  <2>1. /\ \A c \in Columns : Written(c)' = Written(c)
        /\ accepted' = accepted \/ accepted' = Append(accepted, t)
    BY <1>3 DEF InsertColumn, Written
  <2>2. CASE accepted' = Append(accepted, t)
    <3>1. /\ Len(accepted') = Len(accepted) + 1
          /\ \A i \in 1..Len(accepted) : accepted'[i] = accepted[i]
          /\ Len(accepted) \in Nat
      BY <2>2, AppendKeeps DEF TypeOK, Rows
    <3>2. ASSUME NEW c \in Columns
          PROVE  /\ Len(Written(c)) <= Len(accepted')
                 /\ \A i \in 1..Len(Written(c)) : Written(c)[i] = accepted'[i]
      <4>1. Written(c) \in Seq(Threads)
        BY WrittenTyped
      <4>2. Len(Written(c)) \in Nat /\ Len(Written(c)) <= Len(accepted)
        BY <4>1 DEF WrittenPrefix
      <4>3. \A i \in 1..Len(Written(c)) : i \in 1..Len(accepted) /\ Written(c)[i] = accepted[i]
        BY <3>1, <4>2 DEF WrittenPrefix
      <4> QED
        BY <3>1, <4>2, <4>3
    <3> QED
      BY <2>1, <3>2 DEF WrittenPrefix
  <2> QED
    BY <1>1, <2>1, <2>2
<1>4. ASSUME NEW how \in WriteFailures, FlushColumnFails(t, how)
      PROVE  WrittenPrefix'
  BY <1>1, <1>4, WrittenByFailure DEF FlushColumnFails
<1>5. ASSUME \/ LockForInsert(t) \/ CheckCapacity(t) \/ LockForFlush(t) \/ EndFlush(t)
             \/ EndInsert(t) \/ CloseMembers(t) \/ CloseMembersFails(t) \/ InsertColumnFails(t)
             \/ FlushColumnStarved(t)
      PROVE  WrittenPrefix'
  <2>1. UNCHANGED <<stored, accepted>>
    BY <1>5, StarvedEnds DEF LockForInsert, CheckCapacity, LockForFlush, EndFlush, EndInsert,
                CloseMembers, CloseMembersFails, InsertColumnFails, table
  <2> QED
    BY <1>1, <2>1 DEF Written
<1> QED
  BY <1>2, <1>3, <1>4, <1>5 DEF Proceed

(* When everything has ended, what is said of ~Ntuple() holds. *)
LEMMA CrashDestroys ==
  ASSUME TypeOK, NEW cause \in Losses, Crash(cause), Threads # {}
  PROVE  Destruction'
<1>1. ~ alive' /\ "crash" \in lost' /\ \A t \in Threads : pc'[t] = "gone"
  BY DEF Crash
<1>2. ~ Destroyed' \/ lost' # {}
  BY <1>1
<1> QED
  BY <1>1, <1>2 DEF Destruction, Resting, Destroyed

(* ~Ntuple() has emptied the buffers it has come past, unless it failed. *)
LEMMA DestructionStep ==
  ASSUME TypeOK, Locking, Destruction,
         NEW t \in Threads, Proceed(t)
  PROVE  Destruction'
<1> USE DEF TypeOK, PCs, Ops, Columns, Rows
<1> USE ColumnsAssumption
<1>1. ~ Resting(t) /\ Kept
  BY StarvedEnds DEF Proceed, LockForInsert, CheckCapacity, LockForFlush, FlushColumn,
         FlushColumnFails, EndFlush, CloseMembers, CloseMembersFails, InsertColumn,
         InsertColumnFails, EndInsert, Resting, Destruction
<1> DEFINE Ends == \E cause \in Losses : Crash(cause)
<1>2. CASE Ends
  BY <1>2, CrashDestroys
<1>5. ~ Ends => ~ Crash("memory") /\ ~ Crash("close")
  BY CauseIsLoss
<1> HIDE DEF Ends
<1>3. CASE alive /\ ~ Ends
  <2>1. op[t] # "destroy" /\ pc[t] # "close"
    BY <1>3 DEF Destruction, Locking
  <2>2. /\ alive' /\ Kept'
        /\ \A u \in Threads : op'[u] # "destroy" /\ pc'[u] # "gone"
    <3>1. CASE Return(t) /\ alive' = alive /\ lost' \in {lost, lost \cup {"torn"}}
      BY <1>1, <1>3, <3>1 DEF Return, GoTo, Destruction, Kept
    <3>2. CASE /\ op' = op /\ alive' = alive /\ lost' = lost
               /\ \E place \in PCs \ {"gone"} : GoTo(t, place) \/ pc' = pc
      BY <1>1, <1>3, <3>2 DEF GoTo, Destruction, Kept
    <3>3. ASSUME NEW how \in WriteFailures, FlushColumnFails(t, how)
          PROVE  \/ Return(t) /\ alive' = alive /\ lost' \in {lost, lost \cup {"torn"}}
                 \/ op' = op /\ alive' = alive /\ lost' = lost /\ pc' = pc
      <4>1. CASE Throws(t, how) /\ Throw(t, "flush")
        BY <4>1, ThrowEndsCall DEF Leave
      <4>2. CASE UNCHANGED <<mutex, pc, op, alive, lost>>
        BY <4>2
      <4> QED
        BY <3>3, <4>1, <4>2, Zenon DEF FlushColumnFails
    <3>8. "idle" \in PCs \ {"gone"}
      OBVIOUS
    <3>4. CASE EndFlush(t)
      <4>1. lost' = lost /\ alive' = alive
        BY <2>1, <3>4 DEF EndFlush
      <4>2. \/ GoTo(t, "insert") /\ op' = op
            \/ Return(t)
        BY <2>1, <3>4 DEF EndFlush, Leave
      <4> QED
        BY <3>1, <3>2, <4>1, <4>2
    <3>5. CASE \/ LockForInsert(t) \/ CheckCapacity(t) \/ LockForFlush(t)
               \/ FlushColumn(t) \/ InsertColumn(t)
      <4>1. op' = op /\ alive' = alive /\ lost' = lost
        BY <3>5 DEF LockForInsert, CheckCapacity, LockForFlush, FlushColumn, InsertColumn,
                    table
      <4>2. \E place \in PCs \ {"gone"} : GoTo(t, place) \/ pc' = pc
        BY <3>5 DEF LockForInsert, CheckCapacity, LockForFlush, FlushColumn, InsertColumn
      <4> QED
        BY <3>2, <4>1, <4>2
    <3>6. CASE InsertColumnFails(t) \/ EndInsert(t)
      BY <3>1, <3>6 DEF InsertColumnFails, EndInsert, Leave, table
    <3>7. ~ CloseMembers(t) /\ ~ CloseMembersFails(t)
      BY <2>1 DEF CloseMembers, CloseMembersFails
    <3>9. ASSUME \E how \in WriteFailures : FlushColumnFails(t, how)
          PROVE  \/ Return(t) /\ alive' = alive /\ lost' \in {lost, lost \cup {"torn"}}
                 \/ op' = op /\ alive' = alive /\ lost' = lost /\ pc' = pc
      BY <3>3, <3>9, Zenon
    <3>10. CASE FlushColumnStarved(t)
      BY <1>3, <1>5, <3>1, <3>10, StarvedEnds DEF Leave
    <3> HIDE DEF TypeOK, PCs, Ops, Columns, Rows
    <3> QED
      BY <3>1, <3>2, <3>4, <3>5, <3>6, <3>7, <3>8, <3>9, <3>10 DEF Proceed
  <2> QED
    BY <2>2 DEF Destruction, Destroyed
<1>4. CASE ~ alive /\ ~ Ends
  <2>1. /\ op[t] = "destroy" /\ pc[t] \in {"flushlock", "flush", "close"}
        /\ \A u \in Threads \ {t} : Resting(u)
    BY <1>1, <1>4 DEF Destruction
  <2>2. CASE LockForFlush(t)
    BY <1>1, <1>4, <2>1, <2>2
       DEF LockForFlush, GoTo, table, Destruction, Destroyed, Resting, Kept
  <2>3. CASE FlushColumn(t)
    <3>1. /\ pc[t] = "flush" /\ UNCHANGED <<pc, op, rc, alive, lost>>
          /\ col' = [col EXCEPT ![t] = @ + 1]
          /\ buffer' = [buffer EXCEPT ![col[t]] = << >>]
      BY <2>3 DEF FlushColumn, WriteColumn
    <3>2. ASSUME NEW c \in Columns, ~ rc[t], c < col'[t]
          PROVE  buffer'[c] = << >>
      <4>1. c < col[t] \/ c = col[t]
        BY <3>1, <3>2
      <4>2. c < col[t] => buffer[c] = << >>
        BY <1>4, <3>1, <3>2 DEF Destruction
      <4> QED
        BY <3>1, <4>1, <4>2
    <3>3. \A u \in Threads \ {t} : pc'[u] # "flush" /\ pc'[u] # "close"
      BY <2>1, <3>1 DEF Resting
    <3> QED
      BY <1>1, <1>4, <2>1, <3>1, <3>2, <3>3 DEF Destruction, Destroyed, Resting, Kept
  <2>4. ASSUME NEW how \in WriteFailures, FlushColumnFails(t, how)
        PROVE  Destruction'
    <3>1. ~ Throws(t, how)
      BY <2>1 DEF Throws
    <3>2. /\ pc[t] = "flush" /\ pc' = pc /\ alive' = alive /\ op' = op /\ rc'[t]
          /\ \A u \in Threads \ {t} : rc'[u] = rc[u]
          /\ lost' = lost
      BY <2>4, <3>1, Zenon DEF FlushColumnFails
    <3> QED
      BY <1>1, <1>4, <2>1, <3>2 DEF Destruction, Destroyed, Resting, Kept
  <2>5. CASE EndFlush(t)
    <3>1. /\ GoTo(t, "close") /\ pc[t] = "flush" /\ col[t] \notin Columns
          /\ UNCHANGED <<op, alive, buffer>>
          /\ lost' = IF rc[t] THEN lost \cup {"flush"} ELSE lost
      BY <2>1, <2>5 DEF EndFlush, GoesOnToInsert, Leave
    <3>2. pc' = [pc EXCEPT ![t] = "close"] /\ Kept'
      BY <1>1, <3>1 DEF GoTo, Kept
    <3>3. "flush" \notin lost' => \A c \in Columns : buffer'[c] = << >>
      BY <1>4, <3>1 DEF Destruction
    <3>4. /\ pc'[t] = "close" /\ ~ alive' /\ op'[t] = "destroy" /\ ~ Destroyed'
          /\ \A u \in Threads \ {t} : Resting(u)'
      BY <1>4, <2>1, <3>1, <3>2 DEF Destroyed, Resting
    <3> QED
      BY <3>2, <3>3, <3>4 DEF Destruction, Resting
  <2>6. CASE CloseMembers(t) \/ CloseMembersFails(t)
    <3>1. /\ pc[t] = "close" /\ Return(t) /\ UNCHANGED <<alive, buffer>>
          /\ lost' \in {lost, lost \cup {"close"}}
      BY <1>4, <1>5, <2>6, Zenon DEF CloseMembers, CloseMembersFails, table
    <3>2. /\ \A u \in Threads : pc'[u] \in {"idle", "gone"}
          /\ Kept'
      BY <1>1, <2>1, <3>1 DEF Return, GoTo, Resting, Kept
    <3>3. lost' = {} => \A c \in Columns : buffer'[c] = << >>
      BY <1>4, <3>1 DEF Destruction
    <3> QED
      BY <1>4, <3>1, <3>2, <3>3 DEF Destruction, Resting
  <2>7. ~ FlushColumnStarved(t)
    BY <1>4, <1>5, <2>1, StarvedEnds
  <2> QED
    BY <2>1, <2>2, <2>3, <2>4, <2>5, <2>6, <2>7, Zenon
       DEF Proceed, LockForInsert, CheckCapacity, InsertColumn, InsertColumnFails, EndInsert
<1> QED
  BY <1>2, <1>3, <1>4

(* A call that begins changes neither the table nor who holds the mutex. *)
LEMMA CallStep ==
  ASSUME IInv, NEW t \in Threads, CallInsert(t) \/ CallFlush(t) \/ CallDestroy(t)
  PROVE  IInv'
<1> USE DEF IInv, TypeOK, PCs, Ops, Columns, Rows
<1>1. PICK name \in {"insert", "flush", "destroy"}, place \in {"lock", "flushlock"} :
        /\ Call(t, name, place)
        /\ name = "insert" <=> place = "lock"
        /\ alive' = (name # "destroy")
        /\ name = "destroy" => \A u \in Threads : pc[u] = "idle"
  BY DEF CallInsert, CallFlush, CallDestroy, Call
<1>2. /\ alive /\ pc[t] = "idle" /\ UNCHANGED <<table, mutex, col, rc>>
      /\ op' = [op EXCEPT ![t] = name] /\ pc' = [pc EXCEPT ![t] = place]
  BY <1>1 DEF Call, GoTo
<1>3. UNCHANGED <<stored, buffer, shells, accepted, failures, lost>>
  BY <1>2 DEF table
<1>4. TypeOK'
  BY <1>1, <1>2, <1>3
<1>5. Locking'
  BY <1>1, <1>2 DEF Locking
<1>6. ColumnsComplete => ColumnsComplete'
  BY <1>2, <1>3 DEF ColumnsComplete, InProgress, Written
<1>7. Destruction'
  <2>1. Kept'
    BY <1>2, <1>3 DEF Destruction, Kept
  <2>2. ~ Destroyed' /\ \A u \in Threads : pc'[u] # "gone" /\ pc'[u] # "close"
    BY <1>1, <1>2 DEF Destruction, Destroyed, Locking
  <2>3. CASE name # "destroy"
    BY <1>1, <1>2, <2>1, <2>2, <2>3 DEF Destruction
  <2>4. CASE name = "destroy"
    <3>1. /\ ~ alive' /\ op'[t] = "destroy" /\ pc'[t] = "flushlock"
          /\ \A u \in Threads \ {t} : pc'[u] = "idle"
      BY <1>1, <1>2, <2>4
    <3> QED
      BY <2>1, <2>2, <3>1 DEF Destruction, Resting
  <2> QED
    BY <2>3, <2>4
<1>8. (Untorn' => Untorn) /\ (Kept' => Kept) /\ (WrittenPrefix => WrittenPrefix')
  BY <1>3 DEF WrittenPrefix, Written, Untorn, Kept
<1> QED
  BY <1>4, <1>5, <1>6, <1>7, <1>8

(* The end of everything keeps the invariant, by what it no longer says. *)
LEMMA CrashStep ==
  ASSUME IInv, Threads # {}, NEW cause \in Losses, Crash(cause), failures' \in Nat, shells' \in Nat,
         UNCHANGED <<stored, buffer, accepted>>
  PROVE  IInv'
<1>1. TypeOK' /\ Locking' /\ Destruction'
  BY CrashTyped, CrashUnlocked, CrashDestroys DEF IInv, TypeOK, CallState
<1>2. ~ Kept' /\ (Untorn' => Untorn)
  BY DEF Crash, Kept, Untorn
<1> QED
  BY <1>1, <1>2 DEF IInv, WrittenPrefix, Written

(* What a move leaves behind, and its destructor. *)
LEMMA MoveStep ==
  ASSUME IInv, Move \/ AssignOver \/ \E t \in Threads : DestroyShell(t)
  PROVE  IInv'
<1> USE DEF IInv
<1>1. shells' \in Nat
  BY DEF TypeOK, Move, AssignOver, DestroyShell
<1>2. ASSUME UNCHANGED <<stored, buffer, mutex, pc, op, col, rc, alive, accepted, failures, lost>>
      PROVE  IInv'
  BY <1>1, <1>2 DEF TypeOK, Locking, ColumnsComplete, InProgress, Destruction, Destroyed,
                    Resting, WrittenPrefix, Written, Untorn, Kept
<1>3. CASE Move
  BY <1>2, <1>3 DEF Move
<1>4. CASE AssignOver
  <2>1. /\ alive /\ alive' = FALSE /\ \A u \in Threads : pc'[u] = "idle"
        /\ UNCHANGED <<stored, mutex, pc, op, col, rc, accepted, failures>>
        /\ buffer' = [c \in Columns |-> << >>]
        /\ lost' = IF \E c \in Columns : buffer[c] # << >> THEN lost \cup {"assign"} ELSE lost
    BY <1>4 DEF AssignOver
  <2>2. << >> \in Rows
    BY DEF Rows
  <2>3. TypeOK'
    <3>1. lost' \subseteq Losses
      BY <2>1 DEF TypeOK, Losses
    <3>2. buffer' \in [Columns -> Rows]
      BY <2>1, <2>2
    <3> QED
      BY <1>1, <2>1, <3>1, <3>2 DEF TypeOK
  <2>4. Locking' /\ (Untorn' => Untorn) /\ (WrittenPrefix => WrittenPrefix')
    BY <2>1 DEF Locking, Untorn, WrittenPrefix, Written
  <2>5. Destruction'
    BY <2>1 DEF Destruction, Resting, Kept
  <2>6. ASSUME Kept' PROVE Kept /\ buffer' = buffer
    BY <2>1, <2>6 DEF Kept, TypeOK
  <2>7. Untorn' /\ Kept' => ColumnsComplete'
    BY <2>1, <2>4, <2>6 DEF ColumnsComplete, InProgress, Written
  <2> QED
    BY <2>3, <2>4, <2>5, <2>7
<1>5. ASSUME NEW t \in Threads, DestroyShell(t) PROVE IInv'
  <2>1. CASE Crash("shell")
    BY <1>1, <1>5, <2>1, CrashStep, CauseIsLoss DEF DestroyShell, TypeOK
  <2> QED
    BY <1>2, <1>5, <2>1, Zenon DEF DestroyShell
<1> QED
  BY <1>3, <1>4, <1>5

(* The inductive invariant holds, whatever fails and however often. *)
THEOREM Invariance == Spec => []IInv
<1>1. Init => IInv
  <2> SUFFICES ASSUME Init PROVE IInv
    OBVIOUS
  <2> USE DEF Init
  <2>1. TypeOK
    <3>1. << >> \in Seq(Threads) /\ << >> \in Seq(Threads \cup {Fill})
      OBVIOUS
    <3>2. stored \in [Columns -> Seq(Threads \cup {Fill})] /\ buffer \in [Columns -> Rows]
          /\ accepted \in Rows
      BY <3>1 DEF Rows
    <3>3. mutex \in [owner : Threads \cup {NoThread}, depth : 0..2]
          /\ (mutex.owner = NoThread <=> mutex.depth = 0)
      BY DEF Unlocked
    <3>4. col \in [Threads -> 1..(NCols + 1)]
      BY ColumnsAssumption
    <3> QED
      BY <3>2, <3>3, <3>4 DEF TypeOK, PCs, Ops
  <2>2. Locking
    BY ThreadsAssumption DEF Locking, Unlocked
  <2>a. \A c \in Columns : Written(c) = << >> /\ Written(c) \o buffer[c] = << >>
    <3>1. RowsOf(<< >>) = << >>
      <4>1. << >> \in Seq({Fill})
        OBVIOUS
      <4> QED
        BY <4>1, RowsOfHoles
    <3> QED
      BY <3>1 DEF Written
  <2>3. ColumnsComplete
    BY <2>a DEF ColumnsComplete, InProgress
  <2>4. Destruction /\ WrittenPrefix
    BY <2>a DEF Destruction, Destroyed, WrittenPrefix, Resting, Kept
  <2> QED
    BY <2>1, <2>2, <2>3, <2>4 DEF IInv
<1>2. IInv /\ [Next]_vars => IInv'
  <2> SUFFICES ASSUME IInv, [Next]_vars PROVE IInv'
    OBVIOUS
  <2>1. ASSUME NEW t \in Threads, Proceed(t) PROVE IInv'
    <3>1. TypeOK' /\ Locking' /\ Destruction'
      BY <2>1, TypeStep, LockingStep, DestructionStep DEF IInv
    <3>2. ASSUME Untorn' PROVE WrittenPrefix'
      BY <2>1, <3>2, TornStays, WrittenStep DEF IInv
    <3>3. ASSUME Untorn', Kept' PROVE ColumnsComplete'
      <4>1. ~ Resting(t)
        BY <2>1 DEF Proceed, LockForInsert, CheckCapacity, LockForFlush, FlushColumn,
           FlushColumnFails, FlushColumnStarved, EndFlush, CloseMembers, CloseMembersFails, InsertColumn,
           InsertColumnFails, EndInsert, Resting
      <4>2. Untorn /\ Kept
        BY <2>1, <3>3, <4>1, TornStays DEF IInv, Destruction
      <4> QED
        BY <2>1, <3>3, <4>2, ColumnsStep DEF IInv
    <3> QED
      BY <3>1, <3>2, <3>3 DEF IInv
  <2>2. CASE UNCHANGED vars
    BY <2>2 DEF vars, IInv, TypeOK, Locking, ColumnsComplete, InProgress,
                Destruction, Destroyed, Resting, WrittenPrefix, Written, Untorn, Kept
  <2> QED
    BY <2>1, <2>2, CallStep, MoveStep DEF Next
<1> QED
  BY <1>1, <1>2, PTL DEF Spec

(* All variables have their types. *)
THEOREM TypeCorrect == Spec => []TypeOK
<1>1. IInv => TypeOK
  BY DEF IInv
<1> QED
  BY <1>1, Invariance, PTL

(* Whatever flushes failed and left holes behind: apart from these every   *)
(* column has, in the file and in memory together, all accepted rows in    *)
(* their order, as long as no exception has torn a row apart.              *)
THEOREM RowsOnlyShift == Spec => []HolesOnlyShift
<1>1. IInv => HolesOnlyShift
  BY ThreadsAssumption DEF IInv, Locking, ColumnsComplete, InProgress, HolesOnlyShift, Untorn
<1> QED
  BY <1>1, Invariance, PTL

(* Rows that were inserted together have the same number in every column,  *)
(* whatever insertions and flushes failed, as long as no failure has left  *)
(* a hole or torn a row apart.                                             *)
THEOREM ColumnsAligned == Spec => []Aligned
<1>1. IInv => Aligned
  BY WrittenOfWhole, ThreadsAssumption
  DEF IInv, Locking, ColumnsComplete, InProgress, Aligned, Whole, Untorn
<1> QED
  BY <1>1, Invariance, PTL

(* The file agrees with the accepted rows at every moment. *)
THEOREM FileAlwaysConsistent == Spec => []FileConsistent
<1>1. IInv => FileConsistent
  BY WrittenOfWhole DEF IInv, FileConsistent, FilePrefix, WrittenPrefix, Whole, Untorn
<1> QED
  BY <1>1, Invariance, PTL

(* An Ntuple whose last flush succeeds has every accepted row in the file. *)
THEOREM DestructorCompletes == Spec => []NothingLeftBehind
<1>1. IInv => NothingLeftBehind
  <2> SUFFICES ASSUME IInv, NoHoles, Destroyed, lost = {}, NEW c \in Columns
               PROVE  stored[c] = accepted
    BY DEF NothingLeftBehind
  <2>1. Written(c) \o buffer[c] = accepted /\ buffer[c] = << >> /\ Written(c) = stored[c]
    BY WrittenOfWhole DEF IInv, Destroyed, ColumnsComplete, InProgress, Destruction, Untorn, Kept
  <2>2. stored[c] \in Seq(Threads \cup {Fill})
    BY DEF IInv, TypeOK
  <2> QED
    BY <2>1, <2>2
<1> QED
  BY <1>1, Invariance, PTL

(* A call of HDF5 that fails in the flush of ~Ntuple() never ends the     *)
(* process, whatever the error mode of the thread: the handler of its body *)
(* sees to that.  Only a shell, a failing close of the members and memory  *)
(* that a column of strings is short of do.                                *)
THEOREM FlushFailureSurvived == Spec => FlushSurvived
<1> DEFINE Explained ==
      \/ shells > 0
      \/ \E t \in ExceptionThreads : pc[t] = "close"
      \/ /\ "memory" \in lost'
         /\ \E t \in Threads : pc[t] = "flush" /\ col[t] \in StringColumns
<1>1. [Next]_vars => ["crash" \in lost' \ lost => Explained]_vars
  <2> SUFFICES ASSUME Next, "crash" \in lost' \ lost
               PROVE  Explained
    BY DEF vars
  <2>1. ASSUME NEW t \in Threads, Proceed(t)
        PROVE  Explained
    <3>1. ~ \E how \in WriteFailures : FlushColumnFails(t, how)
      BY ThrowEndsCall DEF FlushColumnFails
    <3>2. CloseMembersFails(t) \/ FlushColumnStarved(t)
      BY <2>1, <3>1 DEF Proceed, LockForInsert, CheckCapacity, LockForFlush, FlushColumn,
         EndFlush, CloseMembers, InsertColumn, InsertColumnFails, EndInsert, table
    <3>3. CASE CloseMembersFails(t)
      BY <3>3 DEF CloseMembersFails
    <3>4. CASE FlushColumnStarved(t)
      BY <3>4, StarvedEnds DEF Crash
    <3> QED
      BY <3>2, <3>3, <3>4
  <2>2. ~ Move /\ ~ AssignOver
        /\ \A t \in Threads : ~ CallInsert(t) /\ ~ CallFlush(t) /\ ~ CallDestroy(t)
    BY DEF Move, AssignOver, CallInsert, CallFlush, CallDestroy, Call, table
  <2> QED
    BY <2>1, <2>2, ThreadsAssumption DEF Next, DestroyShell
<1> QED
  BY <1>1, PTL DEF Spec, FlushSurvived

-----------------------------------------------------------------------------
(* A thread that changes no buffer and does not come to insert or flush    *)
(* leaves the level as it is.                                              *)
LEMMA LevelKept ==
  ASSUME Level, UNCHANGED buffer, failures' = 0 => failures = 0, Kept' => Kept,
         \A u \in Threads : pc'[u] \in {"insert", "flush"} =>
           pc'[u] = pc[u] /\ col'[u] = col[u],
         \A u \in Threads : pc[u] \in {"insert", "flush"} =>
           pc'[u] = pc[u] /\ col'[u] = col[u]
  PROVE  Level'
<1>1. \A c \in Columns : /\ (ComeTo(c, "insert")' <=> ComeTo(c, "insert"))
                        /\ (ComeTo(c, "flush")' <=> ComeTo(c, "flush"))
  BY DEF ComeTo
<1>2. (\E t \in Threads : pc'[t] = "insert") => \E t \in Threads : pc[t] = "insert"
  OBVIOUS
<1>3. \A m \in 0..Capacity : LevelAt(m) => LevelAt(m)'
  BY <1>1, <1>2 DEF LevelAt
<1> QED
  BY <1>3 DEF Level

LEMMA LevelStep ==
  ASSUME TypeOK, Locking, Destruction, Level, NEW t \in Threads, Proceed(t)
  PROVE  Level'
<1> USE BufSizeAssumption, ColumnsAssumption, ThreadsAssumption
<1> SUFFICES ASSUME failures' = 0, Kept'
             PROVE  \E m \in 0..Capacity : LevelAt(m)'
  BY DEF Level
<1>1. failures \in Nat /\ \A c \in Columns : Len(buffer[c]) \in Nat
  BY DEF TypeOK, Rows
<1>2. /\ \A kind \in FailureKinds : ~ Fails(kind)
      /\ failures = 0
  BY <1>1 DEF Fails, Proceed, LockForInsert, CheckCapacity, LockForFlush, FlushColumn,
       FlushColumnFails, FlushColumnStarved, EndFlush, CloseMembers, CloseMembersFails, InsertColumn,
       InsertColumnFails, EndInsert, table
<1>3. Kept /\ ~ Resting(t)
  BY DEF Proceed, LockForInsert, CheckCapacity, LockForFlush, FlushColumn,
       FlushColumnFails, FlushColumnStarved, EndFlush, CloseMembers, CloseMembersFails, InsertColumn,
       InsertColumnFails, EndInsert, Resting, Destruction
<1>4. PICK m \in 0..Capacity : LevelAt(m)
  BY <1>2, <1>3 DEF Level
<1>5. Capacity \in Nat \ {0}
  BY DEF Capacity
<1>6. ASSUME pc[t] \in {"check", "flush", "insert"}
      PROVE  \A u \in Threads \ {t} : pc[u] \notin {"flush", "insert"}
  BY <1>6 DEF Locking
<1>7. ASSUME Level' PROVE \E n \in 0..Capacity : LevelAt(n)'
  BY <1>7 DEF Level
<1>8. CASE LockForInsert(t)
  <2>1. pc' = [pc EXCEPT ![t] = "check"] /\ pc[t] = "lock" /\ UNCHANGED <<table, col>>
    BY <1>8 DEF LockForInsert, GoTo
  <2> QED
    BY <1>7, <2>1, LevelKept, <1>2, <1>3 DEF TypeOK, table
<1>9. CASE CheckCapacity(t)
  <2>1. /\ pc' = [pc EXCEPT ![t] = IF BufferFull THEN "flushlock" ELSE "insert"]
        /\ col' = [col EXCEPT ![t] = 1] /\ pc[t] = "check" /\ UNCHANGED buffer
    BY <1>9 DEF CheckCapacity, GoTo, table
  <2>2. \A u \in Threads, c \in Columns : ~ (pc[u] \in {"flush", "insert"})
    BY <1>6, <2>1
  <2>3. \A c \in Columns : /\ ~ ComeTo(c, "insert") /\ ~ ComeTo(c, "flush")
                          /\ ~ ComeTo(c, "insert")' /\ ~ ComeTo(c, "flush")'
    <3>1. \A u \in Threads : pc'[u] \in {"flush", "insert"} => u = t /\ col'[u] = 1
      BY <1>6, <2>1 DEF TypeOK
    <3> QED
      BY <2>1, <1>6, <3>1 DEF ComeTo, Columns
  <2>4. \A c \in Columns : Len(buffer[c]) = m
    BY <1>4, <2>3 DEF LevelAt
  <2>5. (\E u \in Threads : pc'[u] = "insert") => m < Capacity
    <3>1. ~ BufferFull => m < Capacity
      BY <2>4 DEF BufferFull, Columns, Capacity
    <3>2. (\E u \in Threads : pc'[u] = "insert") => ~ BufferFull
      BY <2>1, <1>6 DEF TypeOK
    <3> QED
      BY <3>1, <3>2
  <2>6. LevelAt(m)'
    BY <2>1, <2>3, <2>4, <2>5 DEF LevelAt
  <2> QED
    BY <2>6
<1>10. CASE LockForFlush(t)
  <2>1. /\ pc' = [pc EXCEPT ![t] = "flush"] /\ col' = [col EXCEPT ![t] = 1]
        /\ pc[t] = "flushlock" /\ UNCHANGED buffer /\ mutex.owner \in {NoThread, t}
    BY <1>10 DEF LockForFlush, Lock, GoTo, table
  <2>2. \A u \in Threads : pc[u] \notin {"flush", "insert"}
    BY <2>1 DEF Locking
  <2>3. \A c \in Columns : /\ ~ ComeTo(c, "insert") /\ ~ ComeTo(c, "flush")
                          /\ ~ ComeTo(c, "insert")' /\ ~ ComeTo(c, "flush")'
    <3>1. \A u \in Threads : pc'[u] \in {"flush", "insert"} => u = t /\ col'[u] = 1
      BY <2>1, <2>2 DEF TypeOK
    <3> QED
      BY <2>2, <3>1 DEF ComeTo, Columns
  <2>4. ~ \E u \in Threads : pc'[u] = "insert"
    BY <2>1, <2>2 DEF TypeOK
  <2>5. LevelAt(m)'
    BY <1>4, <2>1, <2>3, <2>4 DEF LevelAt
  <2> QED
    BY <2>5
<1>11. CASE FlushColumn(t)
  <2> DEFINE k == col[t]
  <2>1. /\ pc[t] = "flush" /\ k \in Columns /\ pc' = pc
        /\ buffer' = [buffer EXCEPT ![k] = << >>] /\ col' = [col EXCEPT ![t] = k + 1]
    BY <1>11 DEF FlushColumn, WriteColumn
  <2>2. \A u \in Threads : pc[u] \in {"flush", "insert"} => u = t
    BY <1>6, <2>1
  <2>3. k \in Nat /\ col'[t] = k + 1
    BY <2>1 DEF TypeOK, Columns
  <2> HIDE DEF k
  <2>4. \A c \in Columns : /\ ~ ComeTo(c, "insert") /\ ~ ComeTo(c, "insert")'
                          /\ (ComeTo(c, "flush") <=> c < k)
                          /\ (ComeTo(c, "flush")' <=> c < k + 1)
    <3>1. \A c \in Columns : ComeTo(c, "flush") <=> c < k
      BY <2>1, <2>2 DEF ComeTo, k
    <3> QED
      BY <2>1, <2>2, <2>3, <3>1 DEF ComeTo
  <2>5. \A c \in Columns : Len(buffer'[c]) = IF c < k + 1 THEN 0 ELSE m
    <3>1. \A c \in Columns : Len(buffer[c]) = IF c < k THEN 0 ELSE m
      BY <1>4, <2>4 DEF LevelAt
    <3>2. ASSUME NEW c \in Columns
          PROVE  Len(buffer'[c]) = IF c < k + 1 THEN 0 ELSE m
      <4>1. CASE c = k
        BY <2>1, <2>3, <4>1 DEF TypeOK
      <4>2. CASE c # k
        BY <2>1, <2>3, <3>1, <4>2 DEF TypeOK, Columns
      <4> QED
        BY <4>1, <4>2
    <3> QED
      BY <3>2
  <2>6. ~ \E u \in Threads : pc'[u] = "insert"
    BY <2>1, <2>2
  <2>7. LevelAt(m)'
    BY <2>4, <2>5, <2>6 DEF LevelAt
  <2> QED
    BY <2>7
<1>12. CASE EndFlush(t)
  <2>1. /\ pc[t] = "flush" /\ col[t] = NCols + 1 /\ UNCHANGED buffer
        /\ \A u \in Threads \ {t} : pc'[u] = pc[u]
        /\ pc'[t] # "flush" /\ (pc'[t] = "insert" => col'[t] = 1)
    <3>1. pc[t] = "flush" /\ col[t] \notin Columns /\ UNCHANGED buffer
      BY <1>12, Zenon DEF EndFlush
    <3>2. \A place : GoTo(t, place) =>
            pc'[t] = place /\ \A u \in Threads \ {t} : pc'[u] = pc[u]
      BY DEF GoTo, TypeOK
    <3>3. col' = [col EXCEPT ![t] = 1] => col'[t] = 1
      BY DEF TypeOK
    <3>4. col[t] = NCols + 1
      BY <3>1 DEF TypeOK, Columns
    <3> QED
      BY <1>12, <3>1, <3>2, <3>3, <3>4 DEF EndFlush, Leave, Return
  <2>2. \A u \in Threads : pc[u] \in {"flush", "insert"} => u = t
    BY <1>6, <2>1
  <2>3. \A c \in Columns : /\ ~ ComeTo(c, "insert") /\ ComeTo(c, "flush")
                          /\ ~ ComeTo(c, "insert")' /\ ~ ComeTo(c, "flush")'
    BY <2>1, <2>2 DEF ComeTo, Columns
  <2>4. \A c \in Columns : Len(buffer[c]) = 0
    BY <1>4, <2>3 DEF LevelAt
  <2>5. LevelAt(0)'
    BY <1>5, <2>1, <2>3, <2>4 DEF LevelAt
  <2> QED
    BY <1>5, <2>5
<1>13. CASE InsertColumn(t)
  <2> DEFINE k == col[t]
  <2>1. /\ pc[t] = "insert" /\ k \in Columns /\ pc' = pc
        /\ buffer' = [buffer EXCEPT ![k] = Append(@, t)] /\ col' = [col EXCEPT ![t] = k + 1]
    BY <1>13 DEF InsertColumn
  <2>2. \A u \in Threads : pc[u] \in {"flush", "insert"} => u = t
    BY <1>6, <2>1
  <2>3. k \in Nat /\ col'[t] = k + 1
    BY <2>1 DEF TypeOK, Columns
  <2> HIDE DEF k
  <2>4. \A c \in Columns : /\ ~ ComeTo(c, "flush") /\ ~ ComeTo(c, "flush")'
                          /\ (ComeTo(c, "insert") <=> c < k)
                          /\ (ComeTo(c, "insert")' <=> c < k + 1)
    <3>1. \A c \in Columns : ComeTo(c, "insert") <=> c < k
      BY <2>1, <2>2 DEF ComeTo, k
    <3> QED
      BY <2>1, <2>2, <2>3, <3>1 DEF ComeTo
  <2>5. \A c \in Columns : Len(buffer'[c]) = IF c < k + 1 THEN m + 1 ELSE m
    <3>1. \A c \in Columns : Len(buffer[c]) = IF c < k THEN m + 1 ELSE m
      BY <1>4, <2>4 DEF LevelAt
    <3>2. ASSUME NEW c \in Columns
          PROVE  Len(buffer'[c]) = IF c < k + 1 THEN m + 1 ELSE m
      <4>1. CASE c = k
        <5>1. buffer'[k] = Append(buffer[k], t) /\ buffer[k] \in Seq(Threads)
          BY <2>1 DEF TypeOK, Rows
        <5>2. Len(buffer'[k]) = Len(buffer[k]) + 1
          BY <5>1
        <5> QED
          BY <2>3, <3>1, <4>1, <5>2
      <4>2. CASE c # k
        BY <2>1, <2>3, <3>1, <4>2 DEF TypeOK, Columns
      <4> QED
        BY <4>1, <4>2
    <3> QED
      BY <3>2
  <2>6. m < Capacity
    BY <1>4, <2>1 DEF LevelAt
  <2>7. LevelAt(m)'
    BY <2>4, <2>5, <2>6 DEF LevelAt
  <2> QED
    BY <2>7
<1>14. CASE EndInsert(t)
  <2>1. /\ pc[t] = "insert" /\ col[t] = NCols + 1 /\ UNCHANGED buffer
        /\ pc' = [pc EXCEPT ![t] = "idle"]
    BY <1>14 DEF EndInsert, Leave, Return, GoTo, TypeOK, Columns, table
  <2>2. \A u \in Threads : /\ pc[u] \in {"flush", "insert"} => u = t
                          /\ pc'[u] \notin {"flush", "insert"}
    BY <1>6, <2>1 DEF TypeOK
  <2>3. \A c \in Columns : /\ ComeTo(c, "insert")
                          /\ ~ ComeTo(c, "insert")' /\ ~ ComeTo(c, "flush")'
    BY <2>1, <2>2 DEF ComeTo, Columns
  <2>4. m < Capacity /\ \A c \in Columns : Len(buffer[c]) = m + 1
    BY <1>4, <2>1, <2>3 DEF LevelAt
  <2>5. LevelAt(m + 1)'
    BY <2>1, <2>2, <2>3, <2>4 DEF LevelAt
  <2> QED
    BY <1>5, <2>4, <2>5
<1>15. CASE CloseMembers(t)
  <2>1. pc' = [pc EXCEPT ![t] = "idle"] /\ pc[t] = "close" /\ UNCHANGED buffer
        /\ col' = [col EXCEPT ![t] = 1]
    BY <1>15 DEF CloseMembers, Return, GoTo, table
  <2> QED
    BY <1>7, <2>1, LevelKept, <1>2, <1>3 DEF TypeOK
<1>16. ~ CloseMembersFails(t) /\ ~ InsertColumnFails(t) /\ ~ FlushColumnStarved(t)
       /\ \A how \in WriteFailures : ~ FlushColumnFails(t, how)
  BY <1>2 DEF CloseMembersFails, InsertColumnFails, FlushColumnFails, FlushColumnStarved,
              FailureKinds, WriteFailures
<1> QED
  BY <1>8, <1>9, <1>10, <1>11, <1>12, <1>13, <1>14, <1>15, <1>16 DEF Proceed

LEMMA LevelBounds ==
  ASSUME TypeOK, Level, Kept
  PROVE  CapacityUntilFailure
<1> SUFFICES ASSUME failures = 0, NEW c \in Columns
             PROVE  Len(buffer[c]) <= Capacity
  BY DEF CapacityUntilFailure
<1>1. Capacity \in Nat
  BY BufSizeAssumption DEF Capacity
<1>2. PICK m \in 0..Capacity : LevelAt(m)
  BY DEF Level
<1>3. ComeTo(c, "insert") => m < Capacity
  BY <1>2 DEF LevelAt, ComeTo
<1> QED
  BY <1>1, <1>2, <1>3 DEF LevelAt

(* Until something fails no column has more than a buffer of rows in       *)
(* memory, although insert() looks at the first one only.                  *)
THEOREM CapacityRespected == Spec => []CapacityUntilFailure
<1> DEFINE Inv == Level /\ CapacityUntilFailure
<1>1. Init => Inv
  <2> SUFFICES ASSUME Init PROVE Inv
    OBVIOUS
  <2>1. Capacity \in Nat
    BY BufSizeAssumption DEF Capacity
  <2>2. LevelAt(0)
    BY <2>1 DEF Init, LevelAt, ComeTo
  <2>3. CapacityUntilFailure
    BY <2>1 DEF Init, CapacityUntilFailure
  <2> QED
    BY <2>1, <2>2, <2>3 DEF Level
<1>2. IInv /\ IInv' /\ Inv /\ [Next]_vars => Inv'
  <2> SUFFICES ASSUME IInv, IInv', Inv, [Next]_vars PROVE Inv'
    OBVIOUS
  <2>1. ASSUME NEW t \in Threads, Proceed(t) PROVE Inv'
    <3>1. Level' /\ TypeOK'
      BY <2>1, LevelStep DEF IInv
    <3>2. CASE Kept'
      BY <3>1, <3>2, LevelBounds, PTL
    <3>3. CASE ~ Kept'
      <4>1. ~ Resting(t)
        BY <2>1 DEF Proceed, LockForInsert, CheckCapacity, LockForFlush, FlushColumn,
             FlushColumnFails, FlushColumnStarved, EndFlush, CloseMembers, CloseMembersFails, InsertColumn,
             InsertColumnFails, EndInsert, Resting
      <4>2. Kept
        BY <4>1 DEF IInv, Destruction
      <4>3. CloseMembersFails(t) \/ FlushColumnStarved(t)
        <5>1. ~ \E how \in WriteFailures : FlushColumnFails(t, how)
          BY <3>3, <4>2, ThrowEndsCall DEF FlushColumnFails, Kept
        <5> QED
          BY <2>1, <3>3, <4>2, <5>1 DEF Proceed, LockForInsert, CheckCapacity, LockForFlush,
             FlushColumn, EndFlush, CloseMembers, InsertColumn, InsertColumnFails, EndInsert,
             table, Kept
      <4>4. failures' # 0
        BY <4>3 DEF CloseMembersFails, FlushColumnStarved, Fails, IInv, TypeOK
      <4> QED
        BY <3>1, <4>4 DEF CapacityUntilFailure
    <3> QED
      BY <3>2, <3>3
  <2>2. ASSUME UNCHANGED <<buffer, failures>>, Level' PROVE Inv'
    BY <2>2 DEF CapacityUntilFailure
  <2>3. ASSUME UNCHANGED <<buffer, failures>>, ~ Kept' PROVE Inv'
    BY <2>2, <2>3 DEF Level
  <2>4. ASSUME NEW t \in Threads, CallInsert(t) \/ CallFlush(t) \/ CallDestroy(t)
        PROVE  Inv'
    <3>1. \E place \in {"lock", "flushlock"} : pc' = [pc EXCEPT ![t] = place]
      BY <2>4 DEF CallInsert, CallFlush, CallDestroy, Call, GoTo
    <3>2. pc[t] = "idle" /\ UNCHANGED <<table, col>>
      BY <2>4 DEF CallInsert, CallFlush, CallDestroy, Call
    <3>3. Level'
      BY <3>1, <3>2, LevelKept DEF IInv, TypeOK, table, Kept
    <3> QED
      BY <2>2, <3>2, <3>3 DEF table
  <2>5. CASE Move
    BY <2>2, <2>5, LevelKept DEF Move, Kept
  <2>6. CASE AssignOver
    <3>1. /\ \A u \in Threads : pc'[u] = "idle"
          /\ \A c \in Columns : Len(buffer'[c]) = 0
      BY <2>6 DEF AssignOver
    <3>2. Capacity \in Nat
      BY BufSizeAssumption DEF Capacity
    <3>3. LevelAt(0)'
      BY <3>1 DEF LevelAt, ComeTo
    <3> QED
      BY <3>1, <3>2, <3>3 DEF Level, CapacityUntilFailure
  <2>7. ASSUME NEW t \in Threads, DestroyShell(t) PROVE Inv'
    <3>1. CASE Crash("shell")
      BY <2>3, <2>7, <3>1 DEF DestroyShell, Crash, Kept
    <3>2. CASE UNCHANGED <<pc, col, lost>>
      BY <2>2, <2>7, <3>2, LevelKept DEF DestroyShell, Kept
    <3> QED
      BY <2>7, <3>1, <3>2 DEF DestroyShell
  <2>8. CASE UNCHANGED vars
    BY <2>2, <2>8, LevelKept DEF vars, Kept
  <2> QED
    BY <2>1, <2>4, <2>5, <2>6, <2>7, <2>8 DEF Next
<1> QED
  BY <1>1, <1>2, Invariance, PTL DEF Spec

-----------------------------------------------------------------------------
(* The refinement: the rows of the file that every column has are the      *)
(* beginning of the accepted rows, and grow.                               *)

LEMMA FewestIsLeast ==
  ASSUME TypeOK
  PROVE  /\ Fewest \in Nat /\ \A c \in Columns : Fewest <= Len(Written(c))
         /\ \E c \in Columns : Fewest = Len(Written(c))
<1>1. WrittenOf \in SUBSET Nat /\ WrittenOf # {}
  <2>1. \A c \in Columns : Len(Written(c)) \in Nat
    BY WrittenTyped
  <2>2. 1 \in Columns
    BY ColumnsAssumption DEF Columns
  <2> QED
    BY <2>1, <2>2 DEF WrittenOf
<1>2. \E n \in WrittenOf : \A m \in WrittenOf : n <= m
  BY <1>1, LeastElement
<1>3. Fewest \in WrittenOf /\ \A m \in WrittenOf : Fewest <= m
  BY <1>2 DEF Fewest
<1> QED
  BY <1>1, <1>3 DEF WrittenOf

LEMMA SamePrefix ==
  ASSUME NEW S, NEW s \in Seq(S), NEW w \in Seq(S), NEW n \in Nat, n <= Len(s), n <= Len(w),
         \A i \in 1..n : w[i] = s[i]
  PROVE  SubSeq(w, 1, n) = SubSeq(s, 1, n) /\ Len(SubSeq(s, 1, n)) = n
  OBVIOUS

LEMMA CompleteIsPrefix ==
  ASSUME TypeOK, WrittenPrefix
  PROVE  /\ Complete = SubSeq(accepted, 1, Fewest) /\ Len(Complete) = Fewest
         /\ Fewest \in Nat /\ Fewest <= Len(accepted)
<1>1. 1 \in Columns
  BY ColumnsAssumption DEF Columns
<1>2. Fewest \in Nat /\ Fewest <= Len(Written(1))
  BY <1>1, FewestIsLeast
<1>3. Written(1) \in Seq(Threads) /\ accepted \in Seq(Threads)
  BY <1>1, WrittenTyped DEF TypeOK, Rows
<1>4. /\ Len(Written(1)) <= Len(accepted)
      /\ \A i \in 1..Len(Written(1)) : Written(1)[i] = accepted[i]
  BY <1>1 DEF WrittenPrefix
<1> DEFINE w == Written(1)
<1> HIDE DEF w
<1>5. w \in Seq(Threads) /\ Len(w) \in Nat /\ Len(accepted) \in Nat
  BY <1>3 DEF w
<1>6. Fewest <= Len(w) /\ Fewest <= Len(accepted) /\ \A i \in 1..Fewest : w[i] = accepted[i]
  BY <1>2, <1>4, <1>5 DEF w
<1>7. SubSeq(w, 1, Fewest) = SubSeq(accepted, 1, Fewest)
      /\ Len(SubSeq(accepted, 1, Fewest)) = Fewest
  BY <1>2, <1>3, <1>5, <1>6, SamePrefix
<1> QED
  BY <1>2, <1>6, <1>7 DEF Complete, w

LEMMA CompleteKept ==
  ASSUME \A c \in Columns : Written(c)' = Written(c)
  PROVE  Complete' = Complete
<1>1. 1 \in Columns
  BY ColumnsAssumption DEF Columns
<1>2. WrittenOf' = WrittenOf
  BY DEF WrittenOf
<1>3. Fewest' = Fewest
  BY <1>2 DEF Fewest
<1> QED
  BY <1>1, <1>3 DEF Complete

(* With empty buffers the file has everything. *)
LEMMA FileCaughtUp ==
  ASSUME IInv, Untorn, Kept, \A t \in Threads : pc[t] # "insert",
         \A c \in Columns : buffer[c] = << >>
  PROVE  Complete = accepted
<1>1. ASSUME NEW c \in Columns PROVE Written(c) = accepted
  <2>1. Written(c) \o << >> = accepted
    BY DEF IInv, ColumnsComplete, InProgress
  <2>2. Written(c) \in Seq(Threads)
    BY WrittenTyped DEF IInv
  <2> QED
    BY <2>1, <2>2
<1>2. PICK c \in Columns : Fewest = Len(Written(c))
  BY FewestIsLeast DEF IInv
<1>3. Fewest = Len(accepted) /\ 1 \in Columns
  BY <1>1, <1>2, ColumnsAssumption DEF Columns
<1>4. Complete = SubSeq(accepted, 1, Len(accepted))
  BY <1>1, <1>3 DEF Complete
<1>5. accepted \in Seq(Threads)
  BY DEF IInv, TypeOK, Rows
<1> QED
  BY <1>4, <1>5

Closed == Destroyed /\ lost = {}
Broken == lost \cap {"torn", "crash"} # {}

(* What a step of the table is, in terms of the Ntuple. *)
TableStep ==
  \/ Broken'
  \/ ~ Closed /\ ~ Closed' /\ Complete' = Complete /\ \E r \in Threads : accepted' = Append(accepted, r)
  \/ /\ \E n \in Len(Complete)..Len(accepted) : Complete' = SubSeq(accepted, 1, n)
     /\ ~ Closed /\ ~ Closed' /\ UNCHANGED accepted
  \/ ~ Closed /\ Complete = accepted /\ Closed' /\ UNCHANGED <<accepted, Complete>>
  \/ Closed' = Closed /\ UNCHANGED <<accepted, Complete>>

LEMMA TableStepIsTables ==
  TableStep => [Broken' \/ Table!TableNext]_<<accepted, Complete, Closed>>
<1> SUFFICES ASSUME TableStep
             PROVE  [Broken' \/ Table!TableNext]_<<accepted, Complete, Closed>>
  OBVIOUS
<1>1. Closed \in BOOLEAN /\ Closed' \in BOOLEAN
  BY DEF Closed
<1>2. CASE ~ Closed /\ ~ Closed' /\ Complete' = Complete
           /\ \E r \in Threads : accepted' = Append(accepted, r)
  <2>1. Closed' = Closed
    BY <1>1, <1>2
  <2> QED
    BY <1>2, <2>1 DEF Table!TableNext, Table!AppendRow, Closed
<1>3. CASE /\ \E n \in Len(Complete)..Len(accepted) : Complete' = SubSeq(accepted, 1, n)
           /\ ~ Closed /\ ~ Closed' /\ UNCHANGED accepted
  <2>1. Closed' = Closed
    BY <1>1, <1>3
  <2> QED
    BY <1>3, <2>1 DEF Table!TableNext, Table!Persist, Closed
<1>4. CASE ~ Closed /\ Complete = accepted /\ Closed' /\ UNCHANGED <<accepted, Complete>>
  <2>1. Closed' = TRUE
    BY <1>1, <1>4
  <2> QED
    BY <1>4, <2>1 DEF Table!TableNext, Table!Close, Closed
<1>5. CASE Closed' = Closed /\ UNCHANGED <<accepted, Complete>>
  BY <1>5
<1> QED
  BY <1>2, <1>3, <1>4, <1>5 DEF TableStep

(* The steps of one thread: only CloseMembers() closes the table. *)
LEMMA ProceedNotClosed ==
  ASSUME IInv, NEW t \in Threads, Proceed(t)
  PROVE  ~ Closed /\ (Closed' => CloseMembers(t))
<1>1. pc[t] \notin {"idle", "gone"}
  BY DEF Proceed, LockForInsert, CheckCapacity, LockForFlush, FlushColumn,
         FlushColumnFails, FlushColumnStarved, EndFlush, CloseMembers, CloseMembersFails,
         InsertColumn, InsertColumnFails, EndInsert
<1>2. ~ Closed
  BY <1>1 DEF Closed, Destroyed
<1>3. ASSUME Closed' PROVE CloseMembers(t)
  <2>1. ~ alive' /\ lost' = {} /\ pc'[t] = "idle"
    BY <1>3 DEF Closed, Destroyed
  <2>2. \A cause \in Losses : ~ Crash(cause)
    BY <2>1 DEF Crash
  <2>3. alive' = alive
    BY <2>2, CauseIsLoss, ThrowEndsCall, StarvedEnds
    DEF Proceed, LockForInsert, CheckCapacity, LockForFlush, FlushColumn,
         FlushColumnFails, EndFlush, CloseMembers, CloseMembersFails, InsertColumn,
         InsertColumnFails, EndInsert, table
  <2>4. op[t] = "destroy" /\ pc[t] \in {"flushlock", "flush", "close"} /\ t \in DOMAIN pc
    BY <1>1, <2>1, <2>3 DEF IInv, Destruction, Resting, TypeOK
  <2>5. ~ LockForInsert(t) /\ ~ CheckCapacity(t) /\ ~ InsertColumn(t) /\ ~ InsertColumnFails(t)
        /\ ~ EndInsert(t)
    BY <2>4 DEF LockForInsert, CheckCapacity, InsertColumn, InsertColumnFails, EndInsert
  <2>6. ~ LockForFlush(t) /\ ~ FlushColumn(t)
    BY <2>1, <2>4 DEF LockForFlush, FlushColumn, GoTo
  <2>7. ~ \E how \in WriteFailures : FlushColumnFails(t, how)
    BY <2>1, <2>4 DEF FlushColumnFails, Throws
  <2>8. ~ EndFlush(t)
    BY <2>1, <2>4 DEF EndFlush, GoesOnToInsert, GoTo
  <2>9. ~ CloseMembersFails(t)
    BY <2>1, <2>2, CauseIsLoss DEF CloseMembersFails
  <2>10. ~ FlushColumnStarved(t)
    BY <2>2, <2>4, CauseIsLoss, StarvedEnds
  <2> QED
    BY <2>5, <2>6, <2>7, <2>8, <2>9, <2>10 DEF Proceed
<1> QED
  BY <1>2, <1>3

LEMMA ProceedIsTableStep ==
  ASSUME IInv, IInv', NEW t \in Threads, Proceed(t)
  PROVE  TableStep
<1> SUFFICES ASSUME ~ Broken' PROVE TableStep
  BY DEF TableStep
<1>1. Untorn' /\ Untorn
  BY TornStays DEF Broken, Untorn, IInv
<1>2. ~ Closed /\ (Closed' => CloseMembers(t))
  BY ProceedNotClosed
<1>3. ASSUME UNCHANGED accepted, \A c \in Columns : Written(c)' = Written(c), ~ CloseMembers(t)
      PROVE  TableStep
  BY <1>2, <1>3, CompleteKept DEF TableStep, Closed
<1>4. CASE FlushColumn(t)
  <2>1. UNCHANGED accepted /\ ~ CloseMembers(t) /\ col[t] \in Columns
    BY <1>4 DEF FlushColumn, CloseMembers
  <2>2. TypeOK /\ TypeOK' /\ WrittenPrefix /\ WrittenPrefix'
    BY <1>1 DEF IInv
  <2>3. /\ Len(Complete) = Fewest /\ Fewest \in Nat /\ \A c \in Columns : Fewest <= Len(Written(c))
    BY <2>2, CompleteIsPrefix, FewestIsLeast
  <2>4. /\ Complete' = SubSeq(accepted, 1, Fewest') /\ Fewest' \in Nat
        /\ Fewest' <= Len(accepted)
    <3>1. (TypeOK /\ WrittenPrefix => /\ Complete = SubSeq(accepted, 1, Fewest)
                                      /\ Fewest \in Nat /\ Fewest <= Len(accepted))'
      BY CompleteIsPrefix, PTL
    <3> QED
      BY <2>1, <2>2, <3>1
  <2>5. \E c \in Columns : Fewest' = Len(Written(c)')
    <3>1. (TypeOK => \E c \in Columns : Fewest = Len(Written(c)))'
      BY FewestIsLeast, PTL
    <3> QED
      BY <2>2, <3>1
  <2>6. ASSUME NEW c \in Columns PROVE Len(Written(c)) <= Len(Written(c)')
    <3>1. Written(c) \in Seq(Threads) /\ buffer[col[t]] \in Seq(Threads)
      BY <2>1, <2>2, WrittenTyped DEF TypeOK, Rows
    <3>2. Written(c)' = Written(c) \o buffer[col[t]] \/ Written(c)' = Written(c)
      BY <1>4, <2>2, WrittenByFlush
    <3> QED
      BY <3>1, <3>2
  <2>7. \A c \in Columns : Len(Written(c)) \in Nat
    BY <2>2, WrittenTyped
  <2>8. Fewest <= Fewest'
    <3>1. PICK c \in Columns : Fewest' = Len(Written(c)')
      BY <2>5
    <3> QED
      BY <2>3, <2>4, <2>6, <2>7, <3>1
  <2>9. Fewest' \in Len(Complete)..Len(accepted)
    <3>1. Len(accepted) \in Nat
      BY <2>2 DEF TypeOK, Rows
    <3> QED
      BY <2>3, <2>4, <2>8, <3>1
  <2> QED
    BY <1>2, <2>1, <2>4, <2>9 DEF TableStep
<1>5. ASSUME NEW how \in WriteFailures, FlushColumnFails(t, how)
      PROVE  TableStep
  <2>1. UNCHANGED accepted /\ ~ CloseMembers(t)
    BY <1>5 DEF FlushColumnFails, CloseMembers
  <2> QED
    BY <1>3, <1>5, <2>1, WrittenByFailure DEF IInv
<1>6. CASE InsertColumn(t)
  <2>1. UNCHANGED stored /\ ~ CloseMembers(t) /\ (accepted' = accepted \/ accepted' = Append(accepted, t))
    BY <1>6 DEF InsertColumn, CloseMembers
  <2>2. \A c \in Columns : Written(c)' = Written(c)
    BY <2>1 DEF Written
  <2> QED
    BY <1>2, <1>3, <2>1, <2>2, CompleteKept DEF TableStep
<1>7. CASE CloseMembers(t)
  <2>1. UNCHANGED <<stored, accepted, buffer, lost>> /\ pc[t] = "close" /\ op[t] = "destroy"
    BY <1>7 DEF CloseMembers, table, IInv, Locking
  <2>2. \A c \in Columns : Written(c)' = Written(c)
    BY <2>1 DEF Written
  <2>3. Complete' = Complete
    BY <2>2, CompleteKept
  <2>4. CASE ~ Closed'
    BY <1>2, <2>1, <2>3, <2>4 DEF TableStep, Closed
  <2>5. CASE Closed'
    <3>1. lost = {} /\ ~ alive
      BY <2>1, <2>5 DEF Closed, Destroyed, IInv, Destruction
    <3>2. \A u \in Threads : pc[u] # "insert"
      BY <3>1 DEF IInv, Destruction, Resting
    <3>3. \A c \in Columns : buffer[c] = << >>
      BY <2>1, <3>1 DEF IInv, Destruction
    <3>4. Complete = accepted
      BY <3>1, <3>2, <3>3, FileCaughtUp DEF Untorn, Kept
    <3> QED
      BY <1>2, <2>1, <2>3, <2>5, <3>4 DEF TableStep
  <2> QED
    BY <2>4, <2>5
<1>8. ASSUME \/ LockForInsert(t) \/ CheckCapacity(t) \/ LockForFlush(t) \/ EndFlush(t)
             \/ EndInsert(t) \/ CloseMembersFails(t) \/ InsertColumnFails(t)
             \/ FlushColumnStarved(t)
      PROVE  TableStep
  <2>1. UNCHANGED <<stored, accepted>>
    BY <1>8, StarvedEnds DEF LockForInsert, CheckCapacity, LockForFlush, EndFlush, EndInsert,
                CloseMembersFails, InsertColumnFails, table
  <2>2. \A c \in Columns : Written(c)' = Written(c)
    BY <2>1 DEF Written
  <2> QED
    BY <1>3, <1>7, <2>1, <2>2
<1> QED
  BY <1>4, <1>5, <1>6, <1>7, <1>8 DEF Proceed

LEMMA NextIsTableStep ==
  ASSUME IInv, IInv', [Next]_vars
  PROVE  TableStep
<1>1. ASSUME UNCHANGED <<stored, accepted>>, Closed' = Closed PROVE TableStep
  <2>1. \A c \in Columns : Written(c)' = Written(c)
    BY <1>1 DEF Written
  <2> QED
    BY <1>1, <2>1, CompleteKept DEF TableStep
<1>2. CASE UNCHANGED vars
  BY <1>1, <1>2 DEF vars, Closed, Destroyed
<1>3. ASSUME NEW t \in Threads, CallInsert(t) \/ CallFlush(t) \/ CallDestroy(t)
      PROVE  TableStep
  <2>1. /\ alive /\ UNCHANGED <<stored, accepted>>
        /\ \E place \in {"lock", "flushlock"} : pc' = [pc EXCEPT ![t] = place]
    BY <1>3 DEF CallInsert, CallFlush, CallDestroy, Call, GoTo, table
  <2>2. pc'[t] # "idle"
    BY <2>1 DEF IInv, TypeOK
  <2>3. ~ Closed /\ ~ Closed'
    BY <2>1, <2>2 DEF Closed, Destroyed
  <2>4. Closed' = Closed
    BY <2>3 DEF Closed
  <2> QED
    BY <1>1, <2>1, <2>4
<1>4. CASE Move
  BY <1>1, <1>4 DEF Move, Closed, Destroyed
<1>5. CASE AssignOver
  <2>1. /\ alive /\ \A u \in Threads : pc[u] = "idle"
        /\ UNCHANGED <<stored, accepted>>
        /\ lost' = IF \E c \in Columns : buffer[c] # << >> THEN lost \cup {"assign"} ELSE lost
    BY <1>5 DEF AssignOver
  <2>2. \A c \in Columns : Written(c)' = Written(c)
    BY <2>1 DEF Written
  <2>3. Complete' = Complete /\ ~ Closed
    BY <2>1, <2>2, CompleteKept DEF Closed, Destroyed
  <2>4. CASE ~ Closed'
    BY <2>1, <2>3, <2>4 DEF TableStep, Closed
  <2>5. CASE Closed'
    <3>1. lost = {} /\ \A c \in Columns : buffer[c] = << >>
      BY <2>1, <2>5 DEF Closed
    <3>2. Complete = accepted
      BY <2>1, <3>1, FileCaughtUp DEF Untorn, Kept
    <3> QED
      BY <2>1, <2>3, <2>5, <3>2 DEF TableStep
  <2> QED
    BY <2>4, <2>5
<1>6. ASSUME NEW t \in Threads, DestroyShell(t) PROVE TableStep
  <2>1. CASE Crash("shell")
    BY <2>1 DEF TableStep, Broken, Crash
  <2>2. CASE UNCHANGED <<mutex, pc, op, col, rc, alive, lost>>
    BY <1>1, <1>6, <2>2 DEF DestroyShell, Closed, Destroyed
  <2> QED
    BY <1>6, <2>1, <2>2, Zenon DEF DestroyShell
<1> QED
  BY <1>2, <1>3, <1>4, <1>5, <1>6, ProceedIsTableStep DEF Next

LEMMA InitIsTables == Init => Table!TableInit
<1> SUFFICES ASSUME Init PROVE Table!TableInit
  OBVIOUS
<1>1. 1 \in Columns
  BY ColumnsAssumption DEF Columns
<1>2. \A c \in Columns : Written(c) = << >>
  <2>1. << >> \in Seq({Fill})
    OBVIOUS
  <2>2. RowsOf(<< >>) = << >>
    BY <2>1, RowsOfHoles
  <2> QED
    BY <2>2 DEF Written, Init
<1>3. Complete = << >>
  <2>1. WrittenOf = {0}
    BY <1>1, <1>2 DEF WrittenOf
  <2>2. Fewest = 0
    BY <2>1 DEF Fewest
  <2> QED
    BY <1>1, <1>2, <2>2 DEF Complete
<1> QED
  BY <1>3 DEF Init, Table!TableInit, Destroyed

(* insert(), flush(), ~Ntuple(), moves and whatever fails in them add up   *)
(* to a table to which rows are appended, of which a growing part from the *)
(* beginning can be read from the file, and all of it once it is closed -  *)
(* up to an exception that tears a row apart, or ends the process.         *)
THEOREM TableImplemented == Spec => ImplementsTable
<1>1. Init => Table!TableInit
  BY InitIsTables
<1>2. IInv /\ IInv' /\ [Next]_vars => [Broken' \/ Table!TableNext]_<<accepted, Complete, Closed>>
  BY NextIsTableStep, TableStepIsTables
<1> QED
  BY <1>1, <1>2, Invariance, PTL DEF Spec, ImplementsTable, Table!TableSpec, Broken, Closed
=============================================================================
