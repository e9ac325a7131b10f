------------------------- MODULE ConcatRows_proofs -------------------------
(***************************************************************************)
(* What becomes of the rows, for every number of ranks, every list of      *)
(* inputs, every chunking, buffer and limit, and in both transfer modes:   *)
(* they are in place, written once, by one rank, and lost only where a     *)
(* buffer has no spare rows; and where it has, the steps of the ranks are  *)
(* steps of ConcatAbstract.                                                *)
(***************************************************************************)
EXTENDS ConcatRows, ConcatDataset_proofs, SequenceTheorems, WellFoundedInduction

USE DEF At, AllAt, Goto, AllGoto, InLoop, Transferring, MaxRows, Collective, inputs

-----------------------------------------------------------------------------
(* Induction on sets of numbers.                                           *)

LessThan == {pair \in Nat \X Nat : pair[1] < pair[2]}

LEMMA LessThanWellFounded == IsWellFoundedOn(LessThan, Nat)
BY NatLessThanWellFounded, Zenon DEF OpToRel, LessThan

LEMMA LeastElement ==
  ASSUME NEW S \in SUBSET Nat, S # {}
  PROVE  \E n \in S : \A m \in S : n <= m
<1>1. \E n \in S : \A m \in S : ~ (<<m, n>> \in LessThan)
  BY LessThanWellFounded, WFMin
<1>2. PICK n \in S : \A m \in S : ~ (<<m, n>> \in LessThan)
  BY <1>1
<1>3. ASSUME NEW m \in S PROVE ~ (m < n)
  <2>1. <<m, n>> \in Nat \X Nat
    OBVIOUS
  <2>2. m < n => <<m, n>> \in LessThan
    BY <2>1 DEF LessThan
  <2> QED
    BY <1>2, <2>2
<1> QED
  BY <1>3

(* What holds at 0 and passes from each number to the next holds up to n. *)
LEMMA StepByStep ==
  ASSUME NEW n \in Nat, NEW S, 0 \in S,
         \A i \in 0 .. n - 1 : i \in S => i + 1 \in S
  PROVE  \A i \in 0 .. n : i \in S
<1> SUFFICES ASSUME NEW k \in 0 .. n, k \notin S PROVE FALSE
  OBVIOUS
<1> DEFINE Out == {i \in 0 .. n : i \notin S}
<1>1. Out \in SUBSET Nat /\ Out # {}
  OBVIOUS
<1>2. PICK i \in Out : \A m \in Out : i <= m
  BY <1>1, LeastElement
<1>3. i # 0
  OBVIOUS
<1>4. i - 1 \in 0 .. n - 1 /\ i - 1 \in 0 .. n
  BY <1>2, <1>3
<1>5. i - 1 \notin Out
  BY <1>2, <1>4
<1>6. i - 1 \in S
  BY <1>4, <1>5
<1>7. (i - 1) + 1 \in S /\ (i - 1) + 1 = i
  BY <1>4, <1>6
<1> QED
  BY <1>7

-----------------------------------------------------------------------------
(* Where the inputs begin.                                                 *)

LEMMA SizesAreNat ==
  ASSUME sizes \in [Files -> InputSizes]
  PROVE  /\ NFiles \in Nat
         /\ \A f \in 1 .. NFiles : sizes[f] \in Nat
BY NFilesAssumption, InputSizesAssumption DEF Files

SumsUpTo(n, g) ==
  g = [f \in 1 .. n + 1 |-> IF f = 1 THEN 0 ELSE g[f - 1] + sizes[f - 1]]

(* The recursion defines a function.                                       *)
LEMMA StartDefined ==
  ASSUME sizes \in [Files -> InputSizes]
  PROVE  SumsUpTo(NFiles, Start)
<1> DEFINE S == {n \in Nat : \E g : SumsUpTo(n, g)}
<1>1. NFiles \in Nat
  BY SizesAreNat
<1>2. 0 \in S
  <2>1. SumsUpTo(0, [f \in 1 .. 0 + 1 |-> 0])
    BY DEF SumsUpTo
  <2> QED
    BY <2>1
<1>3. ASSUME NEW n \in 0 .. NFiles - 1, n \in S
      PROVE  n + 1 \in S
  <2>1. PICK g : SumsUpTo(n, g)
    BY <1>3
  <2> DEFINE h == [f \in 1 .. (n + 1) + 1 |->
                     IF f = n + 2 THEN g[n + 1] + sizes[n + 1] ELSE g[f]]
  <2>2. ASSUME NEW f \in 1 .. (n + 1) + 1
        PROVE  h[f] = IF f = 1 THEN 0 ELSE h[f - 1] + sizes[f - 1]
    <3>1. CASE f = n + 2
      <4>1. f - 1 = n + 1 /\ f - 1 \in 1 .. (n + 1) + 1 /\ f # 1 /\ f - 1 # n + 2
        BY <3>1
      <4> QED
        BY <3>1, <4>1
    <3>2. CASE f # n + 2
      <4>1. f \in 1 .. n + 1 /\ f - 1 # n + 2 /\ (f # 1 => f - 1 \in 1 .. (n + 1) + 1)
        BY <3>2
      <4>2. g[f] = IF f = 1 THEN 0 ELSE g[f - 1] + sizes[f - 1]
        BY <2>1, <4>1, Zenon DEF SumsUpTo
      <4>3. h[f] = g[f] /\ (f # 1 => h[f - 1] = g[f - 1])
        BY <3>2, <4>1
      <4> QED
        BY <4>2, <4>3
    <3> QED
      BY <3>1, <3>2
  <2>3. h = [f \in 1 .. (n + 1) + 1 |-> h[f]]
    OBVIOUS
  <2> HIDE DEF h
  <2>4. SumsUpTo(n + 1, h)
    BY <2>2, <2>3, Zenon DEF SumsUpTo
  <2> QED
    BY <2>4
<1> HIDE DEF S
<1>4. NFiles \in S
  BY <1>1, <1>2, <1>3, StepByStep
<1>5. PICK g : SumsUpTo(NFiles, g)
  BY <1>4 DEF S
<1> QED
  BY <1>5, Zenon DEF Start, SumsUpTo

LEMMA StartEquation ==
  ASSUME sizes \in [Files -> InputSizes]
  PROVE  /\ Start[1] = 0
         /\ \A f \in 1 .. NFiles : Start[f + 1] = Start[f] + sizes[f]
<1>1. NFiles \in Nat
  BY SizesAreNat
<1>2. \A f \in 1 .. NFiles + 1 :
        Start[f] = IF f = 1 THEN 0 ELSE Start[f - 1] + sizes[f - 1]
  BY StartDefined, Zenon DEF SumsUpTo
<1>3. 1 \in 1 .. NFiles + 1
  BY <1>1
<1>4. ASSUME NEW f \in 1 .. NFiles
      PROVE  f + 1 \in 1 .. NFiles + 1 /\ f + 1 # 1 /\ (f + 1) - 1 = f
  BY <1>1
<1> HIDE DEF Start
<1>5. Start[1] = 0
  BY <1>2, <1>3
<1>6. ASSUME NEW f \in 1 .. NFiles
      PROVE  Start[f + 1] = Start[f] + sizes[f]
  BY <1>2, <1>4
<1> QED
  BY <1>5, <1>6

LEMMA StartIsNat ==
  ASSUME sizes \in [Files -> InputSizes]
  PROVE  \A f \in 1 .. NFiles + 1 : Start[f] \in Nat
<1> DEFINE S == {n \in Nat : Start[n + 1] \in Nat}
<1>1. NFiles \in Nat /\ \A f \in 1 .. NFiles : sizes[f] \in Nat
  BY SizesAreNat
<1> HIDE DEF Start
<1>2. 0 \in S
  BY StartEquation
<1>3. ASSUME NEW n \in 0 .. NFiles - 1, n \in S
      PROVE  n + 1 \in S
  <2>1. n + 1 \in 1 .. NFiles /\ Start[n + 1] \in Nat
    BY <1>1, <1>3
  <2>2. Start[(n + 1) + 1] = Start[n + 1] + sizes[n + 1]
    BY <2>1, StartEquation
  <2> QED
    BY <1>1, <2>1, <2>2
<1>4. \A n \in 0 .. NFiles : n \in S
  <2> HIDE DEF S
  <2> QED
    BY <1>1, <1>2, <1>3, StepByStep
<1>5. ASSUME NEW f \in 1 .. NFiles + 1 PROVE Start[f] \in Nat
  <2>1. f - 1 \in 0 .. NFiles /\ (f - 1) + 1 = f
    BY <1>1
  <2>2. f - 1 \in S
    BY <1>4, <2>1
  <2> QED
    BY <2>1, <2>2
<1> QED
  BY <1>5

LEMMA StartMonotone ==
  ASSUME sizes \in [Files -> InputSizes],
         NEW f \in 1 .. NFiles + 1, NEW g \in 1 .. NFiles + 1, f <= g
  PROVE  Start[f] <= Start[g]
<1> DEFINE S == {n \in Nat : f + n <= NFiles + 1 => Start[f] <= Start[f + n]}
<1>1. NFiles \in Nat /\ \A k \in 1 .. NFiles : sizes[k] \in Nat
  BY SizesAreNat
<1> HIDE DEF Start
<1>2. 0 \in S
  BY <1>1, StartIsNat
<1>3. ASSUME NEW n \in 0 .. NFiles - 1, n \in S
      PROVE  n + 1 \in S
  <2> SUFFICES ASSUME f + (n + 1) <= NFiles + 1
               PROVE  Start[f] <= Start[f + (n + 1)]
    OBVIOUS
  <2>1. f + n \in 1 .. NFiles /\ Start[f] <= Start[f + n]
    BY <1>1, <1>3
  <2>2. Start[(f + n) + 1] = Start[f + n] + sizes[f + n]
    BY <2>1, StartEquation
  <2>3. (f + n) + 1 = f + (n + 1)
    BY <1>1
  <2>4. Start[f] \in Nat /\ Start[f + n] \in Nat /\ sizes[f + n] \in Nat
    <3>1. f + n \in 1 .. NFiles + 1
      BY <1>1, <2>1
    <3> QED
      BY <1>1, <2>1, <3>1, StartIsNat
  <2> QED
    BY <2>1, <2>2, <2>3, <2>4
<1>4. \A n \in 0 .. NFiles : n \in S
  <2> HIDE DEF S
  <2> QED
    BY <1>1, <1>2, <1>3, StepByStep
<1>5. g - f \in 0 .. NFiles /\ f + (g - f) = g
  BY <1>1
<1>6. g - f \in S
  BY <1>4, <1>5
<1> QED
  BY <1>1, <1>5, <1>6

(* A row of the output is the place of one row of the inputs at most.      *)
LEMMA PlacesUnique ==
  ASSUME sizes \in [Files -> InputSizes], NEW row,
         NEW a \in InputRows, NEW b \in InputRows,
         IsPlaceOf(row, a), IsPlaceOf(row, b)
  PROVE  a = b
<1>1. NFiles \in Nat /\ \A f \in 1 .. NFiles : sizes[f] \in Nat
  BY SizesAreNat
<1>2. /\ a[1] \in 1 .. NFiles /\ a[2] \in Nat /\ a = <<a[1], a[2]>>
      /\ b[1] \in 1 .. NFiles /\ b[2] \in Nat /\ b = <<b[1], b[2]>>
  BY DEF InputRows, Files
<1> HIDE DEF Start
<1>3. /\ a[2] < sizes[a[1]] /\ row = Start[a[1]] + a[2]
      /\ b[2] < sizes[b[1]] /\ row = Start[b[1]] + b[2]
  BY DEF IsPlaceOf
<1>4. ASSUME NEW p \in 1 .. NFiles, NEW q \in 1 .. NFiles, p < q,
             NEW i \in Nat, NEW j \in Nat, i < sizes[p],
             Start[p] + i = Start[q] + j
      PROVE  FALSE
  <2>1. p + 1 \in 1 .. NFiles + 1 /\ q \in 1 .. NFiles + 1 /\ p \in 1 .. NFiles + 1
    BY <1>1
  <2>2. Start[p + 1] <= Start[q]
    BY <1>1, <1>4, <2>1, StartMonotone
  <2>3. Start[p + 1] = Start[p] + sizes[p]
    BY StartEquation
  <2>4. Start[p] \in Nat /\ Start[q] \in Nat /\ sizes[p] \in Nat
    BY <1>1, <2>1, StartIsNat
  <2> QED
    BY <1>4, <2>2, <2>3, <2>4
<1>5. a[1] = b[1]
  <2>1. ~ (a[1] < b[1])
    BY <1>2, <1>3, <1>4
  <2>2. ~ (b[1] < a[1])
    BY <1>2, <1>3, <1>4
  <2> QED
    BY <1>1, <1>2, <2>1, <2>2
<1>6. Start[a[1]] \in Nat
  BY <1>1, <1>2, StartIsNat
<1>7. a[2] = b[2]
  BY <1>2, <1>3, <1>5, <1>6
<1> QED
  BY <1>2, <1>5, <1>7, Zenon

-----------------------------------------------------------------------------
(* The iterations that copy `rows' rows of an input to row `base' of the   *)
(* output.                                                                 *)

LayoutUsable ==
  layout.chunk_rows \in Nat \ {0} /\ layout.buffer_size_rows \in Nat \ {0}

LEMMA IterationAdvances ==
  ASSUME LayoutUsable, NEW base \in Nat, NEW rows \in Nat,
         NEW d \in Nat, d < rows
  PROVE  /\ InfoAt(base + d) \in DSInfo
         /\ rows - d \in Nat \ {0}
         /\ NextCursor(base, rows, d) \in d + 1 .. rows
<1>1. InfoAt(base + d) \in DSInfo
  BY DEF InfoAt, DSInfo, LayoutUsable
<1>2. rows - d \in Nat \ {0}
  OBVIOUS
<1>3. IterationRows(InfoAt(base + d), rows - d) \in 1 .. rows - d
  BY <1>1, <1>2, IterationProgress
<1> QED
  BY <1>1, <1>2, <1>3 DEF NextCursor

LEMMA CursorPositionsClosed ==
  ASSUME LayoutUsable, NEW base \in Nat, NEW rows \in Nat
  PROVE  /\ CursorPositions(base, rows) \subseteq 0 .. rows
         /\ HoldsCursors(CursorPositions(base, rows), base, rows)
<1>1. CursorPositions(base, rows) \subseteq 0 .. rows
  BY DEF CursorPositions
<1>2. 0 \in CursorPositions(base, rows)
  BY DEF CursorPositions, HoldsCursors
<1>3. ASSUME NEW d \in CursorPositions(base, rows), d < rows
      PROVE  NextCursor(base, rows, d) \in CursorPositions(base, rows)
  <2>1. NextCursor(base, rows, d) \in 0 .. rows
    BY <1>1, <1>3, IterationAdvances
  <2>2. ASSUME NEW S \in SUBSET (0 .. rows), HoldsCursors(S, base, rows)
        PROVE  NextCursor(base, rows, d) \in S
    BY <1>3, <2>2 DEF CursorPositions, HoldsCursors
  <2> QED
    BY <2>1, <2>2 DEF CursorPositions
<1> QED
  BY <1>1, <1>2, <1>3 DEF HoldsCursors

(* The smallest such set is part of every other.                           *)
LEMMA CursorPositionsLeast ==
  ASSUME NEW base, NEW rows, NEW S \in SUBSET (0 .. rows), HoldsCursors(S, base, rows)
  PROVE  CursorPositions(base, rows) \subseteq S
BY DEF CursorPositions

(* An iteration ends where the next one begins: no cursor position lies    *)
(* inside another one's iteration.                                         *)
LEMMA IterationsFollowOneAnother ==
  ASSUME LayoutUsable, NEW base \in Nat, NEW rows \in Nat,
         NEW d \in CursorPositions(base, rows), NEW e \in CursorPositions(base, rows),
         d < e
  PROVE  NextCursor(base, rows, d) <= e
<1> DEFINE P == CursorPositions(base, rows)
           next(c) == NextCursor(base, rows, c)
           Good == {c \in P : \A b \in P : b < c => next(b) <= c}
<1>1. P \subseteq 0 .. rows /\ 0 \in P /\ \A c \in P : c < rows => next(c) \in P
  BY CursorPositionsClosed DEF HoldsCursors
<1>2. \A c \in P : c < rows => next(c) \in c + 1 .. rows
  BY <1>1, IterationAdvances
<1> HIDE DEF P, next
<1>3. ASSUME NEW c \in Good, c < rows
      PROVE  \A b \in P : b <= c \/ next(c) <= b
  <2> DEFINE S == {b \in P : b <= c \/ next(c) <= b}
  <2>1. 0 \in S
    BY <1>1, <1>3
  <2>2. ASSUME NEW b \in S, b < rows PROVE next(b) \in S
    <3>1. next(b) \in P /\ next(b) \in b + 1 .. rows /\ b \in P
      BY <1>1, <1>2, <2>2
    <3>2. CASE b < c
      BY <1>1, <3>1, <3>2
    <3>3. CASE b = c
      BY <1>1, <3>1, <3>3
    <3>4. CASE next(c) <= b
      BY <1>1, <1>2, <1>3, <3>1, <3>4
    <3> QED
      BY <1>1, <3>1, <3>2, <3>3, <3>4
  <2>3. S \in SUBSET (0 .. rows)
    BY <1>1
  <2> HIDE DEF S
  <2>4. P \subseteq S
    BY <2>1, <2>2, <2>3, CursorPositionsLeast DEF HoldsCursors, P, next
  <2> QED
    BY <2>4 DEF S
<1>4. 0 \in Good
  BY <1>1
<1>5. ASSUME NEW c \in Good, c < rows
      PROVE  next(c) \in Good
  <2>1. next(c) \in P /\ next(c) \in c + 1 .. rows /\ c \in P
    BY <1>1, <1>2, <1>5
  <2>2. ASSUME NEW b \in P, b < next(c)
        PROVE  next(b) <= next(c)
    <3>1. b <= c
      BY <1>1, <1>3, <1>5, <2>1, <2>2
    <3>2. CASE b < c
      <4>1. next(b) <= c
        BY <1>5, <3>2
      <4>2. b < rows
        BY <1>1, <1>5, <3>2
      <4>3. next(b) \in b + 1 .. rows
        BY <1>2, <4>2
      <4> QED
        BY <1>1, <2>1, <4>1, <4>3
    <3>3. CASE b = c
      BY <1>1, <2>1, <3>3
    <3> QED
      BY <1>1, <3>1, <3>2, <3>3
  <2> QED
    BY <2>1, <2>2
<1>6. Good \in SUBSET (0 .. rows)
  BY <1>1
<1> HIDE DEF Good
<1>7. P \subseteq Good
  BY <1>4, <1>5, <1>6, CursorPositionsLeast DEF HoldsCursors, P, next
<1> QED
  BY <1>7 DEF Good, P, next

(* Every row belongs to one of the iterations.                             *)
LEMMA IterationsCover ==
  ASSUME LayoutUsable, NEW base \in Nat, NEW rows \in Nat,
         NEW x \in Nat, x < rows
  PROVE  \E d \in CursorPositions(base, rows) :
           d <= x /\ x < NextCursor(base, rows, d)
<1> DEFINE P == CursorPositions(base, rows)
           next(c) == NextCursor(base, rows, c)
<1>1. P \subseteq 0 .. rows /\ 0 \in P /\ \A c \in P : c < rows => next(c) \in P
  BY CursorPositionsClosed DEF HoldsCursors
<1>2. \A c \in P : c < rows => next(c) \in c + 1 .. rows
  BY <1>1, IterationAdvances
<1> HIDE DEF P, next
<1> SUFFICES ASSUME \A d \in P : d <= x => next(d) <= x
             PROVE  FALSE
  <2>1. ASSUME NEW d \in P, d <= x, ~ (next(d) <= x)
        PROVE  x < next(d)
    BY <1>1, <1>2, <2>1
  <2> QED
    BY <2>1 DEF P, next
<1> DEFINE Distances == {n \in 0 .. x : x - n \in P}
<1>3. x \in Distances /\ Distances \in SUBSET Nat
  BY <1>1
<1>4. PICK n \in Distances : \A m \in Distances : n <= m
  BY <1>3, LeastElement
<1>5. x - n \in P /\ n \in 0 .. x
  OBVIOUS
<1>6. next(x - n) \in P /\ next(x - n) \in (x - n) + 1 .. rows /\ next(x - n) <= x
  BY <1>1, <1>2, <1>5
<1>7. x - next(x - n) \in 0 .. x /\ x - (x - next(x - n)) = next(x - n)
  BY <1>5, <1>6
<1>8. x - next(x - n) \in Distances
  BY <1>6, <1>7
<1>9. x - next(x - n) < n
  BY <1>5, <1>6
<1> QED
  BY <1>4, <1>5, <1>7, <1>8, <1>9

-----------------------------------------------------------------------------
(* The transfers, in terms of the iterations.                              *)

LEMMA LoopFacts ==
  ASSUME IInv, NEW r \in Ranks, InLoop(r)
  PROVE  /\ LayoutUsable
         /\ extent \in Nat /\ done[r] \in Nat /\ threshold[r] \in Nat
         /\ done[r] <= threshold[r]
         /\ BaseOf(r) \in Nat
         /\ extent = BaseOf(r) + threshold[r]
         /\ total[r] = BaseOf(r) + done[r]
         /\ Info(r) = InfoAt(BaseOf(r) + done[r])
         /\ file[r] \in Files
         /\ sizes \in [Files -> InputSizes]
         /\ \A s \in Ranks : InLoop(s) =>
              /\ file[s] = file[r]
              /\ threshold[s] = threshold[r]
              /\ BaseOf(s) = BaseOf(r)
<1>1. /\ extent \in Nat /\ done[r] \in Nat /\ threshold[r] \in Nat /\ total[r] \in Nat
      /\ sizes \in [Files -> InputSizes]
  BY DEF IInv, TypeOK
<1>2. /\ layout # NoLayout /\ done[r] <= threshold[r] /\ threshold[r] <= extent
      /\ total[r] - done[r] = extent - threshold[r] /\ file[r] \in Files
  BY DEF IInv, Anchored
<1>3. LayoutUsable
  BY <1>2, LayoutFacts DEF LayoutUsable
<1>4. /\ BaseOf(r) \in Nat /\ extent = BaseOf(r) + threshold[r]
      /\ total[r] = BaseOf(r) + done[r]
  BY <1>1, <1>2 DEF BaseOf
<1>5. Info(r) = InfoAt(BaseOf(r) + done[r])
  BY <1>4 DEF Info, InfoAt
<1>6. ASSUME NEW s \in Ranks, InLoop(s)
      PROVE  file[s] = file[r] /\ threshold[s] = threshold[r] /\ BaseOf(s) = BaseOf(r)
  <2>1. file[s] = file[r] /\ threshold[s] = threshold[r]
    BY <1>6 DEF IInv, Phases
  <2> QED
    BY <2>1 DEF BaseOf
<1> QED
  BY <1>1, <1>2, <1>3, <1>4, <1>5, <1>6

(* The rank has in hand the slice of its current iteration.                *)
LEMMA TransferFacts ==
  ASSUME IInv, NEW r \in Ranks, Transferring(r)
  PROVE  /\ InLoop(r) /\ done[r] < threshold[r]
         /\ numerology[r].rows_to_write_this_iteration =
              IterationRows(InfoAt(BaseOf(r) + done[r]), threshold[r] - done[r])
         /\ \A row \in Target(r) :
              /\ row \in 0 .. extent - 1
              /\ BaseOf(r) + done[r] <= row
              /\ row < BaseOf(r) + NextCursor(BaseOf(r), threshold[r], done[r])
              /\ InSlice(InfoAt(BaseOf(r) + done[r]), threshold[r] - done[r], r,
                         row - (BaseOf(r) + done[r]))
         /\ \A x \in 0 .. threshold[r] - 1 - done[r] :
              InSlice(InfoAt(BaseOf(r) + done[r]), threshold[r] - done[r], r, x)
                => BaseOf(r) + done[r] + x \in Target(r)
         /\ At(r, "write") =>
              \A row \in Target(r) : Source(r, row) = <<file[r], row - BaseOf(r)>>
<1> DEFINE b == BaseOf(r)
           d == done[r]
           t == threshold[r]
           info == InfoAt(b + d)
           off == Offset(info, t - d, r)
           k == RankRows(info, t - d, r)
           i == IterationRows(info, t - d)
           n == numerology[r]
<1>1. InLoop(r) /\ d < t /\ n = RowNumerologyOf(Info(r), d, t, r)
  BY DEF IInv, PlansCurrent
<1>2. /\ LayoutUsable /\ b \in Nat /\ d \in Nat /\ t \in Nat
      /\ extent = b + t /\ total[r] = b + d /\ Info(r) = info
  BY <1>1, LoopFacts
<1>3. info \in DSInfo /\ t - d \in Nat \ {0} /\ NextCursor(b, t, d) \in d + 1 .. t
  BY <1>1, <1>2, IterationAdvances
<1>4. NextCursor(b, t, d) = d + i
  BY DEF NextCursor
<1>5. info.n_rows_written_total = b + d
  BY DEF InfoAt
<1>6. /\ n.rows_to_write_this_iteration = i
      /\ n.rows_to_write_this_rank = k
      /\ n.input_start_row_this_rank = d + off
      /\ n.output_start_row_this_rank = (b + d) + off
  BY <1>1, <1>2, <1>5 DEF RowNumerologyOf
<1>7. k \in Nat /\ off \in Int /\ i \in Nat
  BY <1>3, RankRowsFitBuffer, ChunkedInterval, IterationProgress
<1>8. k > 0 => off \in Nat /\ off + k <= i
  BY <1>3, RankSliceInIteration
<1>9. \A row : row \in Target(r) <=>
        /\ row \in 0 .. extent - 1
        /\ (b + d) + off <= row
        /\ row < (b + d) + off + k
  BY <1>6 DEF Target
<1>10. At(r, "write") => \A row : Source(r, row) = <<file[r], (d + off) + (row - ((b + d) + off))>>
  <2> SUFFICES ASSUME At(r, "write"), NEW row
               PROVE  Source(r, row) = <<file[r], (d + off) + (row - ((b + d) + off))>>
    OBVIOUS
  <2>1. buffer[r] = SliceOf(r)
    BY DEF IInv, PlansCurrent
  <2>2. buffer[r].file = file[r] /\ buffer[r].first = d + off
    BY <1>6, <2>1 DEF SliceOf
  <2> QED
    BY <1>6, <2>2 DEF Source
<1>11. \A x : InSlice(info, t - d, r, x) <=> off <= x /\ x < off + k
  BY DEF InSlice
<1> HIDE DEF b, d, t, info, off, k, i, n
<1>12. \A row \in Target(r) :
         /\ row \in 0 .. extent - 1
         /\ b + d <= row
         /\ row < b + NextCursor(b, t, d)
  <2> SUFFICES ASSUME NEW row \in Target(r)
               PROVE  /\ row \in 0 .. extent - 1
                      /\ b + d <= row
                      /\ row < b + NextCursor(b, t, d)
    OBVIOUS
  <2>1. row \in 0 .. extent - 1 /\ (b + d) + off <= row /\ row < (b + d) + off + k
    BY <1>9
  <2>2. k > 0
    BY <1>2, <1>7, <2>1
  <2> QED
    BY <1>2, <1>4, <1>7, <1>8, <2>1, <2>2
<1>13. \A x \in 0 .. t - 1 - d : InSlice(info, t - d, r, x) => b + d + x \in Target(r)
  BY <1>2, <1>7, <1>9, <1>11
<1>14. \A row \in Target(r) : InSlice(info, t - d, r, row - (b + d))
  <2> SUFFICES ASSUME NEW row \in Target(r)
               PROVE  InSlice(info, t - d, r, row - (b + d))
    OBVIOUS
  <2>1. row \in Nat /\ (b + d) + off <= row /\ row < (b + d) + off + k
    BY <1>2, <1>9
  <2>2. off <= row - (b + d) /\ row - (b + d) < off + k
    BY <1>2, <1>7, <2>1
  <2> QED
    BY <1>11, <2>2
<1>15. At(r, "write") => \A row \in Target(r) : Source(r, row) = <<file[r], row - b>>
  <2> SUFFICES ASSUME At(r, "write"), NEW row \in Target(r)
               PROVE  Source(r, row) = <<file[r], row - b>>
    OBVIOUS
  <2>1. row \in Int
    BY <1>2, <1>12
  <2>2. (d + off) + (row - ((b + d) + off)) = row - b
    BY <1>2, <1>7, <2>1
  <2> QED
    BY <1>10, <2>2
<1> QED
  BY <1>1, <1>6, <1>12, <1>13, <1>14, <1>15 DEF b, d, t, info, i, n

(* What H5Dwrite leaves in the output: the writers' rows in their places,  *)
(* and everything else as it was.                                          *)
LEMMA WriteInPlace ==
  ASSUME IInv, RowsInv, NEW writers \in SUBSET Ranks,
         \A r \in writers : At(r, "write"), Put(writers)
  PROVE  /\ DOMAIN output' = 0 .. extent - 1
         /\ \A row \in 0 .. extent - 1 :
              \/ /\ \A r \in writers : row \notin Target(r)
                 /\ output'[row] = output[row]
              \/ \E r \in writers :
                   /\ row \in Target(r)
                   /\ output'[row] = <<file[r], row - BaseOf(r)>>
                   /\ output'[row] \in InputRows
                   /\ IsPlaceOf(row, output'[row])
<1>1. output' = [row \in 0 .. extent - 1 |->
                   IF \E r \in writers : row \in Target(r)
                   THEN Source(CHOOSE r \in writers : row \in Target(r), row)
                   ELSE output[row]]
  BY DEF Put
<1>2. ASSUME NEW r \in writers, NEW row \in Target(r)
      PROVE  /\ Source(r, row) = <<file[r], row - BaseOf(r)>>
             /\ Source(r, row) \in InputRows
             /\ IsPlaceOf(row, Source(r, row))
  <2>1. Transferring(r) /\ At(r, "write") /\ r \in Ranks
    OBVIOUS
  <2>2. /\ InLoop(r) /\ done[r] < threshold[r]
        /\ row \in 0 .. extent - 1 /\ BaseOf(r) + done[r] <= row
        /\ Source(r, row) = <<file[r], row - BaseOf(r)>>
    BY <2>1, TransferFacts
  <2>3. /\ BaseOf(r) \in Nat /\ done[r] \in Nat /\ threshold[r] \in Nat
        /\ extent = BaseOf(r) + threshold[r] /\ file[r] \in Files
        /\ sizes \in [Files -> InputSizes]
    BY <2>1, <2>2, LoopFacts
  <2>4. threshold[r] <= sizes[file[r]] /\ BaseOf(r) = Start[file[r]]
    BY <2>1, <2>2, <2>3 DEF RowsInv, AnchoredInInputs
  <2>5. sizes[file[r]] \in Nat
    BY <2>3, SizesAreNat DEF Files
  <2>6. row - BaseOf(r) \in Nat /\ row - BaseOf(r) < sizes[file[r]]
    BY <2>2, <2>3, <2>4, <2>5
  <2>7. row = Start[file[r]] + (row - BaseOf(r))
    BY <2>2, <2>3, <2>4
  <2>8. <<file[r], row - BaseOf(r)>> \in InputRows
    BY <2>3, <2>6 DEF InputRows
  <2>9. IsPlaceOf(row, <<file[r], row - BaseOf(r)>>)
    BY <2>6, <2>7 DEF IsPlaceOf
  <2> QED
    BY <2>2, <2>8, <2>9
<1>3. ASSUME NEW row \in 0 .. extent - 1
      PROVE  \/ /\ \A r \in writers : row \notin Target(r)
                /\ output'[row] = output[row]
             \/ \E r \in writers :
                  /\ row \in Target(r)
                  /\ output'[row] = <<file[r], row - BaseOf(r)>>
                  /\ output'[row] \in InputRows
                  /\ IsPlaceOf(row, output'[row])
  <2>1. CASE \A r \in writers : row \notin Target(r)
    BY <1>1, <2>1
  <2>2. CASE \E r \in writers : row \in Target(r)
    <3> DEFINE w == CHOOSE r \in writers : row \in Target(r)
    <3>1. w \in writers /\ row \in Target(w)
      BY <2>2
    <3>2. output'[row] = Source(w, row)
      BY <1>1, <2>2
    <3> HIDE DEF w
    <3> QED
      BY <1>2, <3>1, <3>2
  <2> QED
    BY <2>1, <2>2
<1> QED
  BY <1>1, <1>3

-----------------------------------------------------------------------------
(* The invariant of the rows.                                              *)

LEMMA StartKept == UNCHANGED sizes => UNCHANGED Start
BY Zenon DEF Start

(* What the rows' invariant speaks of when neither the inputs nor the      *)
(* layout nor the extent change.                                           *)
LEMMA PositionsKept ==
  ASSUME UNCHANGED <<inputs, layout, extent, threshold>>
  PROVE  /\ \A r : BaseOf(r)' = BaseOf(r)
         /\ \A base, rows : CursorPositions(base, rows)' = CursorPositions(base, rows)
         /\ \A written : InfoAt(written)' = InfoAt(written)
         /\ \A row, source : IsPlaceOf(row, source)' = IsPlaceOf(row, source)
         /\ \A f : EndsBefore(f)' = EndsBefore(f)
         /\ \A n : Appendable(n)' = Appendable(n)
<1>1. UNCHANGED Start
  BY StartKept
<1>2. \A written : InfoAt(written)' = InfoAt(written)
  BY DEF InfoAt
<1>3. \A base, rows : CursorPositions(base, rows)' = CursorPositions(base, rows)
  BY <1>2 DEF CursorPositions, HoldsCursors, NextCursor
<1>4. \A row, source : IsPlaceOf(row, source)' = IsPlaceOf(row, source)
  BY <1>1 DEF IsPlaceOf
<1>5. \A f : EndsBefore(f)' = EndsBefore(f)
  BY <1>1 DEF EndsBefore
<1>6. \A n : Appendable(n)' = Appendable(n)
  BY DEF Appendable, Storable
<1> QED
  BY <1>2, <1>3, <1>4, <1>5, <1>6 DEF BaseOf

(* A rank stays in the loop, or outside of it.                             *)
SamePlaces ==
  \A r \in Ranks :
    /\ InLoop(r)' <=> InLoop(r)
    /\ (pc[r] \in {"close", "closed"})' <=> pc[r] \in {"close", "closed"}

(* Steps that move no rank into or out of the loop, and no cursor.         *)
LEMMA StillRowsInv ==
  ASSUME RowsInv, SamePlaces,
         UNCHANGED <<inputs, layout, extent, output, file, done, threshold>>
  PROVE  RowsInv'
<1>1. \A r \in Ranks : Upcoming(r)' = Upcoming(r)
  BY DEF SamePlaces, Upcoming
<1>2. \A r, s \in Ranks : Progress(r, s)' = Progress(r, s)
  BY DEF SamePlaces, Progress
<1>3. \A r \in Ranks, f \in Files : Passed(r, f)' <=> Passed(r, f)
  BY DEF SamePlaces, Passed
<1>4. \A r \in Ranks : InLoop(r)' <=> InLoop(r)
  BY DEF SamePlaces
<1> HIDE DEF InLoop
<1>5. SameIterations'
  BY <1>4, PositionsKept DEF RowsInv, SameIterations
<1>6. Deposited'
  BY <1>2, <1>4, PositionsKept DEF RowsInv, Deposited
<1>7. AnchoredInInputs'
  BY <1>1, <1>4, PositionsKept, StartKept DEF RowsInv, AnchoredInInputs
<1>11. NothingAhead'
  BY <1>2, <1>4, PositionsKept DEF RowsInv, NothingAhead
<1>8. RowsInPlace'
  BY PositionsKept, StartKept DEF RowsInv, RowsInPlace
<1>9. LossesAreShortTails'
  BY <1>3, StartKept DEF RowsInv, LossesAreShortTails
<1>10. ShapesMatch'
  BY <1>1, PositionsKept DEF RowsInv, ShapesMatch
<1> QED
  BY <1>5, <1>6, <1>7, <1>8, <1>9, <1>10, <1>11 DEF RowsInv

(* The writers deposit the rows of their current iteration.                *)
LEMMA WriteRowsInv ==
  ASSUME IInv, RowsInv, NEW writers \in SUBSET Ranks,
         \A r \in writers : At(r, "write"),
         Put(writers), UpdateCursors(writers),
         pc' = [r \in Ranks |-> IF r \in writers THEN "loop" ELSE pc[r]],
         UNCHANGED <<inputs, layout, extent, file, threshold, numerology, buffer>>
  PROVE  RowsInv'
<1>1. \A r \in Ranks : /\ InLoop(r)' <=> InLoop(r)
                      /\ (pc[r] \in {"close", "closed"})' <=> pc[r] \in {"close", "closed"}
  OBVIOUS
<1>2. /\ \A r \in Ranks : Upcoming(r)' = Upcoming(r)
      /\ \A r \in Ranks, f \in Files : Passed(r, f)' <=> Passed(r, f)
  BY <1>1 DEF Upcoming, Passed
<1>3. ASSUME NEW r \in writers
      PROVE  /\ InLoop(r) /\ done[r] < threshold[r]
             /\ done'[r] = NextCursor(BaseOf(r), threshold[r], done[r])
  <2>1. Transferring(r)
    OBVIOUS
  <2>2. /\ InLoop(r) /\ done[r] < threshold[r]
        /\ numerology[r].rows_to_write_this_iteration =
             IterationRows(InfoAt(BaseOf(r) + done[r]), threshold[r] - done[r])
    BY <2>1, TransferFacts
  <2>3. done'[r] = done[r] + numerology[r].rows_to_write_this_iteration
    BY DEF UpdateCursors, Advance
  <2> QED
    BY <2>2, <2>3 DEF NextCursor
<1>4. \A r \in Ranks : r \notin writers => done'[r] = done[r]
  BY DEF UpdateCursors, Advance
<1>5. output \in [0 .. extent - 1 -> InputRows \cup {Unwritten}]
  BY DEF IInv, TypeOK
<1>6. ASSUME NEW row \in 0 .. extent - 1, output'[row] = Unwritten
      PROVE  output[row] = Unwritten
  BY <1>6, WriteInPlace, UnwrittenAssumption
<1>7. SameIterations'
  <2> SUFFICES ASSUME NEW r \in Ranks, InLoop(r)
               PROVE  done'[r] \in CursorPositions(BaseOf(r), threshold[r])
    BY <1>1, PositionsKept DEF SameIterations
  <2>1. done[r] \in CursorPositions(BaseOf(r), threshold[r])
    BY DEF RowsInv, SameIterations
  <2>2. CASE r \in writers
    <3>1. HoldsCursors(CursorPositions(BaseOf(r), threshold[r]), BaseOf(r), threshold[r])
      BY LoopFacts, CursorPositionsClosed
    <3> QED
      BY <1>3, <2>1, <2>2, <3>1 DEF HoldsCursors
  <2>3. CASE r \notin writers
    BY <1>4, <2>1, <2>3
  <2> QED
    BY <2>2, <2>3
<1>8. Deposited'
  <2> SUFFICES ASSUME NEW r \in Ranks, NEW s \in Ranks, InLoop(r),
                      NEW d \in CursorPositions(BaseOf(r), threshold[r]),
                      d < Progress(r, s)',
                      NEW x \in 0 .. threshold[r] - 1 - d,
                      InSlice(InfoAt(BaseOf(r) + d), threshold[r] - d, s, x)
               PROVE  output'[BaseOf(r) + d + x] # Unwritten
    BY <1>1, PositionsKept DEF Deposited
  <2>1. /\ LayoutUsable /\ BaseOf(r) \in Nat /\ threshold[r] \in Nat
        /\ extent = BaseOf(r) + threshold[r]
    BY LoopFacts
  <2>2. d \in 0 .. threshold[r]
    BY <2>1, CursorPositionsClosed
  <2>3. BaseOf(r) + d + x \in 0 .. extent - 1
    BY <2>1, <2>2
  <2>4. CASE d < Progress(r, s)
    <3>1. output[BaseOf(r) + d + x] # Unwritten
      BY <2>4 DEF RowsInv, Deposited
    <3> QED
      BY <1>6, <2>3, <3>1
  <2>5. CASE ~ (d < Progress(r, s))
    <3>1. InLoop(s) /\ s \in writers
      <4>1. CASE ~ InLoop(s)
        BY <1>1, <2>5, <4>1 DEF Progress
      <4>2. CASE InLoop(s) /\ s \notin writers
        BY <1>1, <1>4, <2>5, <4>2 DEF Progress
      <4> QED
        BY <4>1, <4>2
    <3>2. /\ BaseOf(s) = BaseOf(r) /\ threshold[s] = threshold[r] /\ done[s] \in Nat
      BY <3>1, LoopFacts
    <3>3. done[s] <= d /\ d < NextCursor(BaseOf(r), threshold[r], done[s])
      BY <1>1, <1>3, <2>2, <2>5, <3>1, <3>2 DEF Progress
    <3>4. done[s] \in CursorPositions(BaseOf(r), threshold[r])
      BY <3>1, <3>2 DEF RowsInv, SameIterations
    <3>5. ~ (done[s] < d)
      <4> SUFFICES ASSUME done[s] < d PROVE FALSE
        OBVIOUS
      <4>1. NextCursor(BaseOf(r), threshold[r], done[s]) <= d
        BY <2>1, <3>4, IterationsFollowOneAnother
      <4>2. NextCursor(BaseOf(r), threshold[r], done[s]) \in Nat
        <5>1. done[s] < threshold[r]
          BY <2>1, <2>2, <3>2
        <5> QED
          BY <2>1, <3>2, <5>1, IterationAdvances
      <4> QED
        BY <2>2, <3>3, <4>1, <4>2
    <3>6. d = done[s]
      BY <2>2, <3>2, <3>3, <3>5
    <3>7. BaseOf(r) + d + x \in Target(s)
      <4>1. Transferring(s)
        BY <3>1
      <4> QED
        BY <3>2, <3>6, <4>1, TransferFacts
    <3> QED
      BY <2>3, <3>1, <3>7, WriteInPlace, UnwrittenAssumption
  <2> QED
    BY <2>4, <2>5
<1>9. AnchoredInInputs'
  <2>1. \A r \in Ranks : InLoop(r)' <=> InLoop(r)
    BY <1>1
  <2> HIDE DEF InLoop
  <2> QED
    BY <1>2, <2>1, PositionsKept, StartKept DEF RowsInv, AnchoredInInputs
<1>10. RowsInPlace'
  <2>1. ASSUME NEW row \in DOMAIN output', output'[row] # Unwritten
        PROVE  IsPlaceOf(row, output'[row])
    <3>1. row \in 0 .. extent - 1
      BY WriteInPlace
    <3> QED
      BY <1>5, <2>1, <3>1, WriteInPlace DEF RowsInv, RowsInPlace
  <2>2. ASSUME NEW row \in DOMAIN output', output'[row] # Unwritten
        PROVE  IsPlaceOf(row, output[row])'
    BY <2>1, <2>2, StartKept DEF IsPlaceOf
  <2>3. (extent <= Start[NFiles + 1])'
    BY StartKept DEF RowsInv, RowsInPlace
  <2> QED
    BY <2>2, <2>3 DEF RowsInPlace
<1>11. LossesAreShortTails'
  <2> SUFFICES ASSUME NEW f \in Files, \A r \in Ranks : Passed(r, f),
                      NEW i \in 0 .. sizes[f] - 1,
                      Start[f] + i \in DOMAIN output', output'[Start[f] + i] = Unwritten
               PROVE  \/ sizes[f] - i < layout.chunk_rows
                      \/ MaxRows >= 0 /\ MaxRows - (Start[f] + i) < layout.chunk_rows
    BY <1>2, StartKept DEF LossesAreShortTails
  <2>1. Start[f] + i \in 0 .. extent - 1
    BY WriteInPlace
  <2>2. output[Start[f] + i] = Unwritten /\ Start[f] + i \in DOMAIN output
    BY <1>5, <1>6, <2>1
  <2> QED
    BY <2>2 DEF RowsInv, LossesAreShortTails
<1>12. ShapesMatch'
  BY <1>2, PositionsKept DEF RowsInv, ShapesMatch
<1>13. NothingAhead'
  <2> DEFINE Slice(r, s, d, row) ==
               /\ BaseOf(r) + d <= row
               /\ InSlice(InfoAt(BaseOf(r) + d), threshold[r] - d, s, row - (BaseOf(r) + d))
  <2> SUFFICES ASSUME NEW r \in Ranks, InLoop(r),
                      NEW row \in DOMAIN output', output'[row] # Unwritten,
                      ~ (row < BaseOf(r))
               PROVE  \E s \in Ranks, d \in CursorPositions(BaseOf(r), threshold[r]) :
                        d < Progress(r, s)' /\ Slice(r, s, d, row)
    BY <1>1, PositionsKept DEF NothingAhead
  <2>1. /\ LayoutUsable /\ BaseOf(r) \in Nat /\ threshold[r] \in Nat
        /\ CursorPositions(BaseOf(r), threshold[r]) \subseteq 0 .. threshold[r]
    BY LoopFacts, CursorPositionsClosed
  <2>2. row \in 0 .. extent - 1
    BY WriteInPlace
  <2>3. CASE output[row] # Unwritten
    <3>1. PICK s \in Ranks, d \in CursorPositions(BaseOf(r), threshold[r]) :
            d < Progress(r, s) /\ Slice(r, s, d, row)
      BY <1>5, <2>2, <2>3 DEF RowsInv, NothingAhead
    <3> HIDE DEF Slice
    <3>2. d < Progress(r, s)'
      <4>1. CASE s \in writers
        <5>1. /\ done[s] \in Nat /\ done[s] < threshold[s] /\ threshold[s] = threshold[r]
              /\ BaseOf(s) = BaseOf(r) /\ InLoop(s)
              /\ done'[s] = NextCursor(BaseOf(s), threshold[s], done[s])
          BY <1>3, <4>1, LoopFacts
        <5>2. done'[s] \in done[s] + 1 .. threshold[r]
          BY <2>1, <5>1, IterationAdvances
        <5>3. Progress(r, s) = done[s] /\ Progress(r, s)' = done'[s]
          BY <1>1, <5>1 DEF Progress
        <5> QED
          BY <2>1, <3>1, <5>1, <5>2, <5>3
      <4>2. CASE s \notin writers
        BY <1>1, <1>4, <3>1, <4>2 DEF Progress
      <4> QED
        BY <4>1, <4>2
    <3> QED
      BY <3>1, <3>2
  <2>4. CASE output[row] = Unwritten
    <3>1. PICK s \in writers : row \in Target(s)
      BY <2>2, <2>4, WriteInPlace
    <3>2. Transferring(s) /\ s \in Ranks
      BY <3>1
    <3>3. /\ InLoop(s) /\ BaseOf(s) = BaseOf(r) /\ threshold[s] = threshold[r]
          /\ done[s] \in Nat
      BY <3>2, LoopFacts
    <3>4. Slice(r, s, done[s], row)
      BY <3>1, <3>2, <3>3, TransferFacts
    <3>5. done[s] \in CursorPositions(BaseOf(r), threshold[r])
      BY <3>2, <3>3 DEF RowsInv, SameIterations
    <3>6. done[s] < Progress(r, s)'
      <4>1. done'[s] = NextCursor(BaseOf(s), threshold[s], done[s]) /\ done[s] < threshold[r]
        BY <1>3, <3>1, <3>3
      <4>2. done'[s] \in done[s] + 1 .. threshold[r]
        BY <2>1, <3>3, <4>1, IterationAdvances
      <4>3. Progress(r, s)' = done'[s]
        BY <1>1, <3>3 DEF Progress
      <4> QED
        BY <2>1, <3>3, <4>2, <4>3
    <3> HIDE DEF Slice
    <3> QED
      BY <3>2, <3>4, <3>5, <3>6
  <2> QED
    BY <2>3, <2>4
<1> QED
  BY <1>7, <1>8, <1>9, <1>10, <1>11, <1>12, <1>13 DEF RowsInv

(* When all ranks in the loop have come to the end of the input, all of    *)
(* its rows are in the output, but for a tail shorter than a chunk that    *)
(* the buffer has no spare rows for.                                       *)
LEMMA AllDeposited ==
  ASSUME IInv, RowsInv, NEW r \in Ranks, InLoop(r),
         \A s \in Ranks : InLoop(s) => done[s] = threshold[s],
         NEW x \in 0 .. threshold[r] - 1
  PROVE  \/ output[BaseOf(r) + x] # Unwritten
         \/ /\ threshold[r] - x < layout.chunk_rows
            /\ layout.buffer_size_rows % layout.chunk_rows # layout.chunk_rows - 1
<1> DEFINE b == BaseOf(r)
           t == threshold[r]
<1>1. /\ LayoutUsable /\ b \in Nat /\ t \in Nat
      /\ \A s \in Ranks : InLoop(s) => threshold[s] = t
  BY LoopFacts
<1>2. PICK d \in CursorPositions(b, t) : d <= x /\ x < NextCursor(b, t, d)
  BY <1>1, IterationsCover
<1>3. d \in 0 .. t /\ d < t
  BY <1>1, <1>2, CursorPositionsClosed
<1> HIDE DEF b, t
<1> DEFINE info == InfoAt(b + d)
           y == x - d
<1>4. info \in DSInfo /\ t - d \in Nat \ {0} /\ NextCursor(b, t, d) \in d + 1 .. t
  BY <1>1, <1>3, IterationAdvances
<1>5. IterationRows(info, t - d) \in 1 .. t - d
  BY <1>4, IterationProgress
<1>6. NextCursor(b, t, d) = d + IterationRows(info, t - d)
  BY DEF NextCursor
<1>7. y \in 0 .. t - 1 - d /\ y < IterationRows(info, t - d) /\ b + d + y = b + x
  BY <1>1, <1>2, <1>3, <1>5, <1>6
<1>8. info.chunk_rows = layout.chunk_rows /\ info.buffer_size_rows = layout.buffer_size_rows
  BY DEF InfoAt
<1> HIDE DEF info, y
<1>9. CASE \E s \in Ranks : InSlice(info, t - d, s, y)
  <2>1. PICK s \in Ranks : InSlice(info, t - d, s, y)
    BY <1>9
  <2>2. Progress(r, s) = t
    BY <1>1 DEF Progress, t
  <2>3. output[b + d + y] # Unwritten
    BY <1>2, <1>3, <1>7, <2>1, <2>2 DEF RowsInv, Deposited, b, t, info
  <2> QED
    BY <1>7, <2>3 DEF b
<1>10. CASE /\ CompletesInput(info, t - d)
            /\ ~ ExtraFits(info, t - d)
            /\ y >= ChunkedRows(info, t - d)
  <2>1. TailRows(info, t - d) < info.chunk_rows
    BY <1>10 DEF CompletesInput
  <2>2. TailRows(info, t - d) = (t - d) - ChunkedRows(info, t - d)
    BY DEF TailRows
  <2>3. ChunkedRows(info, t - d) \in Nat /\ info.chunk_rows \in Nat
    BY <1>4, ChunkedRowsBounds DEF DSInfo
  <2>4. t - x < layout.chunk_rows
    BY <1>1, <1>3, <1>7, <1>8, <1>10, <2>1, <2>2, <2>3 DEF y
  <2>5. info.buffer_size_rows % info.chunk_rows # info.chunk_rows - 1
    BY <1>4, <1>10, SpareRowsFit
  <2> QED
    BY <1>8, <2>4, <2>5 DEF t
<1> QED
  BY <1>4, <1>7, <1>9, <1>10, RankSlicesCover

(* A rank that returns leaves the input complete or to others.             *)
LEMMA EndRowsInv ==
  ASSUME IInv, RowsInv, NEW r \in Ranks, EndInput(r)
  PROVE  RowsInv'
<1> DEFINE next == IF file[r] < NFiles THEN "enter" ELSE "close"
<1>1. /\ pc' = [pc EXCEPT ![r] = next] /\ pc[r] = "loop"
      /\ file' = [file EXCEPT ![r] = IF file[r] < NFiles THEN file[r] + 1 ELSE file[r]]
      /\ UNCHANGED <<inputs, layout, extent, output, total, done, threshold>>
  BY DEF EndInput
<1>2. InLoop(r)
  BY <1>1
<1>3. /\ pc \in [Ranks -> Locations] /\ file \in [Ranks -> Nat \ {0}]
      /\ output \in [0 .. extent - 1 -> InputRows \cup {Unwritten}]
  BY DEF IInv, TypeOK
<1>4. /\ pc'[r] = next /\ file'[r] = IF file[r] < NFiles THEN file[r] + 1 ELSE file[r]
      /\ \A s \in Ranks : s # r => pc'[s] = pc[s] /\ file'[s] = file[s]
  BY <1>1, <1>3
<1>5. /\ file[r] \in Nat /\ file[r] <= NFiles /\ NFiles \in Nat /\ file[r] \in Files
      /\ sizes \in [Files -> InputSizes]
  BY <1>2, LoopFacts, NFilesAssumption DEF Files
<1>6. done[r] = threshold[r]
  BY <1>2, LoopFacts DEF EndInput
<1>7. /\ ~ InLoop(r)'
      /\ \A s \in Ranks : s # r => (InLoop(s)' <=> InLoop(s))
  BY <1>4
<1>8. \A s \in Ranks : Upcoming(s)' = Upcoming(s)
  <2>1. Upcoming(r)' = file[r] + 1 /\ Upcoming(r) = file[r] + 1
    BY <1>2, <1>4, <1>5 DEF Upcoming
  <2>2. ASSUME NEW s \in Ranks, s # r PROVE Upcoming(s)' = Upcoming(s)
    BY <1>4, <2>2 DEF Upcoming
  <2> QED
    BY <2>1, <2>2
<1>9. UNCHANGED <<inputs, layout, extent, threshold>>
  BY <1>1
<1>10. SameIterations'
  <2> HIDE DEF InLoop
  <2> QED
    BY <1>1, <1>7, <1>9, PositionsKept DEF RowsInv, SameIterations
<1>17. ASSUME NEW p \in Ranks, InLoop(p)', NEW s \in Ranks
       PROVE  Progress(p, s)' = Progress(p, s)
  <2>1. p # r /\ InLoop(p)
    BY <1>7, <1>17
  <2>2. CASE s = r
    <3>1. Progress(p, r) = threshold[r] /\ Progress(p, r)' = threshold[p]
      BY <1>1, <1>2, <1>6, <1>7 DEF Progress
    <3>2. threshold[p] = threshold[r]
      BY <1>2, <2>1, LoopFacts
    <3> QED
      BY <2>2, <3>1, <3>2
  <2>3. CASE s # r
    BY <1>1, <1>7, <2>3 DEF Progress
  <2> QED
    BY <2>2, <2>3
<1>11. Deposited'
  <2> SUFFICES ASSUME NEW p \in Ranks, NEW s \in Ranks, InLoop(p)',
                      NEW d \in CursorPositions(BaseOf(p), threshold[p]),
                      d < Progress(p, s)',
                      NEW x \in 0 .. threshold[p] - 1 - d,
                      InSlice(InfoAt(BaseOf(p) + d), threshold[p] - d, s, x)
               PROVE  output[BaseOf(p) + d + x] # Unwritten
    BY <1>1, <1>9, PositionsKept DEF Deposited
  <2>1. p # r /\ InLoop(p)
    BY <1>7
  <2> QED
    BY <1>17, <2>1 DEF RowsInv, Deposited
<1>12. AnchoredInInputs'
  <2>1. \A s \in Ranks : EndsBefore(Upcoming(s))'
    BY <1>8, <1>9, PositionsKept DEF RowsInv, AnchoredInInputs
  <2>2. ASSUME NEW s \in Ranks, InLoop(s)'
        PROVE  (/\ threshold[s] <= sizes[file[s]]
                /\ threshold[s] = sizes[file[s]] \/ (MaxRows >= 0 /\ extent = MaxRows)
                /\ BaseOf(s) <= Start[file[s]]
                /\ threshold[s] > 0 => BaseOf(s) = Start[file[s]])'
    <3>1. s # r /\ InLoop(s)
      BY <1>7, <2>2
    <3>2. file'[s] = file[s]
      BY <1>4, <3>1
    <3> QED
      BY <1>1, <1>9, <3>1, <3>2, PositionsKept, StartKept DEF RowsInv, AnchoredInInputs
  <2> QED
    BY <2>1, <2>2 DEF AnchoredInInputs
<1>13. RowsInPlace'
  BY <1>1, <1>9, PositionsKept, StartKept DEF RowsInv, RowsInPlace
<1>14. LossesAreShortTails'
  <2> SUFFICES ASSUME NEW f \in Files, \A s \in Ranks : Passed(s, f)',
                      NEW i \in 0 .. sizes[f] - 1,
                      Start[f] + i \in DOMAIN output, output[Start[f] + i] = Unwritten
               PROVE  \/ sizes[f] - i < layout.chunk_rows
                      \/ MaxRows >= 0 /\ MaxRows - (Start[f] + i) < layout.chunk_rows
    BY <1>1, StartKept DEF LossesAreShortTails
  <2>1. CASE \A s \in Ranks : Passed(s, f)
    BY <2>1 DEF RowsInv, LossesAreShortTails
  <2>2. CASE ~ \A s \in Ranks : Passed(s, f)
    <3>1. \A s \in Ranks : s # r => Passed(s, f)
      BY <1>4 DEF Passed
    <3>2. ~ Passed(r, f)
      BY <2>2, <3>1
    <3>3. f = file[r]
      BY <1>2, <1>4, <1>5, <3>2 DEF Passed, Files
    <3>4. \A s \in Ranks : InLoop(s) => s = r
      <4> SUFFICES ASSUME NEW s \in Ranks, InLoop(s), s # r PROVE FALSE
        OBVIOUS
      <4>1. file[s] = file[r]
        BY <1>2, LoopFacts
      <4> QED
        BY <1>5, <3>1, <3>3, <4>1 DEF Passed
    <3>5. /\ extent \in Nat /\ threshold[r] \in Nat /\ BaseOf(r) \in Nat
          /\ extent = BaseOf(r) + threshold[r] /\ LayoutUsable
      BY <1>2, LoopFacts
    <3>6. /\ threshold[r] <= sizes[f]
          /\ threshold[r] = sizes[f] \/ (MaxRows >= 0 /\ extent = MaxRows)
          /\ BaseOf(r) <= Start[f]
          /\ threshold[r] > 0 => BaseOf(r) = Start[f]
      BY <1>2, <3>3 DEF RowsInv, AnchoredInInputs
    <3>7. sizes[f] \in Nat /\ Start[f] \in Nat /\ layout.chunk_rows \in Nat
      BY <1>5, <3>5, SizesAreNat, StartIsNat DEF Files, LayoutUsable
    <3>8. Start[f] + i \in 0 .. extent - 1
      BY <1>3
    <3> HIDE DEF Start
    <3>9. BaseOf(r) = Start[f] /\ i \in 0 .. threshold[r] - 1
      BY <3>5, <3>6, <3>7, <3>8
    <3>10. threshold[r] - i < layout.chunk_rows
      BY <1>2, <1>6, <3>4, <3>9, AllDeposited
    <3>11. CASE threshold[r] = sizes[f]
      BY <3>10, <3>11
    <3>12. CASE MaxRows >= 0 /\ extent = MaxRows
      <4>1. extent - (Start[f] + i) = threshold[r] - i
        BY <3>5, <3>7, <3>9
      <4> QED
        BY <3>10, <3>12, <4>1
    <3> QED
      BY <3>6, <3>11, <3>12
  <2> QED
    BY <2>1, <2>2
<1>15. ShapesMatch'
  BY <1>1, <1>8, <1>9, PositionsKept DEF RowsInv, ShapesMatch
<1>16. NothingAhead'
  <2>1. ASSUME NEW p \in Ranks, InLoop(p)' PROVE InLoop(p)
    BY <1>7, <2>1
  <2>2. \A p \in Ranks : InLoop(p)' => \A s \in Ranks : Progress(p, s)' = Progress(p, s)
    BY <1>17
  <2> HIDE DEF InLoop
  <2> QED
    BY <1>1, <1>9, <2>1, <2>2, PositionsKept DEF RowsInv, NothingAhead
<1> QED
  BY <1>10, <1>11, <1>12, <1>13, <1>14, <1>15, <1>16 DEF RowsInv

(* Creating and resizing: the new rows belong to the next input.           *)
LEMMA EnterRowsInv ==
  ASSUME IInv, RowsInv, AllAt("enter"), NEW r \in Ranks, Extend(r), EnterLoop,
         ShapesMatch',
         layout # NoLayout => UNCHANGED layout
  PROVE  RowsInv'
<1> DEFINE f == file[r]
           t == RowsThreshold(extent, sizes[f])
<1>1. \A s \in Ranks : total[s] = extent /\ file[s] = f /\ f \in Files
  BY DEF IInv, Anchored, Phases
<1>2. /\ extent \in Nat /\ sizes \in [Files -> InputSizes] /\ sizes[f] \in Nat
      /\ output \in [0 .. extent - 1 -> InputRows \cup {Unwritten}]
  BY <1>1, InputSizesAssumption DEF IInv, TypeOK
<1>3. t \in Nat /\ t <= sizes[f]
  BY <1>2, ThresholdBounds DEF IInv, TypeOK, MaxRowsRespected
<1>4. extent' = extent + t
  BY <1>1 DEF Extend
<1>5. /\ pc' = [s \in Ranks |-> "loop"]
      /\ done' = [s \in Ranks |-> 0]
      /\ threshold' = [s \in Ranks |-> t]
      /\ UNCHANGED <<inputs, file, total, numerology, buffer>>
  BY <1>1 DEF EnterLoop
<1>6. /\ \A s \in Ranks : InLoop(s)' /\ Upcoming(s)' = f + 1 /\ Upcoming(s) = f
      /\ \A s \in Ranks, g \in Files : /\ Passed(s, g)' <=> f > g
                                       /\ Passed(s, g) <=> f > g
  BY <1>1, <1>5 DEF Upcoming, Passed
<1>7. /\ f \in 1 .. NFiles /\ f \in 1 .. NFiles + 1 /\ f + 1 \in 1 .. NFiles + 1
      /\ NFiles \in Nat
  BY <1>1, NFilesAssumption DEF Files
<1>8. /\ Start[f + 1] = Start[f] + sizes[f] /\ Start[f] \in Nat
      /\ UNCHANGED Start
  BY <1>2, <1>5, <1>7, StartEquation, StartIsNat, StartKept
<1>9. EndsBefore(f)
  BY <1>6 DEF RowsInv, AnchoredInInputs
<1>10. MaxRows \in Int /\ (MaxRows >= 0 => extent <= MaxRows)
  BY OptionsAssumption DEF IInv, TypeOK, MaxRowsRespected
<1>11. \A s \in Ranks : BaseOf(s)' = extent
  BY <1>2, <1>3, <1>4, <1>5 DEF BaseOf
<1> HIDE DEF Start, f
(* The new end is that of the input, or the limit.                         *)
<1>12. /\ extent = Start[f] \/ (MaxRows >= 0 /\ extent = MaxRows /\ extent <= Start[f])
       /\ extent # Start[f] => t = 0
       /\ t = sizes[f] \/ (MaxRows >= 0 /\ extent + t = MaxRows)
       /\ \/ extent + t = Start[f + 1]
          \/ MaxRows >= 0 /\ extent + t = MaxRows /\ extent + t <= Start[f + 1]
  <2>1. extent = Start[f] \/ (MaxRows >= 0 /\ extent = MaxRows /\ extent <= Start[f])
    BY <1>9 DEF EndsBefore
  <2>2. CASE MaxRows < 0
    <3>1. t = sizes[f]
      BY <1>2, <1>10, <2>2 DEF RowsThreshold
    <3> QED
      BY <1>2, <1>8, <1>10, <2>1, <2>2, <3>1
  <2>3. CASE MaxRows >= 0
    <3>1. t = IF MaxRows - extent <= sizes[f] THEN MaxRows - extent ELSE sizes[f]
      BY <1>2, <1>10, <2>3 DEF RowsThreshold, Smaller
    <3> HIDE DEF t
    <3>2. Start[f] \in Nat /\ Start[f + 1] = Start[f] + sizes[f]
      BY <1>8
    <3>3. CASE MaxRows - extent <= sizes[f]
      <4>1. extent + t = MaxRows
        BY <1>2, <1>10, <3>1, <3>3
      <4>2. extent # Start[f] => t = 0
        BY <1>2, <1>10, <2>1, <2>3, <3>1, <3>3
      <4>3. extent + t <= Start[f + 1]
        BY <1>2, <1>10, <2>1, <2>3, <3>1, <3>2, <3>3, <4>1
      <4> QED
        BY <2>1, <2>3, <4>1, <4>2, <4>3
    <3>4. CASE ~ (MaxRows - extent <= sizes[f])
      <4>1. t = sizes[f] /\ extent = Start[f]
        BY <1>2, <1>10, <2>1, <2>3, <3>1, <3>4
      <4> QED
        BY <2>1, <3>2, <4>1
    <3> QED
      BY <3>3, <3>4
  <2> QED
    BY <1>10, <2>2, <2>3
<1> HIDE DEF t
<1>13. output' = [row \in 0 .. extent' - 1 |->
                    IF row < extent THEN output[row] ELSE Unwritten]
  BY DEF Extend
<1>14. SameIterations'
  <2>1. ASSUME NEW s \in Ranks
        PROVE  (done[s] \in CursorPositions(BaseOf(s), threshold[s]))'
    <3>1. done'[s] = 0 /\ threshold'[s] \in Nat
      BY <1>3, <1>5
    <3>2. (0 \in CursorPositions(BaseOf(s), threshold[s]))'
      BY <3>1 DEF CursorPositions, HoldsCursors
    <3> QED
      BY <3>1, <3>2
  <2> QED
    BY <2>1 DEF SameIterations
<1>15. Deposited'
  <2>1. \A p, s \in Ranks : Progress(p, s)' = 0
    BY <1>5, <1>6 DEF Progress
  <2>2. \A p \in Ranks : \A d \in CursorPositions(BaseOf(p), threshold[p])' : ~ (d < 0)
    BY <1>3, <1>5 DEF CursorPositions
  <2> QED
    BY <2>1, <2>2 DEF Deposited
<1>16. AnchoredInInputs'
  <2>1. ASSUME NEW s \in Ranks PROVE EndsBefore(Upcoming(s))'
    BY <1>4, <1>5, <1>6, <1>8, <1>12 DEF EndsBefore
  <2>2. ASSUME NEW s \in Ranks
        PROVE  (/\ threshold[s] <= sizes[file[s]]
                /\ threshold[s] = sizes[file[s]] \/ (MaxRows >= 0 /\ extent = MaxRows)
                /\ BaseOf(s) <= Start[file[s]]
                /\ threshold[s] > 0 => BaseOf(s) = Start[file[s]])'
    <3>1. /\ threshold'[s] = t /\ file'[s] = f /\ sizes' = sizes /\ Start' = Start
          /\ BaseOf(s)' = extent /\ extent' = extent + t /\ options' = options
      BY <1>1, <1>4, <1>5, <1>8, <1>11
    <3>2. extent <= Start[f]
      BY <1>2, <1>8, <1>12
    <3> QED
      BY <1>3, <1>12, <3>1, <3>2
  <2> QED
    BY <2>1, <2>2 DEF AnchoredInInputs
<1>17. RowsInPlace'
  <2>1. ASSUME NEW row \in DOMAIN output', output'[row] # Unwritten
        PROVE  IsPlaceOf(row, output[row])'
    <3>1. row \in 0 .. extent - 1 /\ output'[row] = output[row] /\ output[row] # Unwritten
      BY <1>2, <1>3, <1>4, <1>13, <2>1
    <3>2. IsPlaceOf(row, output[row])
      BY <1>2, <3>1 DEF RowsInv, RowsInPlace
    <3> QED
      BY <1>5, <1>8, <3>1, <3>2 DEF IsPlaceOf
  <2>2. extent' <= Start[f + 1]
    BY <1>2, <1>3, <1>4, <1>8, <1>12
  <2>3. Start[f + 1] <= Start[NFiles + 1] /\ Start[f + 1] \in Nat /\ Start[NFiles + 1] \in Nat
    BY <1>2, <1>7, StartMonotone, StartIsNat
  <2>4. (extent <= Start[NFiles + 1])'
    BY <1>2, <1>3, <1>4, <1>8, <2>2, <2>3
  <2> QED
    BY <2>1, <2>4 DEF RowsInPlace
<1>18. LossesAreShortTails'
  <2> SUFFICES ASSUME NEW g \in Files, f > g,
                      NEW i \in 0 .. sizes[g] - 1,
                      Start[g] + i \in DOMAIN output', output'[Start[g] + i] = Unwritten
               PROVE  \/ sizes[g] - i < layout'.chunk_rows
                      \/ MaxRows >= 0 /\ MaxRows - (Start[g] + i) < layout'.chunk_rows
    BY <1>5, <1>6, <1>8, NRanksAssumption DEF LossesAreShortTails, Ranks
  <2>1. g \in 1 .. NFiles /\ g + 1 \in 1 .. NFiles + 1 /\ g \in 1 .. NFiles + 1 /\ g + 1 <= f
    BY <1>7 DEF Files
  <2>2. /\ Start[g + 1] = Start[g] + sizes[g] /\ Start[g + 1] <= Start[f]
        /\ Start[g] \in Nat /\ sizes[g] \in Nat
    BY <1>2, <1>7, <2>1, StartEquation, StartMonotone, StartIsNat, SizesAreNat
  <2>3. Start[g] + i \in 0 .. extent - 1
    <3>1. Start[g] + i < Start[f] /\ Start[g] + i \in Nat
      BY <1>8, <2>2
    <3>2. Start[g] + i < extent + t
      BY <1>2, <1>3, <1>4, <1>13
    <3> QED
      BY <1>2, <1>3, <1>8, <1>12, <3>1, <3>2
  <2>4. output[Start[g] + i] = Unwritten
    BY <1>2, <1>3, <1>4, <1>13, <2>3
  <2>5. layout # NoLayout
    <3> SUFFICES ASSUME layout = NoLayout PROVE FALSE
      OBVIOUS
    <3>1. f = 1
      BY <1>6 DEF RowsInv, ShapesMatch
    <3> QED
      BY <2>1, <3>1
  <2>6. \A s \in Ranks : Passed(s, g)
    BY <1>6
  <2> QED
    BY <1>2, <2>3, <2>4, <2>5, <2>6 DEF RowsInv, LossesAreShortTails
<1>19. NothingAhead'
  <2>1. \A row \in DOMAIN output' : output'[row] # Unwritten => row < extent
    BY <1>2, <1>3, <1>4, <1>13
  <2> HIDE DEF InLoop
  <2> QED
    BY <1>11, <2>1 DEF NothingAhead
<1> QED
  BY <1>14, <1>15, <1>16, <1>17, <1>18, <1>19 DEF RowsInv

LEMMA CreateRowsInv ==
  ASSUME IInv, RowsInv, CreateDataset
  PROVE  RowsInv'
<1>1. PICK r \in Ranks :
        /\ Storable(formats[file[r]])
        /\ layout' = [chunk_rows |-> formats[file[r]].chunk_rows,
                      buffer_size_rows |-> BufferRows(formats[file[r]]),
                      format |-> formats[file[r]]]
        /\ Extend(r)
  BY DEF CreateDataset
<1>2. /\ AllAt("enter") /\ EnterLoop /\ layout = NoLayout
      /\ UNCHANGED <<inputs, file>> /\ pc' = [s \in Ranks |-> "loop"]
  BY DEF CreateDataset, EnterLoop
<1>3. \A s \in Ranks : file[s] = 1
  BY <1>2 DEF RowsInv, ShapesMatch, Upcoming
<1>4. ShapesMatch'
  <2>1. layout' # NoLayout
    <3>1. layout'.chunk_rows = formats[1].chunk_rows
      BY <1>1, <1>3
    <3>2. formats[1] \in Formats
      <4>1. 1 \in Files
        BY <1>2, <1>3, NRanksAssumption DEF IInv, Anchored, Ranks
      <4> QED
        BY <4>1 DEF IInv, TypeOK
    <3>3. formats[1].chunk_rows # 0
      BY <3>2, FormatsAssumption
    <3> QED
      BY <3>1, <3>3 DEF NoLayout
  <2>2. \A s \in Ranks : Upcoming(s)' = 2
    BY <1>2, <1>3 DEF Upcoming
  <2>3. Storable(formats[1])'
    BY <1>1, <1>2, <1>3 DEF Storable
  <2>4. Appendable(2 - 1)'
    BY <2>3 DEF Appendable
  <2> QED
    BY <1>1, <1>2, <1>3, <2>1, <2>2, <2>4 DEF ShapesMatch
<1> QED
  BY <1>1, <1>2, <1>4, EnterRowsInv

LEMMA ResizeRowsInv ==
  ASSUME IInv, RowsInv, ResizeDataset
  PROVE  RowsInv'
<1>1. PICK r \in Ranks : Extend(r)
  BY DEF ResizeDataset
<1>2. /\ AllAt("enter") /\ EnterLoop /\ layout # NoLayout
      /\ UNCHANGED <<inputs, file, layout>> /\ pc' = [s \in Ranks |-> "loop"]
      /\ Compatible(formats[file[r]])
  BY DEF ResizeDataset, EnterLoop
<1>3. ShapesMatch'
  <2>1. /\ layout.format = formats[1] /\ layout.chunk_rows = formats[1].chunk_rows
    BY <1>2 DEF RowsInv, ShapesMatch
  <2>2. Storable(formats[1])
    BY <1>2, <2>1 DEF IInv, LayoutFits
  <2>3. ASSUME NEW s \in Ranks
        PROVE  Appendable(Upcoming(s) - 1)'
    <3>1. Upcoming(s) = file[s] /\ Upcoming(s)' = file[s] + 1 /\ file[s] = file[r]
          /\ file[s] \in Nat
      BY <1>2, NFilesAssumption DEF Upcoming, IInv, Phases, Anchored, Files
    <3>2. Appendable(file[s] - 1)
      BY <3>1 DEF RowsInv, ShapesMatch
    <3>3. formats[file[s]].shape = formats[1].shape
      BY <1>2, <2>1, <3>1 DEF Compatible
    <3>4. Appendable(file[s])
      BY <2>2, <3>1, <3>2, <3>3 DEF Appendable
    <3>5. Appendable(file[s])'
      BY <1>2, <3>4 DEF Appendable, Storable
    <3>6. (file[s] + 1) - 1 = file[s]
      BY <3>1
    <3> QED
      BY <1>2, <3>1, <3>5, <3>6
  <2> QED
    BY <1>2, <2>1, <2>3 DEF ShapesMatch
<1> QED
  BY <1>1, <1>2, <1>3, EnterRowsInv

LEMMA InitRowsInv == Init => RowsInv
<1> SUFFICES ASSUME Init PROVE RowsInv
  OBVIOUS
<1>1. /\ \A r \in Ranks : ~ InLoop(r) /\ Upcoming(r) = 1
      /\ NFiles \in Nat /\ sizes \in [Files -> InputSizes]
      /\ extent = 0 /\ layout = NoLayout /\ DOMAIN output = {}
  <2>1. NFiles \in Nat
    BY NFilesAssumption
  <2>2. \A r \in Ranks : pc[r] = (IF NFiles = 0 THEN "close" ELSE "enter") /\ file[r] = 1
    BY DEF Init
  <2> QED
    BY <2>1, <2>2 DEF Init, Upcoming
<1>2. SameIterations /\ Deposited /\ NothingAhead
  BY <1>1 DEF SameIterations, Deposited, NothingAhead
<1>3. Start[1] = 0 /\ Start[NFiles + 1] \in Nat
  <2>1. NFiles + 1 \in 1 .. NFiles + 1
    BY <1>1
  <2> QED
    BY <1>1, <2>1, StartEquation, StartIsNat
<1> HIDE DEF Start
<1>4. AnchoredInInputs
  BY <1>1, <1>3 DEF AnchoredInInputs, EndsBefore
<1>5. RowsInPlace /\ LossesAreShortTails
  BY <1>1, <1>3 DEF RowsInPlace, LossesAreShortTails
<1>6. ShapesMatch
  BY <1>1 DEF ShapesMatch, Appendable
<1> QED
  BY <1>2, <1>4, <1>5, <1>6 DEF RowsInv

LEMMA NextRowsInv == IInv /\ RowsInv /\ [Next]_vars => RowsInv'
<1> SUFFICES ASSUME IInv, RowsInv, [Next]_vars PROVE RowsInv'
  OBVIOUS
<1>1. CASE CreateDataset
  BY <1>1, CreateRowsInv
<1>2. CASE ResizeDataset
  BY <1>2, ResizeRowsInv
<1>3. CASE CreateFails
  BY <1>3, StillRowsInv DEF CreateFails, SamePlaces, cursors
<1>4. ASSUME NEW r \in Ranks, PlanIteration(r) PROVE RowsInv'
  <2>1. SamePlaces
    BY <1>4 DEF PlanIteration, SamePlaces, IInv, TypeOK
  <2> QED
    BY <1>4, <2>1, StillRowsInv DEF PlanIteration, cursors
<1>5. ASSUME NEW r \in Ranks, EndInput(r) PROVE RowsInv'
  BY <1>5, EndRowsInv
<1>6. ASSUME NEW r \in Ranks, RefuseInput(r) PROVE RowsInv'
  <2>1. SamePlaces
    BY <1>6 DEF RefuseInput, SamePlaces, IInv, TypeOK
  <2> QED
    BY <1>6, <2>1, StillRowsInv DEF RefuseInput, cursors
<1>7. ASSUME NEW r \in Ranks, ReadIndependently(r) PROVE RowsInv'
  <2>1. SamePlaces
    BY <1>7 DEF ReadIndependently, SamePlaces, IInv, TypeOK
  <2> QED
    BY <1>7, <2>1, StillRowsInv DEF ReadIndependently, cursors
<1>8. ASSUME NEW r \in Ranks, WriteIndependently(r) PROVE RowsInv'
  <2>1. /\ \A s \in {r} : At(s, "write")
        /\ pc' = [s \in Ranks |-> IF s \in {r} THEN "loop" ELSE pc[s]]
    BY <1>8 DEF WriteIndependently, IInv, TypeOK
  <2> QED
    BY <1>8, <2>1, WriteRowsInv DEF WriteIndependently
<1>9. CASE ReadCollectively
  <2>1. SamePlaces
    BY <1>9 DEF ReadCollectively, SamePlaces
  <2> QED
    BY <1>9, <2>1, StillRowsInv DEF ReadCollectively, cursors
<1>10. CASE WriteCollectively
  <2>1. /\ \A s \in Ranks : At(s, "write")
        /\ pc' = [s \in Ranks |-> IF s \in Ranks THEN "loop" ELSE pc[s]]
    BY <1>10 DEF WriteCollectively
  <2> QED
    BY <1>10, <2>1, WriteRowsInv DEF WriteCollectively
<1>11. CASE CloseOutput
  BY <1>11, StillRowsInv DEF CloseOutput, SamePlaces, cursors
<1>12. CASE Terminated \/ UNCHANGED vars
  <2>1. UNCHANGED <<inputs, layout, extent, output, file, done, threshold>> /\ UNCHANGED pc
    BY <1>12 DEF Terminated, vars, cursors
  <2>2. SamePlaces
    BY <2>1 DEF SamePlaces
  <2> QED
    BY <2>1, <2>2, StillRowsInv
<1> QED
  BY <1>1, <1>2, <1>3, <1>4, <1>5, <1>6, <1>7, <1>8, <1>9, <1>10, <1>11, <1>12
     DEF Next, RankStep, CollectiveStep

THEOREM RowsInvariance == Spec => [](IInv /\ RowsInv)
<1>1. Init => IInv /\ RowsInv
  BY InitIInv, InitRowsInv
<1>2. (IInv /\ RowsInv) /\ [Next]_vars => (IInv /\ RowsInv)'
  BY NextIInv, NextRowsInv
<1> QED
  BY <1>1, <1>2, PTL DEF Spec

-----------------------------------------------------------------------------
(* Every row that handle_dataset_() has written, on whatever rank and in   *)
(* whatever iteration, is where the concatenation of the inputs has it.    *)
THEOREM RowsAreInPlace == Spec => []RowsInPlace
<1>1. RowsInv => RowsInPlace
  BY DEF RowsInv
<1> QED
  BY <1>1, RowsInvariance, PTL

(* What row_numerology() loses when the buffer is a multiple of the chunk  *)
(* is the tail of an input, or of what the limit leaves of it, and shorter *)
(* than a chunk.                                                           *)
THEOREM OnlyShortTailsLost == Spec => []LossesAreShortTails
<1>1. RowsInv => LossesAreShortTails
  BY DEF RowsInv
<1> QED
  BY <1>1, RowsInvariance, PTL

(* Two ranks never have the same row in hand, even when they transfer      *)
(* independently and are in different iterations of the loop.              *)
LEMMA TargetsDisjoint ==
  ASSUME IInv, RowsInv, NEW r \in Ranks, NEW s \in Ranks,
         Transferring(r), Transferring(s), done[r] < done[s]
  PROVE  Target(r) \cap Target(s) = {}
<1> SUFFICES ASSUME NEW row \in Target(r), row \in Target(s) PROVE FALSE
  OBVIOUS
<1>1. /\ InLoop(r) /\ InLoop(s) /\ done[r] < threshold[r]
      /\ row \in 0 .. extent - 1
      /\ row < BaseOf(r) + NextCursor(BaseOf(r), threshold[r], done[r])
      /\ BaseOf(s) + done[s] <= row
  BY TransferFacts
<1>2. /\ LayoutUsable /\ BaseOf(r) \in Nat /\ threshold[r] \in Nat /\ extent \in Nat
      /\ BaseOf(s) = BaseOf(r) /\ threshold[s] = threshold[r]
      /\ done[r] \in Nat /\ done[s] \in Nat
  BY <1>1, LoopFacts
<1>3. /\ done[r] \in CursorPositions(BaseOf(r), threshold[r])
      /\ done[s] \in CursorPositions(BaseOf(r), threshold[r])
  BY <1>1, <1>2 DEF RowsInv, SameIterations
<1>4. NextCursor(BaseOf(r), threshold[r], done[r]) <= done[s]
  BY <1>2, <1>3, IterationsFollowOneAnother
<1>5. NextCursor(BaseOf(r), threshold[r], done[r]) \in done[r] + 1 .. threshold[r]
  BY <1>1, <1>2, IterationAdvances
<1> QED
  BY <1>1, <1>2, <1>4, <1>5

(* In whatever iterations two ranks are, no row of the output has two      *)
(* writers.                                                                *)
THEOREM EveryWriteDisjoint == Spec => []WritesDisjoint
<1>1. IInv /\ RowsInv => WritesDisjoint
  <2> SUFFICES ASSUME IInv, RowsInv, NEW r \in Ranks, NEW s \in Ranks, r # s,
                      Transferring(r), Transferring(s)
               PROVE  Target(r) \cap Target(s) = {}
    BY DEF WritesDisjoint
  <2>1. done[r] \in Nat /\ done[s] \in Nat /\ (r < s \/ s < r)
    <3>1. done[r] \in Nat /\ done[s] \in Nat
      BY DEF IInv, TypeOK
    <3>2. r < s \/ s < r
      BY NRanksAssumption DEF Ranks
    <3> QED
      BY <3>1, <3>2
  <2>2. CASE done[r] < done[s] \/ done[s] < done[r]
    BY <2>2, TargetsDisjoint
  <2>3. CASE done[r] = done[s]
    <3>1. ASSUME NEW row \in Target(r), row \in Target(s) PROVE FALSE
      <4>1. row \in Nat
        BY DEF Target, IInv, TypeOK
      <4>2. row < row
        BY <2>1, <2>3, <3>1, SlicesOrdered
      <4> QED
        BY <4>1, <4>2
    <3> QED
      BY <3>1
  <2> QED
    BY <2>1, <2>2, <2>3
<1> QED
  BY <1>1, RowsInvariance, PTL

(* Two ranks have no row of an iteration in common.                        *)
LEMMA SlicesApart ==
  ASSUME NEW info \in DSInfo, NEW remaining \in Nat \ {0},
         NEW r \in Ranks, NEW s \in Ranks, NEW x \in Nat,
         InSlice(info, remaining, r, x), InSlice(info, remaining, s, x)
  PROVE  r = s
<1>1. ASSUME NEW p \in Ranks, InSlice(info, remaining, p, x)
      PROVE  /\ RankRows(info, remaining, p) \in Nat \ {0}
             /\ Offset(info, remaining, p) \in Int
             /\ Offset(info, remaining, p) <= x
             /\ x < Offset(info, remaining, p) + RankRows(info, remaining, p)
  <2>1. RankRows(info, remaining, p) \in Nat /\ Offset(info, remaining, p) \in Int
    BY RankRowsFitBuffer, ChunkedInterval
  <2> QED
    BY <1>1, <2>1 DEF InSlice
<1>2. ASSUME NEW p \in Ranks, NEW q \in Ranks, p < q,
             InSlice(info, remaining, p, x), InSlice(info, remaining, q, x)
      PROVE  FALSE
  <2>1. Offset(info, remaining, p) + RankRows(info, remaining, p) <= Offset(info, remaining, q)
    BY <1>1, <1>2, RankSlicesDisjoint
  <2> QED
    BY <1>1, <1>2, <2>1
<1>3. r < s \/ s < r \/ r = s
  BY NRanksAssumption DEF Ranks
<1> QED
  BY <1>2, <1>3

(* And none with another iteration: the iteration that a row belongs to,   *)
(* and the rank, are the only ones.                                        *)
LEMMA OneIteration ==
  ASSUME LayoutUsable, NEW base \in Nat, NEW rows \in Nat, NEW row \in Nat,
         NEW d \in CursorPositions(base, rows), d < rows, base + d <= row,
         NEW s \in Ranks, InSlice(InfoAt(base + d), rows - d, s, row - (base + d)),
         NEW e \in CursorPositions(base, rows), e < rows, base + e <= row,
         NEW r \in Ranks, InSlice(InfoAt(base + e), rows - e, r, row - (base + e))
  PROVE  d = e /\ r = s
<1>1. d \in 0 .. rows /\ e \in 0 .. rows
  BY CursorPositionsClosed
<1>2. ASSUME NEW c \in CursorPositions(base, rows), c < rows, base + c <= row, NEW p \in Ranks,
             InSlice(InfoAt(base + c), rows - c, p, row - (base + c))
      PROVE  row < base + NextCursor(base, rows, c) /\ NextCursor(base, rows, c) \in Nat
  <2> DEFINE info == InfoAt(base + c)
  <2>1. c \in Nat
    BY <1>2, CursorPositionsClosed
  <2>2. info \in DSInfo /\ rows - c \in Nat \ {0} /\ NextCursor(base, rows, c) \in c + 1 .. rows
    BY <1>2, <2>1, IterationAdvances
  <2>3. NextCursor(base, rows, c) = c + IterationRows(info, rows - c)
    BY DEF NextCursor
  <2> HIDE DEF info
  <2>4. /\ RankRows(info, rows - c, p) \in Nat /\ Offset(info, rows - c, p) \in Int
        /\ IterationRows(info, rows - c) \in Nat
    BY <2>2, RankRowsFitBuffer, ChunkedInterval, IterationProgress
  <2>5. /\ Offset(info, rows - c, p) <= row - (base + c)
        /\ row - (base + c) < Offset(info, rows - c, p) + RankRows(info, rows - c, p)
    BY <1>2 DEF InSlice, info
  <2>6. RankRows(info, rows - c, p) > 0
    BY <2>1, <2>4, <2>5
  <2>7. Offset(info, rows - c, p) + RankRows(info, rows - c, p) <= IterationRows(info, rows - c)
    BY <2>2, <2>6, RankSliceInIteration
  <2> QED
    BY <2>1, <2>2, <2>3, <2>4, <2>5, <2>7
<1>3. ~ (d < e)
  <2> SUFFICES ASSUME d < e PROVE FALSE
    OBVIOUS
  <2>1. NextCursor(base, rows, d) <= e
    BY IterationsFollowOneAnother
  <2> QED
    BY <1>1, <1>2, <2>1
<1>4. ~ (e < d)
  <2> SUFFICES ASSUME e < d PROVE FALSE
    OBVIOUS
  <2>1. NextCursor(base, rows, e) <= d
    BY IterationsFollowOneAnother
  <2> QED
    BY <1>1, <1>2, <2>1
<1>5. d = e
  BY <1>1, <1>3, <1>4
<1>6. InfoAt(base + d) \in DSInfo /\ rows - d \in Nat \ {0} /\ row - (base + d) \in Nat
  BY <1>1, IterationAdvances
<1> QED
  BY <1>5, <1>6, SlicesApart

(* No row is written twice: when a rank has it in hand, it is as HDF5      *)
(* filled it.  What is written is of an iteration that its rank has behind *)
(* it, and the row in hand is of one that has not ended.                   *)
THEOREM NoRowWrittenAgain == Spec => []RowsWrittenOnce
<1>1. IInv /\ RowsInv => RowsWrittenOnce
  <2> SUFFICES ASSUME IInv, RowsInv, NEW r \in Ranks, Transferring(r), NEW row \in Target(r),
                      output[row] # Unwritten
               PROVE  FALSE
    BY DEF RowsWrittenOnce
  <2> DEFINE base == BaseOf(r)
             rows == threshold[r]
             e == done[r]
  <2>1. /\ InLoop(r) /\ e < rows /\ row \in 0 .. extent - 1 /\ base + e <= row
        /\ InSlice(InfoAt(base + e), rows - e, r, row - (base + e))
    BY TransferFacts
  <2>2. /\ LayoutUsable /\ base \in Nat /\ rows \in Nat /\ e \in Nat /\ extent \in Nat
        /\ e \in CursorPositions(base, rows)
    BY <2>1, LoopFacts DEF RowsInv, SameIterations
  <2>3. row \in DOMAIN output /\ ~ (row < base)
    BY <2>1, <2>2 DEF IInv, TypeOK
  <2>4. PICK s \in Ranks, d \in CursorPositions(base, rows) :
          /\ d < Progress(r, s)
          /\ base + d <= row
          /\ InSlice(InfoAt(base + d), rows - d, s, row - (base + d))
    BY <2>1, <2>3 DEF RowsInv, NothingAhead
  <2>5. d \in 0 .. rows
    BY <2>2, CursorPositionsClosed
  <2>6. d < rows
    <3>1. InLoop(s) => done[s] \in Nat /\ done[s] <= rows
      <4> SUFFICES ASSUME InLoop(s) PROVE done[s] \in Nat /\ done[s] <= rows
        OBVIOUS
      <4>1. threshold[s] = rows
        BY <2>1, LoopFacts
      <4> QED
        BY <4>1, LoopFacts
    <3> QED
      BY <2>2, <2>4, <2>5, <3>1 DEF Progress
  <2>7. d = e /\ s = r
    <3>1. row \in Nat
      BY <2>1, <2>2
    <3> HIDE DEF base, rows, e
    <3> QED
      BY <2>1, <2>2, <2>4, <2>6, <3>1, OneIteration, Zenon
  <2>8. Progress(r, r) = e
    BY <2>1 DEF Progress
  <2> QED
    BY <2>2, <2>4, <2>7, <2>8
<1> QED
  BY <1>1, RowsInvariance, PTL

-----------------------------------------------------------------------------
(* Refinement.  What the mapping gives in every reachable state.           *)

(* Any rank in the loop tells which input is being appended, and where; as *)
(* do all of them, when none is.                                           *)
Mapped ==
  /\ \A r \in Ranks :
       InLoop(r) => Base = BaseOf(r) /\ InputsAppended = file[r] - 1
  /\ Between =>
       Base = extent /\ \A r \in Ranks : InputsAppended = Upcoming(r) - 1

LEMMA MappedState == IInv => Mapped
<1> SUFFICES ASSUME IInv PROVE Mapped
  OBVIOUS
<1>1. ASSUME NEW r \in Ranks, InLoop(r)
      PROVE  Base = BaseOf(r) /\ InputsAppended = file[r] - 1
  <2>1. Copying \in Ranks /\ InLoop(Copying)
    BY <1>1, Zenon DEF Copying
  <2>2. file[Copying] = file[r] /\ BaseOf(Copying) = BaseOf(r)
    BY <1>1, <2>1, LoopFacts
  <2>3. ~ Between /\ ~ AllInputsDone
    BY <1>1 DEF Between, AllInputsDone
  <2> HIDE DEF Copying
  <2> QED
    BY <2>2, <2>3 DEF Base, InputsAppended, BaseOf
<1>2. ASSUME Between
      PROVE  Base = extent /\ \A r \in Ranks : InputsAppended = Upcoming(r) - 1
  <2>1. Base = extent
    BY <1>2 DEF Base
  <2>2. pc \in [Ranks -> Locations] /\ 0 \in Ranks /\ NFiles \in Nat
    BY NFilesAssumption, NRanksAssumption DEF IInv, TypeOK, Ranks
  <2>3. ASSUME NEW r \in Ranks PROVE InputsAppended = Upcoming(r) - 1
    <3>1. CASE pc[r] \in {"close", "closed"}
      <4>1. AllInputsDone
        BY <1>2, <3>1 DEF AllInputsDone, Between, IInv, Phases
      <4> QED
        BY <2>2, <3>1, <4>1 DEF InputsAppended, Upcoming
    <3>2. CASE pc[r] \in {"enter", "failed"}
      <4>1. ~ AllInputsDone
        BY <3>2 DEF AllInputsDone
      <4>2. file[0] = file[r]
        BY <1>2, <2>2, <3>2 DEF Between, IInv, Phases
      <4> QED
        BY <1>2, <3>2, <4>1, <4>2 DEF InputsAppended, Upcoming
    <3> QED
      BY <1>2, <2>2, <3>1, <3>2 DEF Locations, Between
  <2> QED
    BY <2>1, <2>3
<1> QED
  BY <1>1, <1>2 DEF Mapped

(* The inputs decide on what can be appended; they do not change.          *)
LEMMA InputsDecide == UNCHANGED inputs => UNCHANGED <<Roomy, Acceptable>>
<1> SUFFICES ASSUME UNCHANGED inputs PROVE UNCHANGED <<Roomy, Acceptable>>
  OBVIOUS
<1>1. UNCHANGED formats /\ UNCHANGED options
  OBVIOUS
<1>2. UNCHANGED Roomy
  BY <1>1 DEF Roomy, Storable, BufferRows
<1>3. UNCHANGED Acceptable
  BY <1>1, Zenon DEF Acceptable, Appendable, Storable
<1> QED
  BY <1>2, <1>3

(* The first inputs that can be appended are as many as Acceptable says.   *)
LEMMA AcceptableFacts ==
  /\ Acceptable \in 0 .. NFiles
  /\ \A n \in 0 .. NFiles : Appendable(n) => n <= Acceptable
<1> DEFINE Best(n) == Appendable(n) /\ \A m \in 0 .. NFiles : Appendable(m) => m <= n
           S == {k \in Nat : \A m \in 0 .. NFiles : Appendable(m) => m <= k}
<1>1. NFiles \in Nat
  BY NFilesAssumption
<1>2. \E n \in 0 .. NFiles : Best(n)
  <2>1. S \in SUBSET Nat /\ NFiles \in S
    BY <1>1
  <2>2. PICK k \in S : \A m \in S : k <= m
    BY <2>1, LeastElement
  <2>3. k \in Nat /\ k <= NFiles /\ \A m \in 0 .. NFiles : Appendable(m) => m <= k
    BY <2>1, <2>2
  <2>4. Appendable(0)
    BY DEF Appendable
  <2>5. Appendable(k)
    <3> SUFFICES ASSUME ~ Appendable(k) PROVE FALSE
      OBVIOUS
    <3>1. k - 1 \in Nat
      BY <2>3, <2>4
    <3>2. k - 1 \in S
      BY <1>1, <2>3, <3>1
    <3> QED
      BY <2>2, <2>3, <3>2
  <2> QED
    BY <1>1, <2>3, <2>5
<1>3. Acceptable \in 0 .. NFiles /\ Best(Acceptable)
  BY <1>2, Zenon DEF Acceptable
<1> QED
  BY <1>3

-----------------------------------------------------------------------------
(* Refinement.  What the mapping gives of a step.                          *)
Quiet ==
  Roomy => /\ Base' = Base
           /\ InputsAppended' = InputsAppended
           /\ \A row \in 0 .. Base - 1 : output'[row] = output[row]

(* The rows before Base, and the inputs they come from, are as before.     *)
LEMMA QuietSteps ==
  ASSUME IInv, UNCHANGED inputs, Quiet
  PROVE  UNCHANGED Abstract!absvars
<1>1. UNCHANGED <<Roomy, Acceptable>>
  BY InputsDecide
<1>2. ASSUME Roomy
      PROVE  [i \in 1 .. Base' |-> output'[i - 1]] = [i \in 1 .. Base |-> output[i - 1]]
  <2>1. Base' = Base /\ \A row \in 0 .. Base - 1 : output'[row] = output[row]
    BY <1>2 DEF Quiet
  <2>2. Base \in Int
    <3>1. CASE Between
      BY <3>1, MappedState DEF Mapped, IInv, TypeOK
    <3>2. CASE ~ Between
      <4>1. PICK r \in Ranks : InLoop(r)
        BY <3>2 DEF Between
      <4> QED
        BY <4>1, MappedState, LoopFacts DEF Mapped
    <3> QED
      BY <3>1, <3>2
  <2> HIDE DEF Base
  <2>3. \A i \in 1 .. Base : i - 1 \in 0 .. Base - 1
    BY <2>2
  <2>4. \A i \in 1 .. Base : output'[i - 1] = output[i - 1]
    BY <2>1, <2>3
  <2> QED
    BY <2>1, <2>4
<1>3. (IF Roomy THEN [i \in 1 .. Base |-> output[i - 1]] ELSE << >>)'
        = IF Roomy THEN [i \in 1 .. Base |-> output[i - 1]] ELSE << >>
  BY <1>1, <1>2
<1>4. (IF Roomy THEN InputsAppended ELSE 0)' = IF Roomy THEN InputsAppended ELSE 0
  BY <1>1 DEF Quiet
<1>5. (IF Roomy THEN Acceptable ELSE 0)' = IF Roomy THEN Acceptable ELSE 0
  BY <1>1
<1> QED
  BY <1>3, <1>4, <1>5 DEF Abstract!absvars

(* No rank enters or leaves the loop.                                      *)
LEMMA StillQuiet ==
  ASSUME IInv, IInv', SamePlaces, UNCHANGED <<extent, file, threshold>>,
         \A row \in 0 .. Base - 1 : output'[row] = output[row]
  PROVE  Quiet
<1>1. Mapped
  BY MappedState
<1>2. Mapped'
  <2>1. (IInv => Mapped)'
    BY MappedState, PTL
  <2> QED
    BY <2>1
<1>3. /\ \A r \in Ranks : InLoop(r)' <=> InLoop(r)
      /\ \A r \in Ranks : Upcoming(r)' = Upcoming(r)
      /\ \A r \in Ranks : BaseOf(r)' = BaseOf(r)
  BY DEF SamePlaces, Upcoming, BaseOf
<1>4. 0 \in Ranks
  BY NRanksAssumption DEF Ranks
<1>5. Base' = Base /\ InputsAppended' = InputsAppended
  <2>1. CASE Between
    <3>1. Between'
      BY <1>3, <2>1 DEF Between
    <3>2. Base' = extent' /\ InputsAppended' = Upcoming(0)' - 1
      BY <1>2, <1>4, <3>1 DEF Mapped
    <3>3. Base = extent /\ InputsAppended = Upcoming(0) - 1
      BY <1>1, <1>4, <2>1 DEF Mapped
    <3> QED
      BY <1>3, <1>4, <3>2, <3>3
  <2>2. CASE ~ Between
    <3>1. PICK r \in Ranks : InLoop(r)
      BY <2>2 DEF Between
    <3>2. Base = BaseOf(r) /\ InputsAppended = file[r] - 1
      BY <1>1, <3>1 DEF Mapped
    <3>3. InLoop(r)'
      BY <1>3, <3>1
    <3>4. Base' = BaseOf(r)' /\ InputsAppended' = file'[r] - 1
      BY <1>2, <3>3 DEF Mapped
    <3> QED
      BY <1>3, <3>2, <3>4
  <2> QED
    BY <2>1, <2>2
<1> QED
  BY <1>5 DEF Quiet

(* Entering the loop with a new input: its rows come after Base.           *)
LEMMA EnterQuiet ==
  ASSUME IInv, IInv', AllAt("enter"), NEW r \in Ranks, Extend(r), EnterLoop
  PROVE  Quiet
<1> DEFINE t == RowsThreshold(extent, sizes[file[r]])
<1>1. \A s \in Ranks : total[s] = extent /\ file[s] = file[r] /\ file[r] \in Files
  BY DEF IInv, Anchored, Phases
<1>2. /\ extent \in Nat /\ sizes[file[r]] \in Nat
      /\ output \in [0 .. extent - 1 -> InputRows \cup {Unwritten}]
  BY <1>1, InputSizesAssumption DEF IInv, TypeOK
<1>3. t \in Nat
  BY <1>2, ThresholdBounds DEF IInv, TypeOK, MaxRowsRespected
<1>4. /\ extent' = extent + t
      /\ output' = [row \in 0 .. extent' - 1 |->
                      IF row < extent THEN output[row] ELSE Unwritten]
  <2>1. RowsThreshold(total[r], sizes[file[r]]) = t
    BY <1>1
  <2> QED
    BY <2>1 DEF Extend
<1>5. /\ pc'[r] = "loop" /\ threshold'[r] = t /\ UNCHANGED file
  BY <1>1 DEF EnterLoop, cursors
<1>6. Base = extent /\ InputsAppended = file[r] - 1
  <2>1. Between
    BY DEF Between
  <2>2. Upcoming(r) = file[r]
    BY DEF Upcoming
  <2> QED
    BY <2>1, <2>2, MappedState DEF Mapped
<1>7. Base' = BaseOf(r)' /\ InputsAppended' = file'[r] - 1
  <2>1. (IInv => Mapped)'
    BY MappedState, PTL
  <2> QED
    BY <1>5, <2>1 DEF Mapped
<1> HIDE DEF t
<1>8. BaseOf(r)' = extent
  BY <1>2, <1>3, <1>4, <1>5 DEF BaseOf
<1>9. \A row \in 0 .. extent - 1 : output'[row] = output[row]
  BY <1>2, <1>3, <1>4
<1> QED
  BY <1>5, <1>6, <1>7, <1>8, <1>9 DEF Quiet

(* A write puts nothing before the first row of its input.                 *)
LEMMA WriteQuiet ==
  ASSUME IInv, IInv', RowsInv, NEW writers \in SUBSET Ranks, writers # {},
         \A r \in writers : At(r, "write"), Put(writers),
         pc' = [r \in Ranks |-> IF r \in writers THEN "loop" ELSE pc[r]],
         UNCHANGED <<extent, file, threshold>>
  PROVE  Quiet
<1>1. SamePlaces
  BY DEF SamePlaces
<1>2. PICK w \in writers : TRUE
  OBVIOUS
<1>3. InLoop(w)
  BY <1>2
<1>4. Base = BaseOf(w) /\ BaseOf(w) \in Nat /\ extent \in Nat /\ threshold[w] \in Nat
      /\ extent = BaseOf(w) + threshold[w]
  BY <1>2, <1>3, MappedState, LoopFacts DEF Mapped
<1>5. ASSUME NEW row \in 0 .. Base - 1
      PROVE  output'[row] = output[row]
  <2>1. row \in 0 .. extent - 1 /\ row < BaseOf(w)
    BY <1>4
  <2>2. ASSUME NEW r \in writers PROVE row \notin Target(r)
    <3>1. Transferring(r) /\ InLoop(r) /\ r \in Ranks
      BY <2>2
    <3>2. BaseOf(r) = BaseOf(w) /\ done[r] \in Nat
      BY <1>2, <1>3, <3>1, LoopFacts
    <3>3. row \in Target(r) => BaseOf(r) + done[r] <= row
      BY <3>1, TransferFacts
    <3> QED
      BY <1>4, <2>1, <3>2, <3>3
  <2> QED
    BY <2>1, <2>2, WriteInPlace
<1> QED
  BY <1>1, <1>5, StillQuiet

(* A sequence is its beginning and its end.                                *)
Splits(whole, b, front, n, rest, S) ==
  /\ b \in Nat /\ n \in Nat
  /\ whole \in [1 .. b + n -> S]
  /\ front \in [1 .. b -> S]
  /\ rest \in [1 .. n -> S]
  /\ \A i \in 1 .. b : front[i] = whole[i]
  /\ \A i \in 1 .. n : rest[i] = whole[b + i]

LEMMA SplitSequence ==
  ASSUME NEW whole, NEW b, NEW front, NEW n, NEW rest, NEW S,
         Splits(whole, b, front, n, rest, S)
  PROVE  whole = front \o rest /\ Len(front) = b
<1> USE DEF Splits
<1>1. front \in Seq(S) /\ rest \in Seq(S) /\ whole \in Seq(S) /\ b + n \in Nat
  OBVIOUS
<1>2. Len(front) = b /\ Len(rest) = n /\ Len(whole) = b + n
  BY <1>1
<1>3. /\ front \o rest \in Seq(S)
      /\ Len(front \o rest) = b + n
      /\ \A i \in 1 .. b + n : (front \o rest)[i] =
                                 IF i <= b THEN front[i] ELSE rest[i - b]
  BY <1>1, <1>2, ConcatProperties
<1>4. \A i \in 1 .. b + n : whole[i] = (front \o rest)[i]
  <2> SUFFICES ASSUME NEW i \in 1 .. b + n PROVE whole[i] = (front \o rest)[i]
    OBVIOUS
  <2>1. CASE i <= b
    BY <1>3, <2>1
  <2>2. CASE i > b
    <3>1. i - b \in 1 .. n /\ b + (i - b) = i
      BY <2>2
    <3>2. rest[i - b] = whole[i]
      BY <3>1
    <3> QED
      BY <1>3, <2>2, <3>2
  <2> QED
    BY <2>1, <2>2
<1>5. whole = front \o rest
  BY <1>1, <1>2, <1>3, <1>4, SeqEqual
<1> QED
  BY <1>2, <1>5

(* The last rank leaves the loop, and the rows of its input are all there. *)
LEMMA LastAppends ==
  ASSUME IInv, IInv', RowsInv, Roomy, NEW r \in Ranks, EndInput(r),
         \A s \in Ranks : InLoop(s) => s = r
  PROVE  Abstract!AppendInput
<1> DEFINE f == file[r]
           b == BaseOf(r)
           n == threshold[r]
<1>1. /\ pc[r] = "loop" /\ done[r] >= n
      /\ pc' = [pc EXCEPT ![r] = IF f < NFiles THEN "enter" ELSE "close"]
      /\ file' = [file EXCEPT ![r] = IF f < NFiles THEN f + 1 ELSE f]
      /\ UNCHANGED <<inputs, layout, extent, output, total, done, threshold>>
  BY DEF EndInput
<1>2. /\ pc \in [Ranks -> Locations] /\ file \in [Ranks -> Nat \ {0}]
      /\ output \in [0 .. extent - 1 -> InputRows \cup {Unwritten}]
      /\ MaxRows \in Int /\ (MaxRows >= 0 => extent <= MaxRows)
  BY OptionsAssumption DEF IInv, TypeOK, MaxRowsRespected
<1>3. InLoop(r)
  BY <1>1
<1>4. /\ LayoutUsable /\ sizes \in [Files -> InputSizes]
      /\ extent \in Nat /\ b \in Nat /\ n \in Nat /\ extent = b + n
      /\ done[r] = n
      /\ f \in Nat /\ 1 <= f /\ f <= NFiles /\ NFiles \in Nat /\ f \in Files
  <2>1. /\ LayoutUsable /\ sizes \in [Files -> InputSizes]
        /\ extent \in Nat /\ b \in Nat /\ n \in Nat /\ extent = b + n
        /\ done[r] \in Nat /\ done[r] <= n /\ f \in Files
    BY <1>3, LoopFacts
  <2>2. done[r] = n
    BY <1>1, <2>1
  <2>3. f \in Nat /\ 1 <= f /\ f <= NFiles /\ NFiles \in Nat
    BY <2>1, NFilesAssumption DEF Files
  <2> QED
    BY <2>1, <2>2, <2>3
<1>5. Base = b /\ InputsAppended = f - 1
  BY <1>3, MappedState DEF Mapped
<1>6. Base' = extent /\ InputsAppended' = f
  <2>1. (IInv => Mapped)'
    BY MappedState, PTL
  <2>2. pc'[r] = (IF f < NFiles THEN "enter" ELSE "close")
        /\ file'[r] = (IF f < NFiles THEN f + 1 ELSE f)
        /\ \A s \in Ranks : s # r => pc'[s] = pc[s]
    BY <1>1, <1>2
  <2>3. Between'
    BY <2>2 DEF Between
  <2>4. Upcoming(r)' = f + 1
    BY <1>4, <2>2 DEF Upcoming
  <2>5. Base' = extent' /\ InputsAppended' = Upcoming(r)' - 1
    BY <2>1, <2>3 DEF Mapped
  <2> QED
    BY <1>1, <1>4, <2>4, <2>5
<1>7. /\ n <= sizes[f]
      /\ n = sizes[f] \/ (MaxRows >= 0 /\ extent = MaxRows)
      /\ n > 0 => b = Start[f]
      /\ sizes[f] \in Nat
  BY <1>3, <1>4, SizesAreNat DEF RowsInv, AnchoredInInputs, Files
<1>8. f <= Acceptable /\ Acceptable \in 0 .. NFiles
  <2>1. Upcoming(r) = f + 1
    BY <1>3 DEF Upcoming
  <2>2. Appendable(Upcoming(r) - 1)
    BY DEF RowsInv, ShapesMatch
  <2> HIDE DEF f
  <2>3. f + 1 - 1 = f /\ f \in 0 .. NFiles
    BY <1>4
  <2> QED
    BY <2>1, <2>2, <2>3, AcceptableFacts
<1>9. layout.buffer_size_rows % layout.chunk_rows = layout.chunk_rows - 1
  <2>1. layout # NoLayout
    BY <1>3 DEF IInv, Anchored
  <2>2. /\ Storable(layout.format)
        /\ layout.buffer_size_rows = BufferRows(layout.format)
        /\ layout.format = formats[1]
        /\ layout.chunk_rows = formats[1].chunk_rows
    BY <2>1 DEF IInv, LayoutFits, RowsInv, ShapesMatch
  <2> QED
    BY <2>2 DEF Roomy
<1>10. ASSUME NEW x \in 0 .. n - 1
       PROVE  output[b + x] = <<f, x>>
  <2>1. output[b + x] # Unwritten
    <3>1. \A s \in Ranks : InLoop(s) => done[s] = threshold[s]
      BY <1>4
    <3> QED
      BY <1>3, <1>9, <3>1, AllDeposited
  <2>2. b + x \in 0 .. extent - 1 /\ x \in Nat /\ x < n /\ n > 0
    BY <1>4
  <2>3. IsPlaceOf(b + x, output[b + x]) /\ output[b + x] \in InputRows
    BY <1>2, <2>1, <2>2 DEF RowsInv, RowsInPlace
  <2>4. <<f, x>> \in InputRows
    BY <1>4, <2>2 DEF InputRows
  <2>5. x < sizes[f] /\ b = Start[f]
    BY <1>4, <1>7, <2>2
  <2> HIDE DEF Start, f, b, n
  <2>6. IsPlaceOf(b + x, <<f, x>>)
    BY <2>5 DEF IsPlaceOf
  <2> QED
    BY <1>4, <2>3, <2>4, <2>6, PlacesUnique
<1> DEFINE S == InputRows \cup {Unwritten}
           whole == [i \in 1 .. Base' |-> output'[i - 1]]
           front == [i \in 1 .. Base |-> output[i - 1]]
           rest == [i \in 1 .. n |-> <<f, i - 1>>]
<1>11. whole = front \o rest /\ Len(front) = b
  <2> HIDE DEF f, b, n
  <2>1. whole \in [1 .. b + n -> S]
    <3>1. \A i \in 1 .. b + n : i - 1 \in 0 .. extent - 1
      BY <1>4
    <3>2. whole = [i \in 1 .. b + n |-> output[i - 1]]
      BY <1>1, <1>4, <1>6
    <3> QED
      BY <1>2, <3>1, <3>2
  <2>2. front \in [1 .. b -> S]
    <3>1. \A i \in 1 .. b : i - 1 \in 0 .. extent - 1
      BY <1>4
    <3> QED
      BY <1>2, <1>5, <3>1
  <2>3. rest \in [1 .. n -> S]
    BY <1>4 DEF InputRows
  <2>4. \A i \in 1 .. b : front[i] = whole[i]
    BY <1>1, <1>4, <1>5, <1>6
  <2>5. ASSUME NEW i \in 1 .. n PROVE rest[i] = whole[b + i]
    <3>1. i - 1 \in 0 .. n - 1 /\ b + (i - 1) = b + i - 1 /\ b + i \in 1 .. extent
      BY <1>4
    <3>2. output[b + (i - 1)] = <<f, i - 1>>
      BY <1>10, <3>1
    <3>3. whole[b + i] = output[b + i - 1]
      <4> DEFINE j == b + i
      <4>1. j \in 1 .. Base'
        BY <1>6, <3>1
      <4> HIDE DEF j
      <4>2. whole[j] = output[j - 1]
        BY <1>1, <4>1
      <4> HIDE DEF whole, b
      <4> QED
        BY <1>4, <4>2, <3>1 DEF j
    <3> QED
      BY <3>1, <3>2, <3>3
  <2> HIDE DEF whole, front, rest, S
  <2>6. whole = front \o rest /\ Len(front) = b
    <3>1. Splits(whole, b, front, n, rest, S)
      BY <1>4, <2>1, <2>2, <2>3, <2>4, <2>5 DEF Splits
    <3> QED
      BY <3>1, SplitSequence
  <2> QED
    BY <2>6
<1>12. n = IF MaxRows < 0 \/ b + sizes[f] <= MaxRows THEN sizes[f] ELSE MaxRows - b
  BY <1>2, <1>4, <1>7
<1>13. UNCHANGED <<Roomy, Acceptable>>
  BY <1>1, InputsDecide
<1> HIDE DEF f, b, n, whole, front, rest, S
<1> DEFINE appended == IF Roomy THEN InputsAppended ELSE 0
           acceptable == IF Roomy THEN Acceptable ELSE 0
           table == IF Roomy THEN front ELSE << >>
           taken == Abstract!RowsTaken(appended + 1)
<1>14. /\ appended < acceptable /\ appended + 1 = f /\ appended' = f
       /\ acceptable' = acceptable
  BY <1>4, <1>5, <1>6, <1>8, <1>13
<1>15. table = front /\ table' = whole
  BY <1>13 DEF whole, front
<1>16. taken = n
  <2>1. taken = Abstract!RowsTaken(f)
    BY <1>14
  <2>2. Len(table) = b
    BY <1>11, <1>15
  <2> HIDE DEF taken, table
  <2>3. Abstract!RowsTaken(f) = IF MaxRows < 0 \/ Len(table) + sizes[f] <= MaxRows
                                THEN sizes[f] ELSE MaxRows - Len(table)
    BY DEF Abstract!RowsTaken, table, front
  <2> QED
    BY <1>12, <2>1, <2>2, <2>3
<1> HIDE DEF taken
<1>17. [i \in 1 .. taken |-> <<appended + 1, i - 1>>] = rest
  <2> HIDE DEF appended
  <2> QED
    BY <1>14, <1>16 DEF rest
<1>18. table' = table \o [i \in 1 .. taken |-> <<appended + 1, i - 1>>]
  BY <1>11, <1>15, <1>17
<1>19. UNCHANGED <<MaxRows, sizes>>
  BY <1>1
<1> QED
  BY <1>14, <1>18, <1>19 DEF Abstract!AppendInput, taken, front

LEMMA EndMaps ==
  ASSUME IInv, IInv', RowsInv, NEW r \in Ranks, EndInput(r)
  PROVE  [Abstract!AbsNext]_(Abstract!absvars)
<1>1. /\ pc[r] = "loop"
      /\ pc' = [pc EXCEPT ![r] = IF file[r] < NFiles THEN "enter" ELSE "close"]
      /\ UNCHANGED <<inputs, extent, output, threshold>>
      /\ file' = [file EXCEPT ![r] = IF file[r] < NFiles THEN file[r] + 1 ELSE file[r]]
      /\ pc \in [Ranks -> Locations] /\ file \in [Ranks -> Nat \ {0}]
  BY DEF EndInput, IInv, TypeOK
<1>2. CASE \A s \in Ranks : InLoop(s) => s = r
  <2>1. CASE Roomy
    BY <1>2, <2>1, LastAppends DEF Abstract!AbsNext
  <2>2. CASE ~ Roomy
    BY <1>1, <2>2, QuietSteps DEF Quiet
  <2> QED
    BY <2>1, <2>2
<1>3. CASE ~ \A s \in Ranks : InLoop(s) => s = r
  <2>1. PICK s \in Ranks : InLoop(s) /\ s # r
    BY <1>3
  <2>2. pc'[s] = pc[s] /\ file'[s] = file[s]
    BY <1>1, <2>1
  <2>3. Base = BaseOf(s) /\ InputsAppended = file[s] - 1
    BY <2>1, MappedState DEF Mapped
  <2>4. Base' = BaseOf(s)' /\ InputsAppended' = file'[s] - 1
    <3>1. (IInv => Mapped)'
      BY MappedState, PTL
    <3> QED
      BY <2>1, <2>2, <3>1 DEF Mapped
  <2>5. BaseOf(s)' = BaseOf(s)
    BY <1>1 DEF BaseOf
  <2>6. Quiet
    BY <1>1, <2>2, <2>3, <2>4, <2>5 DEF Quiet
  <2> QED
    BY <1>1, <2>6, QuietSteps
<1> QED
  BY <1>2, <1>3

LEMMA StillMaps ==
  ASSUME IInv, IInv', SamePlaces, UNCHANGED <<inputs, extent, output, file, threshold>>
  PROVE  UNCHANGED Abstract!absvars
BY StillQuiet, QuietSteps

(* Every step appends the next input, or changes nothing to be seen.       *)
AppendsOrNothing == [Abstract!AbsNext]_(Abstract!absvars)

LEMMA NextMaps ==
  ASSUME IInv, IInv', RowsInv, [Next]_vars
  PROVE  AppendsOrNothing
<1>1. ASSUME UNCHANGED Abstract!absvars PROVE AppendsOrNothing
  BY <1>1 DEF AppendsOrNothing
<1>2. UNCHANGED inputs
  BY DEF Next, RankStep, CollectiveStep, CreateDataset, ResizeDataset, EnterLoop, CreateFails,
         PlanIteration, EndInput, RefuseInput, ReadIndependently, WriteIndependently,
         ReadCollectively, WriteCollectively, CloseOutput, Terminated, vars
<1>3. ASSUME Quiet PROVE AppendsOrNothing
  BY <1>1, <1>2, <1>3, QuietSteps
<1>4. ASSUME NEW r \in Ranks, EndInput(r) PROVE AppendsOrNothing
  BY <1>4, EndMaps DEF AppendsOrNothing
<1>5. ASSUME NEW r \in Ranks, AllAt("enter"), Extend(r), EnterLoop PROVE AppendsOrNothing
  BY <1>3, <1>5, EnterQuiet
<1>6. CASE CreateDataset
  BY <1>5, <1>6 DEF CreateDataset
<1>7. CASE ResizeDataset
  BY <1>5, <1>7 DEF ResizeDataset
<1>8. ASSUME NEW r \in Ranks, WriteIndependently(r) PROVE AppendsOrNothing
  <2>1. /\ \A s \in {r} : At(s, "write")
        /\ pc' = [s \in Ranks |-> IF s \in {r} THEN "loop" ELSE pc[s]]
    BY <1>8 DEF WriteIndependently, IInv, TypeOK
  <2>2. Quiet
    BY <1>8, <2>1, WriteQuiet DEF WriteIndependently
  <2> QED
    BY <1>3, <2>2
<1>9. CASE WriteCollectively
  <2>1. /\ \A s \in Ranks : At(s, "write")
        /\ pc' = [s \in Ranks |-> IF s \in Ranks THEN "loop" ELSE pc[s]]
        /\ Ranks # {}
    BY <1>9, NRanksAssumption DEF WriteCollectively, Ranks
  <2>2. Quiet
    BY <1>9, <2>1, WriteQuiet DEF WriteCollectively
  <2> QED
    BY <1>3, <2>2
<1>10. ASSUME SamePlaces, UNCHANGED <<extent, output, file, threshold>> PROVE AppendsOrNothing
  BY <1>1, <1>2, <1>10, StillMaps
<1>11. CASE CreateFails
  BY <1>10, <1>11 DEF CreateFails, SamePlaces, cursors
<1>12. ASSUME NEW r \in Ranks, PlanIteration(r) \/ RefuseInput(r) \/ ReadIndependently(r)
       PROVE AppendsOrNothing
  <2>1. SamePlaces
    BY <1>12 DEF PlanIteration, RefuseInput, ReadIndependently, SamePlaces, IInv, TypeOK
  <2> QED
    BY <1>10, <1>12, <2>1 DEF PlanIteration, RefuseInput, ReadIndependently, cursors
<1>13. CASE ReadCollectively
  <2>1. SamePlaces
    BY <1>13 DEF ReadCollectively, SamePlaces
  <2> QED
    BY <1>10, <1>13, <2>1 DEF ReadCollectively, cursors
<1>14. CASE CloseOutput
  BY <1>10, <1>14 DEF CloseOutput, SamePlaces, cursors
<1>15. CASE Terminated \/ UNCHANGED vars
  <2>1. UNCHANGED <<extent, output, file, threshold, pc>>
    BY <1>15 DEF Terminated, vars, cursors
  <2>2. SamePlaces
    BY <2>1 DEF SamePlaces
  <2> QED
    BY <1>10, <2>1, <2>2
<1> QED
  BY <1>4, <1>6, <1>7, <1>8, <1>9, <1>11, <1>12, <1>13, <1>14, <1>15
     DEF Next, RankStep, CollectiveStep

LEMMA InitMaps == Init => Abstract!AbsInit
<1> SUFFICES ASSUME Init PROVE Abstract!AbsInit
  OBVIOUS
<1>1. /\ IInv /\ sizes \in [Files -> InputSizes] /\ MaxRows \in Int
      /\ 0 \in Ranks /\ NFiles \in Nat
  BY InitIInv, OptionsAssumption, NFilesAssumption, NRanksAssumption DEF Init, Ranks
<1>2. Between
  BY DEF Init, Between
<1>3. Base = 0
  BY <1>2 DEF Init, Base
<1>4. InputsAppended = 0
  <2>1. InputsAppended = Upcoming(0) - 1
    BY <1>1, <1>2, MappedState DEF Mapped
  <2>2. Upcoming(0) = 1
    BY <1>1 DEF Init, Upcoming
  <2> QED
    BY <2>1, <2>2
<1>5. [i \in 1 .. Base |-> output[i - 1]] = << >>
  BY <1>3
<1>6. /\ (IF Roomy THEN Acceptable ELSE 0) \in 0 .. NFiles
      /\ (IF Roomy THEN InputsAppended ELSE 0) = 0
  BY <1>1, <1>4, AcceptableFacts
<1> QED
  BY <1>1, <1>5, <1>6 DEF Abstract!AbsInit, Files

(* HDF5FileConcatenator as a whole: with spare rows in the buffer, the     *)
(* ranks together append the inputs one after another, each of them whole  *)
(* up to the limit, however their transfers interleave.                    *)
THEOREM ConcatenationImplemented == Spec => AppendsInOrder
<1>1. Init => Abstract!AbsInit
  BY InitMaps
<1>2. IInv /\ IInv' /\ RowsInv /\ [Next]_vars => [Abstract!AbsNext]_(Abstract!absvars)
  BY NextMaps DEF AppendsOrNothing
<1> QED
  BY <1>1, <1>2, RowsInvariance, PTL DEF Spec, AppendsInOrder, Abstract!AbsSafety
=============================================================================
