------------------------ MODULE ConcatDataset_proofs ------------------------
(***************************************************************************)
(* Facts about the partition of an iteration that RowNumerology computes,  *)
(* for every number of ranks, chunking, buffer and cursor position; and    *)
(* the safety properties of ConcatDataset that follow from them, for every *)
(* list of inputs and every limit.                                         *)
(***************************************************************************)
EXTENDS ConcatDataset, TLAPS

-----------------------------------------------------------------------------
(* Arithmetic. *)

LEMMA DivisionWithRemainder ==
  ASSUME NEW a \in Nat, NEW b \in Nat \ {0}
  PROVE  /\ a \div b \in Nat
         /\ a % b \in Nat
         /\ a % b < b
         /\ a = b * (a \div b) + (a % b)
  BY SMT

LEMMA ProductMonotone ==
  ASSUME NEW a \in Nat, NEW b \in Nat, NEW c \in Nat, a <= b
  PROVE  a * c <= b * c
  BY SMT

LEMMA ProductIsNat ==
  ASSUME NEW a \in Nat, NEW b \in Nat
  PROVE  a * b \in Nat
  BY SMT

LEMMA ProductStep ==
  ASSUME NEW a \in Nat, NEW b \in Nat, NEW c \in Nat, a < b
  PROVE  a * c + c <= b * c
  BY SMT

LEMMA QuotientBound ==
  ASSUME NEW a \in Nat, NEW m \in Nat, NEW b \in Nat \ {0}, a <= m * b
  PROVE  /\ a \div b <= m
         /\ a \div b = m => a % b = 0
  BY SMT

LEMMA MultipleDivided ==
  ASSUME NEW k \in Nat, NEW b \in Nat \ {0}
  PROVE  (b * k) \div b = k
  BY SMT

-----------------------------------------------------------------------------
(* The whole chunks of an iteration. *)

LEMMA WholeChunksBounds ==
  ASSUME NEW info \in DSInfo, NEW remaining \in Nat
  PROVE  /\ MaxChunksPerRank(info) \in Nat
         /\ WholeChunks(info, remaining) \in Nat
         /\ WholeChunks(info, remaining) <= MaxChunksPerRank(info) * NRanks
         /\ WholeChunks(info, remaining) * info.chunk_rows <= remaining
         /\ MaxChunksPerRank(info) * info.chunk_rows <= info.buffer_size_rows
         /\ WholeChunks(info, remaining) = 0 =>
              remaining < info.chunk_rows \/ MaxChunksPerRank(info) = 0
<1> DEFINE C == info.chunk_rows
           B == info.buffer_size_rows
           M == MaxChunksPerRank(info)
           cap == M * C * NRanks
           rows == Smaller(remaining, cap)
           k == rows \div C
<1>1. C \in Nat \ {0} /\ B \in Nat \ {0} /\ NRanks \in Nat \ {0}
  BY NRanksAssumption DEF DSInfo
<1>2. M \in Nat /\ C * M <= B
  <2>1. B \div C \in Nat /\ B % C \in Nat /\ B = C * (B \div C) + (B % C)
    BY <1>1, DivisionWithRemainder
  <2>2. M = B \div C
    BY DEF MaxChunksPerRank
  <2>3. C * (B \div C) \in Nat
    BY <1>1, <2>1, ProductIsNat
  <2> QED
    BY <1>1, <2>1, <2>2, <2>3
<1>3. M * C \in Nat /\ cap \in Nat
  BY <1>1, <1>2, ProductIsNat
<1>4. rows \in Nat /\ rows <= remaining /\ rows <= cap
  BY <1>3 DEF Smaller
<1>5. k \in Nat /\ rows % C \in Nat /\ rows % C < C /\ rows = C * k + (rows % C)
  BY <1>1, <1>4, DivisionWithRemainder
<1>6. WholeChunks(info, remaining) = k
  <2>1. WholeChunks(info, remaining) = (rows - (rows % C)) \div C
    BY DEF WholeChunks
  <2>2. rows - (rows % C) = C * k
    BY <1>1, <1>4, <1>5, ProductIsNat
  <2>3. (C * k) \div C = k
    BY <1>1, <1>5, MultipleDivided
  <2> QED
    BY <2>1, <2>2, <2>3
<1>7. k * C <= remaining
  BY <1>1, <1>4, <1>5, SMT
<1>8. M * C <= B
  BY <1>1, <1>2, SMT
<1>9. k <= M * NRanks
  <2>1. cap = (M * NRanks) * C /\ M * NRanks \in Nat
    BY <1>1, <1>2, SMT
  <2> QED
    BY <1>1, <1>4, <2>1, QuotientBound
<1>10. k = 0 => remaining < C \/ M = 0
  <2> SUFFICES ASSUME k = 0, M # 0 PROVE remaining < C
    OBVIOUS
  <2>1. rows < C
    BY <1>1, <1>5
  <2>2. C <= M * C
    BY <1>1, <1>2, SMT
  <2>3. M * C <= cap
    BY <1>1, <1>3, SMT
  <2> QED
    BY <1>1, <1>3, <2>1, <2>2, <2>3 DEF Smaller
<1> HIDE DEF C, B, M, cap, rows, k
<1> QED
  BY <1>2, <1>5, <1>6, <1>7, <1>8, <1>9, <1>10 DEF C, B, M

(* A rank's share: its chunks fit its buffer, and they fit without the     *)
(* extra rows too unless every rank has a full share.                      *)
LEMMA ShareBounds ==
  ASSUME NEW info \in DSInfo, NEW remaining \in Nat
  PROVE  /\ MinSize(info, remaining) \in Nat
         /\ Leftovers(info, remaining) \in Ranks
         /\ WholeChunks(info, remaining) =
              NRanks * MinSize(info, remaining) + Leftovers(info, remaining)
         /\ \A r \in Ranks :
              /\ ChunksOfRank(info, remaining, r) \in Nat
              /\ ChunksOfRank(info, remaining, r) <= MaxChunksPerRank(info)
<1> DEFINE W == WholeChunks(info, remaining)
           M == MaxChunksPerRank(info)
<1>1. W \in Nat /\ M \in Nat /\ W <= M * NRanks
  BY WholeChunksBounds
<1>2. NRanks \in Nat \ {0}
  BY NRanksAssumption
<1>3. /\ W \div NRanks \in Nat
      /\ W % NRanks \in Nat
      /\ W % NRanks < NRanks
      /\ W = NRanks * (W \div NRanks) + (W % NRanks)
  BY <1>1, <1>2, DivisionWithRemainder
<1>4. W \div NRanks <= M /\ (W \div NRanks = M => W % NRanks = 0)
  BY <1>1, <1>2, QuotientBound
<1> DEFINE q == MinSize(info, remaining)
           l == Leftovers(info, remaining)
<1>5. /\ q \in Nat /\ l \in Nat /\ l < NRanks
      /\ W = NRanks * q + l
      /\ q <= M /\ (q = M => l = 0)
  BY <1>3, <1>4 DEF MinSize, Leftovers
<1>6. ASSUME NEW r \in Ranks
      PROVE  /\ ChunksOfRank(info, remaining, r) \in Nat
             /\ ChunksOfRank(info, remaining, r) <= M
  <2>1. r \in Nat
    BY <1>2 DEF Ranks
  <2>2. ChunksOfRank(info, remaining, r) = IF r < l THEN q + 1 ELSE q
    BY DEF ChunksOfRank
  <2> HIDE DEF q, l, M, W
  <2> QED
    BY <1>1, <1>5, <2>1, <2>2
<1>7. l \in Ranks
  <2> HIDE DEF q, l, M, W
  <2> QED
    BY <1>2, <1>5 DEF Ranks
<1> QED
  BY <1>5, <1>6, <1>7

-----------------------------------------------------------------------------
(* The rows of an iteration and of a rank. *)

LEMMA ChunkedRowsBounds ==
  ASSUME NEW info \in DSInfo, NEW remaining \in Nat
  PROVE  /\ CompletingRows(info, remaining) \in Nat
         /\ CompletingRows(info, remaining) < info.chunk_rows
         /\ CompletingRows(info, remaining) > 0 => WholeChunks(info, remaining) > 0
         /\ WholeChunks(info, remaining) > 0 =>
              CompletingRows(info, remaining) = IncompleteChunkSize(info)
         /\ ChunkedRows(info, remaining) \in Nat
         /\ ChunkedRows(info, remaining) <= remaining
         /\ ChunkedRows(info, remaining) = 0 <=> WholeChunks(info, remaining) = 0
<1> DEFINE C == info.chunk_rows
           W == WholeChunks(info, remaining)
           inc == IncompleteChunkSize(info)
           cr == CompletingRows(info, remaining)
<1>1. C \in Nat \ {0} /\ info.n_rows_written_total \in Nat
  BY DEF DSInfo
<1>2. inc \in Nat /\ inc < C
  BY <1>1, DivisionWithRemainder DEF IncompleteChunkSize
<1>3. W \in Nat /\ W * C <= remaining
  BY WholeChunksBounds
<1>4. W * C \in Nat /\ (W > 0 => W * C >= C) /\ (W = 0 => W * C = 0)
  BY <1>1, <1>3, SMT
<1>5. cr = IF inc > 0 /\ W * C >= inc THEN inc ELSE 0
  BY DEF CompletingRows
<1>6. ChunkedRows(info, remaining) = W * C - cr
  BY DEF ChunkedRows
<1> HIDE DEF C, W, inc, cr
<1>7. cr \in Nat /\ cr < C /\ (cr > 0 => W > 0) /\ (W > 0 => cr = inc)
  BY <1>1, <1>2, <1>3, <1>4, <1>5
<1> QED
  BY <1>1, <1>3, <1>4, <1>6, <1>7 DEF C, W, inc, cr

LEMMA ChunkedRowsOfRankBounds ==
  ASSUME NEW info \in DSInfo, NEW remaining \in Nat, NEW r \in Ranks
  PROVE  /\ ChunkedRowsOfRank(info, remaining, r) \in Nat
         /\ ChunkedRowsOfRank(info, remaining, r) <= info.buffer_size_rows
<1> DEFINE C == info.chunk_rows
           B == info.buffer_size_rows
           M == MaxChunksPerRank(info)
           W == WholeChunks(info, remaining)
           k == ChunksOfRank(info, remaining, r)
           cr == CompletingRows(info, remaining)
<1>1. C \in Nat \ {0} /\ B \in Nat
  BY DEF DSInfo
<1>2. M \in Nat /\ M * C <= B /\ W \in Nat
  BY WholeChunksBounds
<1>3. k \in Nat /\ k <= M
  BY ShareBounds
<1>4. cr \in Nat /\ cr < C /\ (cr > 0 => W > 0)
  BY ChunkedRowsBounds
<1>5. r = 0 /\ W > 0 => k > 0
  <2> SUFFICES ASSUME r = 0, W > 0 PROVE k > 0
    OBVIOUS
  <2>1. /\ MinSize(info, remaining) \in Nat
        /\ Leftovers(info, remaining) \in Nat
        /\ W = NRanks * MinSize(info, remaining) + Leftovers(info, remaining)
    BY ShareBounds DEF Ranks
  <2>2. MinSize(info, remaining) > 0 \/ Leftovers(info, remaining) > 0
    BY <2>1, NRanksAssumption
  <2> QED
    BY <2>1, <2>2 DEF ChunksOfRank
<1>6. k * C <= M * C /\ k * C \in Nat /\ M * C \in Nat
  BY <1>1, <1>2, <1>3, ProductMonotone, ProductIsNat
<1>7. k > 0 => k * C >= C
  BY <1>1, <1>3, SMT
<1>8. ChunkedRowsOfRank(info, remaining, r) = k * C - (IF r = 0 THEN cr ELSE 0)
  BY DEF ChunkedRowsOfRank
<1> HIDE DEF C, B, M, W, k, cr
<1> QED
  BY <1>1, <1>2, <1>3, <1>4, <1>5, <1>6, <1>7, <1>8 DEF B

(* An iteration passes at least one row and no more than are left: the     *)
(* loop of handle_dataset_() makes progress and stops.                     *)
THEOREM IterationProgress ==
  ASSUME NEW info \in DSInfo, NEW remaining \in Nat \ {0}
  PROVE  /\ ExtraRows(info, remaining) \in Nat
         /\ IterationRows(info, remaining) \in 1 .. remaining
<1> DEFINE C == info.chunk_rows
           B == info.buffer_size_rows
           ch == ChunkedRows(info, remaining)
           tail == TailRows(info, remaining)
           ex == ExtraRows(info, remaining)
<1>1. C \in Nat \ {0} /\ B \in Nat \ {0}
  BY DEF DSInfo
<1>2. ch \in Nat /\ ch <= remaining
  BY ChunkedRowsBounds
<1>3. tail = remaining - ch
  BY DEF TailRows
<1>4. ex = IF tail > 0 /\ tail < C THEN tail
           ELSE IF ch = 0 THEN Smaller(tail, B) ELSE 0
  BY DEF ExtraRows, CompletesInput
<1>5. IterationRows(info, remaining) = ch + ex
  BY DEF IterationRows
<1> HIDE DEF C, B, ch, tail, ex
<1> QED
  BY <1>1, <1>2, <1>3, <1>4, <1>5 DEF Smaller, ex

(* No rank is given more rows than buffer_ can hold. *)
THEOREM RankRowsFitBuffer ==
  ASSUME NEW info \in DSInfo, NEW remaining \in Nat \ {0}, NEW r \in Ranks
  PROVE  /\ RankRows(info, remaining, r) \in Nat
         /\ RankRows(info, remaining, r) <= info.buffer_size_rows
<1> DEFINE own == ChunkedRowsOfRank(info, remaining, r)
           ex == ExtraRows(info, remaining)
<1>1. own \in Nat /\ own <= info.buffer_size_rows
  BY ChunkedRowsOfRankBounds
<1>2. ex \in Nat
  BY IterationProgress
<1>3. CASE r = ExtraRank(info, remaining) /\ ExtraFits(info, remaining)
  BY <1>1, <1>2, <1>3 DEF RankRows, ExtraFits
<1>4. CASE ~ (r = ExtraRank(info, remaining) /\ ExtraFits(info, remaining))
  BY <1>1, <1>2, <1>4 DEF RankRows
<1> QED
  BY <1>3, <1>4

-----------------------------------------------------------------------------
(* Which rows a rank is given. *)

LEMMA FirstChunkBounds ==
  ASSUME NEW info \in DSInfo, NEW remaining \in Nat, NEW r \in Ranks
  PROVE  /\ FirstChunk(info, remaining, r) \in Nat
         /\ FirstChunk(info, remaining, r) + ChunksOfRank(info, remaining, r)
              <= WholeChunks(info, remaining)
         /\ r > 0 /\ ChunksOfRank(info, remaining, r) > 0 =>
              FirstChunk(info, remaining, r) > 0
         /\ \A s \in Ranks : r < s =>
              FirstChunk(info, remaining, r) + ChunksOfRank(info, remaining, r)
                <= FirstChunk(info, remaining, s)
<1> DEFINE q == MinSize(info, remaining)
           l == Leftovers(info, remaining)
           W == WholeChunks(info, remaining)
           first(p) == IF p < l THEN p * (q + 1) ELSE l + p * q
           k(p) == IF p < l THEN q + 1 ELSE q
<1>1. q \in Nat /\ l \in Nat /\ l < NRanks /\ W = NRanks * q + l
  BY ShareBounds, NRanksAssumption DEF Ranks
<1>2. NRanks \in Nat \ {0} /\ r \in Nat /\ r < NRanks
  BY NRanksAssumption DEF Ranks
<1>3. \A p \in Ranks : /\ FirstChunk(info, remaining, p) = first(p)
                       /\ ChunksOfRank(info, remaining, p) = k(p)
  BY DEF FirstChunk, ChunksOfRank
<1> HIDE DEF q, l, W
<1>4. first(r) \in Nat /\ k(r) \in Nat /\ (r > 0 /\ k(r) > 0 => first(r) > 0)
  BY <1>1, <1>2, SMT
<1>5. first(r) + k(r) <= W
  <2>1. CASE r < l
    <3>1. r * (q + 1) + (q + 1) <= l * (q + 1)
      BY <1>1, <1>2, <2>1, ProductStep
    <3>2. l * q <= NRanks * q
      BY <1>1, <1>2, ProductMonotone
    <3>3. l * (q + 1) = l * q + l
      BY <1>1, SMT
    <3> QED
      BY <1>1, <1>2, <2>1, <3>1, <3>2, <3>3, SMT
  <2>2. CASE ~ (r < l)
    <3>1. r * q + q <= NRanks * q
      BY <1>1, <1>2, ProductStep
    <3> QED
      BY <1>1, <1>2, <2>2, <3>1, SMT
  <2> QED
    BY <2>1, <2>2
<1>6. ASSUME NEW s \in Ranks, r < s
      PROVE  first(r) + k(r) <= first(s)
  <2>1. s \in Nat /\ s < NRanks
    BY <1>2 DEF Ranks
  <2>2. CASE s < l
    <3>1. r * (q + 1) + (q + 1) <= s * (q + 1)
      BY <1>1, <1>2, <1>6, <2>1, ProductStep
    <3> QED
      BY <1>1, <1>2, <1>6, <2>1, <2>2, <3>1
  <2>3. CASE r < l /\ ~ (s < l)
    <3>1. r * (q + 1) + (q + 1) <= l * (q + 1)
      BY <1>1, <1>2, <2>3, ProductStep
    <3>2. l * q <= s * q
      BY <1>1, <2>1, <2>3, ProductMonotone
    <3>3. l * (q + 1) = l * q + l
      BY <1>1, SMT
    <3>4. r * (q + 1) \in Nat /\ l * q \in Nat /\ s * q \in Nat
      BY <1>1, <1>2, <2>1, ProductIsNat
    <3> QED
      BY <1>1, <1>2, <2>1, <2>3, <3>1, <3>2, <3>3, <3>4
  <2>4. CASE ~ (r < l)
    <3>1. r * q + q <= s * q
      BY <1>1, <1>2, <1>6, <2>1, ProductStep
    <3>2. r * q \in Nat /\ s * q \in Nat
      BY <1>1, <1>2, <2>1, ProductIsNat
    <3> QED
      BY <1>1, <1>2, <1>6, <2>1, <2>4, <3>1, <3>2
  <2> QED
    BY <2>2, <2>3, <2>4
<1> QED
  BY <1>3, <1>4, <1>5, <1>6 DEF W

(* The chunked rows of a rank, as an interval relative to the cursor. *)
LEMMA ChunkedInterval ==
  ASSUME NEW info \in DSInfo, NEW remaining \in Nat, NEW r \in Ranks
  PROVE  /\ Offset(info, remaining, r) \in Int
         /\ ChunkedRowsOfRank(info, remaining, r) > 0 =>
              Offset(info, remaining, r) >= 0
         /\ WholeChunks(info, remaining) > 0 =>
              Offset(info, remaining, r)
                + ChunkedRowsOfRank(info, remaining, r)
              = (FirstChunk(info, remaining, r)
                   + ChunksOfRank(info, remaining, r)) * info.chunk_rows
                - IncompleteChunkSize(info)
         /\ WholeChunks(info, remaining) = 0 =>
              ChunkedRowsOfRank(info, remaining, r) = 0
<1> DEFINE C == info.chunk_rows
           W == WholeChunks(info, remaining)
           inc == IncompleteChunkSize(info)
           cr == CompletingRows(info, remaining)
           f == FirstChunk(info, remaining, r)
           k == ChunksOfRank(info, remaining, r)
<1>1. C \in Nat \ {0} /\ info.n_rows_written_total \in Nat
  BY DEF DSInfo
<1>2. inc \in Nat /\ inc < C
  BY <1>1, DivisionWithRemainder DEF IncompleteChunkSize
<1>3. f \in Nat /\ k \in Nat /\ f + k <= W /\ (r > 0 /\ k > 0 => f > 0)
  BY FirstChunkBounds, ShareBounds
<1>4. W \in Nat /\ cr \in Nat /\ (cr > 0 => W > 0) /\ (W > 0 => cr = inc)
  BY WholeChunksBounds, ChunkedRowsBounds
<1>5. r \in Nat
  BY NRanksAssumption DEF Ranks
<1>6. r = 0 => f = 0
  <2> SUFFICES ASSUME r = 0 PROVE f = 0
    OBVIOUS
  <2>1. MinSize(info, remaining) \in Nat /\ Leftovers(info, remaining) \in Nat
    BY ShareBounds, NRanksAssumption DEF Ranks
  <2> QED
    BY <2>1, SMT DEF FirstChunk
<1>7. Offset(info, remaining, r) = IF r = 0 THEN 0 ELSE f * C - inc
  BY DEF Offset
<1>8. ChunkedRowsOfRank(info, remaining, r) = k * C - (IF r = 0 THEN cr ELSE 0)
  BY DEF ChunkedRowsOfRank
<1> HIDE DEF C, W, inc, cr, f, k
<1>9. /\ f * C \in Nat /\ k * C \in Nat /\ (f + k) * C = f * C + k * C
      /\ (f > 0 => f * C >= C) /\ (k = 0 => k * C = 0) /\ (f = 0 => f * C = 0)
  BY <1>1, <1>3, SMT
<1> QED
  BY <1>1, <1>2, <1>3, <1>4, <1>5, <1>6, <1>7, <1>8, <1>9 DEF C, W, inc, f, k

(* The rank that takes the extra rows starts them where the chunked rows   *)
(* of the whole iteration end, and the ranks above it have nothing.        *)
LEMMA ExtraPosition ==
  ASSUME NEW info \in DSInfo, NEW remaining \in Nat \ {0},
         ExtraRows(info, remaining) > 0
  PROVE  /\ ExtraRank(info, remaining) \in Ranks
         /\ Offset(info, remaining, ExtraRank(info, remaining)) >= 0
         /\ Offset(info, remaining, ExtraRank(info, remaining))
              + ChunkedRowsOfRank(info, remaining, ExtraRank(info, remaining))
            = ChunkedRows(info, remaining)
         /\ \A s \in Ranks : s > ExtraRank(info, remaining) =>
              ChunkedRowsOfRank(info, remaining, s) = 0
<1> DEFINE C == info.chunk_rows
           W == WholeChunks(info, remaining)
           q == MinSize(info, remaining)
           l == Leftovers(info, remaining)
           e == ExtraRank(info, remaining)
           inc == IncompleteChunkSize(info)
<1>1. C \in Nat \ {0} /\ NRanks \in Nat \ {0}
  BY NRanksAssumption DEF DSInfo
<1>2. inc \in Nat /\ inc < C
  BY <1>1, DivisionWithRemainder DEF IncompleteChunkSize, DSInfo
<1>3. q \in Nat /\ l \in Nat /\ l < NRanks /\ W = NRanks * q + l /\ W \in Nat
  BY ShareBounds, WholeChunksBounds, <1>1 DEF Ranks
<1>4. /\ (W > 0 => CompletingRows(info, remaining) = inc)
      /\ (ChunkedRows(info, remaining) = 0 <=> W = 0)
      /\ ChunkedRows(info, remaining) \in Nat
      /\ ChunkedRows(info, remaining) = W * C - CompletingRows(info, remaining)
  BY ChunkedRowsBounds DEF ChunkedRows
<1>5. CASE W = 0
  <2>1. q = 0 /\ l = 0
    BY <1>1, <1>3, <1>5, SMT
  <2>2. e = 0
    BY <2>1 DEF ExtraRank
  <2>3. 0 \in Ranks
    BY <1>1 DEF Ranks
  <2>4. Offset(info, remaining, 0) = 0
    BY DEF Offset
  <2>5. \A s \in Ranks : ChunkedRowsOfRank(info, remaining, s) = 0
    BY <1>5, ChunkedInterval
  <2> QED
    BY <1>4, <1>5, <2>2, <2>3, <2>4, <2>5
<1>6. CASE W > 0
  <2>1. CompletesInput(info, remaining)
    BY <1>4, <1>6 DEF ExtraRows
  <2>2. e = IF q = 0 THEN l ELSE NRanks - 1
    BY <2>1 DEF ExtraRank
  <2>3. e \in Ranks
    BY <1>1, <1>3, <2>2 DEF Ranks
  <2>4. FirstChunk(info, remaining, e) + ChunksOfRank(info, remaining, e) = W
    <3>1. ~ (e < l)
      BY <1>1, <1>3, <2>2
    <3>2. /\ FirstChunk(info, remaining, e) = l + e * q
          /\ ChunksOfRank(info, remaining, e) = q
      BY <3>1 DEF FirstChunk, ChunksOfRank
    <3>3. CASE q = 0
      <4>1. e * q = 0 /\ NRanks * q = 0
        BY <1>1, <1>3, <2>2, <3>3, SMT
      <4> QED
        BY <1>3, <3>2, <3>3, <4>1
    <3>4. CASE q # 0
      <4>1. (NRanks - 1) * q + q = NRanks * q
        BY <1>1, <1>3, SMT
      <4>2. (NRanks - 1) * q \in Int /\ NRanks * q \in Int
        BY <1>1, <1>3
      <4> QED
        BY <1>3, <2>2, <3>2, <3>4, <4>1, <4>2
    <3> QED
      BY <3>3, <3>4
  <2>5. Offset(info, remaining, e) + ChunkedRowsOfRank(info, remaining, e)
          = W * C - inc
    BY <1>6, <2>3, <2>4, ChunkedInterval
  <2>6. Offset(info, remaining, e) >= 0
    <3>1. CASE e = 0
      BY <3>1 DEF Offset
    <3>2. CASE e # 0
      <4>1. Offset(info, remaining, e) = FirstChunk(info, remaining, e) * C - inc
        BY <3>2 DEF Offset
      <4>2. FirstChunk(info, remaining, e) \in Nat
        BY <2>3, FirstChunkBounds
      <4>3. FirstChunk(info, remaining, e) > 0
        <5>1. CASE q = 0
          <6>1. ChunksOfRank(info, remaining, e) = 0
            BY <1>3, <2>2, <5>1 DEF ChunksOfRank
          <6> QED
            BY <1>6, <2>4, <4>2, <6>1
        <5>2. CASE q # 0
          <6>1. ChunksOfRank(info, remaining, e) > 0
            BY <1>3, <5>2 DEF ChunksOfRank
          <6>2. e > 0
            BY <1>1, <2>3, <3>2 DEF Ranks
          <6> QED
            BY <2>3, <6>1, <6>2, FirstChunkBounds
        <5> QED
          BY <5>1, <5>2
      <4>4. FirstChunk(info, remaining, e) * C >= C
        BY <1>1, <4>2, <4>3, SMT
      <4>5. FirstChunk(info, remaining, e) * C \in Nat
        BY <1>1, <4>2, ProductIsNat
      <4> QED
        BY <1>1, <1>2, <4>1, <4>4, <4>5
    <3> QED
      BY <3>1, <3>2
  <2>7. ASSUME NEW s \in Ranks, s > e
        PROVE  ChunkedRowsOfRank(info, remaining, s) = 0
    <3>1. q = 0 /\ e = l
      BY <1>1, <2>2, <2>7 DEF Ranks
    <3>2. ChunksOfRank(info, remaining, s) = 0
      BY <1>1, <1>3, <2>7, <3>1 DEF ChunksOfRank, Ranks
    <3>3. s # 0
      BY <1>1, <1>3, <2>7, <3>1 DEF Ranks
    <3> QED
      BY <1>1, <3>2, <3>3 DEF ChunkedRowsOfRank
  <2> QED
    BY <1>4, <1>6, <2>3, <2>5, <2>6, <2>7
<1> QED
  BY <1>3, <1>5, <1>6

(* The slice of a rank that has rows lies between the cursor and where the *)
(* cursor will be after the iteration; in particular its start is not the  *)
(* result of a wrapped subtraction.                                        *)
THEOREM RankSliceInIteration ==
  ASSUME NEW info \in DSInfo, NEW remaining \in Nat \ {0}, NEW r \in Ranks,
         RankRows(info, remaining, r) > 0
  PROVE  /\ Offset(info, remaining, r) \in Nat
         /\ Offset(info, remaining, r) + RankRows(info, remaining, r)
              <= IterationRows(info, remaining)
<1> DEFINE own == ChunkedRowsOfRank(info, remaining, r)
           off == Offset(info, remaining, r)
           ch == ChunkedRows(info, remaining)
           ex == ExtraRows(info, remaining)
<1>1. own \in Nat /\ off \in Int /\ ch \in Nat /\ ex \in Nat
  BY ChunkedRowsOfRankBounds, ChunkedInterval, ChunkedRowsBounds, IterationProgress
<1>2. own > 0 => off >= 0 /\ off + own <= ch
  <2> SUFFICES ASSUME own > 0 PROVE off >= 0 /\ off + own <= ch
    OBVIOUS
  <2> DEFINE C == info.chunk_rows
             W == WholeChunks(info, remaining)
             f == FirstChunk(info, remaining, r)
             k == ChunksOfRank(info, remaining, r)
  <2>1. W \in Nat /\ W > 0
    BY ChunkedInterval, WholeChunksBounds
  <2>2. off + own = (f + k) * C - IncompleteChunkSize(info) /\ off >= 0
    BY <2>1, ChunkedInterval
  <2>3. f + k <= W /\ f + k \in Nat
    <3>1. f \in Nat /\ f + k <= W
      BY FirstChunkBounds
    <3>2. k \in Nat
      BY ShareBounds
    <3> HIDE DEF f, k, W
    <3> QED
      BY <3>1, <3>2
  <2>4. C \in Nat
    BY DEF DSInfo
  <2>5. (f + k) * C <= W * C
    BY <2>1, <2>3, <2>4, ProductMonotone
  <2>6. ch = W * C - IncompleteChunkSize(info)
    BY <2>1, ChunkedRowsBounds DEF ChunkedRows
  <2>7. IncompleteChunkSize(info) \in Nat
    BY DivisionWithRemainder DEF IncompleteChunkSize, DSInfo
  <2>8. (f + k) * C \in Nat /\ W * C \in Nat
    BY <2>1, <2>3, <2>4, ProductIsNat
  <2> HIDE DEF C, W, f, k, own, off, ch
  <2> QED
    BY <2>2, <2>5, <2>6, <2>7, <2>8
<1>3. IterationRows(info, remaining) = ch + ex
  BY DEF IterationRows
<1>4. CASE r = ExtraRank(info, remaining) /\ ExtraFits(info, remaining) /\ ex > 0
  <2>1. off >= 0 /\ off + own = ch
    BY <1>4, ExtraPosition
  <2>2. RankRows(info, remaining, r) = own + ex
    BY <1>4 DEF RankRows
  <2> QED
    BY <1>1, <1>3, <2>1, <2>2
<1>5. CASE ~ (r = ExtraRank(info, remaining) /\ ExtraFits(info, remaining) /\ ex > 0)
  <2>1. RankRows(info, remaining, r) = own
    BY <1>1, <1>5 DEF RankRows
  <2> QED
    BY <1>1, <1>2, <1>3, <2>1
<1> QED
  BY <1>4, <1>5

(* The slices of two ranks in one iteration follow one another.            *)
THEOREM RankSlicesDisjoint ==
  ASSUME NEW info \in DSInfo, NEW remaining \in Nat \ {0},
         NEW r \in Ranks, NEW s \in Ranks, r < s,
         RankRows(info, remaining, r) > 0, RankRows(info, remaining, s) > 0
  PROVE  Offset(info, remaining, r) + RankRows(info, remaining, r)
           <= Offset(info, remaining, s)
<1> DEFINE ownr == ChunkedRowsOfRank(info, remaining, r)
           owns == ChunkedRowsOfRank(info, remaining, s)
           ex == ExtraRows(info, remaining)
           e == ExtraRank(info, remaining)
<1>1. ownr \in Nat /\ owns \in Nat /\ ex \in Nat
  BY ChunkedRowsOfRankBounds, IterationProgress
<1>2. r \in Nat /\ s \in Nat
  BY NRanksAssumption DEF Ranks
<1>3. ex > 0 => e # r
  <2> SUFFICES ASSUME ex > 0, e = r PROVE FALSE
    OBVIOUS
  <2>1. owns = 0 /\ s # e
    BY <1>2, ExtraPosition
  <2> QED
    BY <2>1 DEF RankRows
<1>4. RankRows(info, remaining, r) = ownr /\ ownr > 0
  BY <1>1, <1>3 DEF RankRows
<1> DEFINE C == info.chunk_rows
           fr == FirstChunk(info, remaining, r)
           kr == ChunksOfRank(info, remaining, r)
           fs == FirstChunk(info, remaining, s)
           inc == IncompleteChunkSize(info)
<1>5. Offset(info, remaining, r) + ownr = (fr + kr) * C - inc
  BY <1>4, ChunkedInterval, WholeChunksBounds
<1>6. Offset(info, remaining, s) = fs * C - inc
  BY <1>2 DEF Offset
<1>7. fr + kr \in Nat /\ fs \in Nat /\ fr + kr <= fs
  <2>1. fr \in Nat /\ fs \in Nat /\ fr + kr <= fs
    BY FirstChunkBounds
  <2>2. kr \in Nat
    BY ShareBounds
  <2> HIDE DEF fr, kr, fs
  <2> QED
    BY <2>1, <2>2
<1>8. C \in Nat /\ inc \in Nat
  BY DivisionWithRemainder DEF DSInfo, IncompleteChunkSize
<1>9. (fr + kr) * C <= fs * C /\ (fr + kr) * C \in Nat /\ fs * C \in Nat
  BY <1>7, <1>8, ProductMonotone, ProductIsNat
<1> HIDE DEF C, fr, kr, fs, inc
<1> QED
  BY <1>4, <1>5, <1>6, <1>8, <1>9

-----------------------------------------------------------------------------
(* The slices of the ranks leave no row of the iteration out, except for   *)
(* extra rows that do not fit.                                             *)

(* Every whole chunk of the iteration has a rank. *)
LEMMA ChunkOwner ==
  ASSUME NEW info \in DSInfo, NEW remaining \in Nat,
         NEW y \in Nat, y < WholeChunks(info, remaining)
  PROVE  \E r \in Ranks :
           /\ FirstChunk(info, remaining, r) <= y
           /\ y < FirstChunk(info, remaining, r) + ChunksOfRank(info, remaining, r)
<1> DEFINE q == MinSize(info, remaining)
           l == Leftovers(info, remaining)
           W == WholeChunks(info, remaining)
           first(p) == IF p < l THEN p * (q + 1) ELSE l + p * q
           k(p) == IF p < l THEN q + 1 ELSE q
<1>1. q \in Nat /\ l \in Nat /\ l < NRanks /\ W = NRanks * q + l
  BY ShareBounds, NRanksAssumption DEF Ranks
<1>2. NRanks \in Nat \ {0}
  BY NRanksAssumption
<1>3. SUFFICES \E r \in Ranks : first(r) <= y /\ y < first(r) + k(r)
  BY DEF FirstChunk, ChunksOfRank
<1> HIDE DEF q, l, W
<1>4. y < W
  BY DEF W
<1>5. CASE y < l * (q + 1)
  <2> DEFINE d == y \div (q + 1)
             m == y % (q + 1)
  <2>1. d \in Nat /\ m \in Nat /\ m < q + 1 /\ y = (q + 1) * d + m
    <3>1. q + 1 \in Nat \ {0}
      BY <1>1
    <3> HIDE DEF first, k
    <3> QED
      BY <3>1, DivisionWithRemainder
  <2> HIDE DEF d, m
  <2>2. d < l
    <3> SUFFICES ASSUME l <= d PROVE FALSE
      BY <1>1, <2>1
    <3>1. l * (q + 1) <= d * (q + 1)
      BY <1>1, <2>1, ProductMonotone
    <3> QED
      BY <1>1, <1>5, <2>1, <3>1, SMT
  <2>3. d \in Ranks
    BY <1>1, <1>2, <2>1, <2>2 DEF Ranks
  <2>4. d * (q + 1) <= y /\ y < d * (q + 1) + (q + 1)
    BY <1>1, <2>1, SMT
  <2> QED
    BY <2>2, <2>3, <2>4
<1>6. CASE ~ (y < l * (q + 1))
  <2>1. l * (q + 1) = l * q + l /\ l * q \in Nat /\ NRanks * q \in Nat
    BY <1>1, <1>2, SMT
  <2>2. q # 0
    <3> SUFFICES ASSUME q = 0 PROVE FALSE
      OBVIOUS
    <3>1. l * q = 0 /\ NRanks * q = 0
      BY <1>1, <1>2, SMT
    <3> QED
      BY <1>1, <1>4, <1>6, <2>1, <3>1
  <2> DEFINE z == y - l * (q + 1)
             d == z \div q
             m == z % q
  <2>3. z \in Nat /\ y = l * q + l + z
    BY <1>1, <1>6, <2>1
  <2>4. d \in Nat /\ m \in Nat /\ m < q /\ z = q * d + m
    BY <1>1, <2>2, <2>3, DivisionWithRemainder
  <2> HIDE DEF z, d, m
  <2>5. d < NRanks - l
    <3> SUFFICES ASSUME NRanks - l <= d PROVE FALSE
      BY <1>1, <1>2, <2>4
    <3>1. (NRanks - l) * q <= d * q
      BY <1>1, <1>2, <2>4, ProductMonotone
    <3>2. (NRanks - l) * q = NRanks * q - l * q /\ q * d = d * q /\ d * q \in Nat
      BY <1>1, <1>2, <2>4, SMT
    <3>3. z < NRanks * q - l * q
      BY <1>1, <1>4, <2>1, <2>3
    <3> QED
      BY <2>1, <2>3, <2>4, <3>1, <3>2, <3>3
  <2>6. l + d \in Ranks /\ ~ (l + d < l)
    BY <1>1, <1>2, <2>4, <2>5 DEF Ranks
  <2>7. (l + d) * q = l * q + q * d
    BY <1>1, <2>4, SMT
  <2>8. q * d \in Nat
    BY <1>1, <2>4, ProductIsNat
  <2>9. l + (l + d) * q <= y /\ y < l + (l + d) * q + q
    BY <1>1, <2>1, <2>3, <2>4, <2>7, <2>8
  <2> QED
    BY <2>6, <2>9
<1> QED
  BY <1>5, <1>6

(* Every row of an iteration is in the slice of a rank, unless it is one   *)
(* of the rows that complete the input and these do not fit.               *)
THEOREM RankSlicesCover ==
  ASSUME NEW info \in DSInfo, NEW remaining \in Nat \ {0},
         NEW x \in Nat, x < IterationRows(info, remaining)
  PROVE  \/ \E r \in Ranks : InSlice(info, remaining, r, x)
         \/ /\ CompletesInput(info, remaining)
            /\ ~ ExtraFits(info, remaining)
            /\ x >= ChunkedRows(info, remaining)
<1> DEFINE C == info.chunk_rows
           W == WholeChunks(info, remaining)
           inc == IncompleteChunkSize(info)
           ch == ChunkedRows(info, remaining)
           ex == ExtraRows(info, remaining)
           e == ExtraRank(info, remaining)
<1>1. C \in Nat \ {0} /\ inc \in Nat /\ inc < C
  BY DivisionWithRemainder DEF DSInfo, IncompleteChunkSize
<1>2. /\ W \in Nat /\ ch \in Nat /\ ex \in Nat
      /\ CompletingRows(info, remaining) \in Nat
      /\ W > 0 => CompletingRows(info, remaining) = inc
      /\ CompletingRows(info, remaining) > 0 => W > 0
  BY WholeChunksBounds, ChunkedRowsBounds, IterationProgress
<1>3. x < ch + ex
  BY DEF IterationRows
<1>4. CASE x < ch
  <2>1. W > 0
    <3> SUFFICES ASSUME W = 0 PROVE FALSE
      BY <1>2
    <3>1. W * C = 0
      BY <1>1
    <3> HIDE DEF W, C
    <3> QED
      BY <1>2, <1>4, <3>1 DEF ChunkedRows, W, C
  <2>2. ch = W * C - inc
    BY <1>2, <2>1 DEF ChunkedRows
  <2> HIDE DEF C, W, inc, ch
  <2> DEFINE y == (x + inc) \div C
             m == (x + inc) % C
  <2>3. y \in Nat /\ m \in Nat /\ m < C /\ x + inc = C * y + m
    <3>1. x + inc \in Nat
      BY <1>1
    <3> QED
      BY <1>1, <3>1, DivisionWithRemainder
  <2> HIDE DEF y, m
  <2>4. y < W
    <3> SUFFICES ASSUME W <= y PROVE FALSE
      BY <1>2, <2>3
    <3>1. W * C <= y * C
      BY <1>1, <1>2, <2>3, ProductMonotone
    <3>2. C * y = y * C /\ y * C \in Nat /\ W * C \in Nat
      BY <1>1, <1>2, <2>3, SMT
    <3> QED
      BY <1>1, <1>2, <1>4, <2>2, <2>3, <3>1, <3>2
  <2>5. PICK r \in Ranks :
          /\ FirstChunk(info, remaining, r) <= y
          /\ y < FirstChunk(info, remaining, r) + ChunksOfRank(info, remaining, r)
    BY <2>3, <2>4, ChunkOwner DEF W
  <2> DEFINE f == FirstChunk(info, remaining, r)
             k == ChunksOfRank(info, remaining, r)
             off == Offset(info, remaining, r)
             own == ChunkedRowsOfRank(info, remaining, r)
  <2>6. f \in Nat /\ k \in Nat /\ f <= y /\ y < f + k
    BY <2>5, FirstChunkBounds, ShareBounds
  <2>7. off + own = (f + k) * C - inc /\ own \in Nat /\ off \in Int
    BY <2>1, ChunkedInterval, ChunkedRowsOfRankBounds DEF C, W, inc
  <2>8. off = IF r = 0 THEN 0 ELSE f * C - inc
    BY DEF Offset, C, inc
  <2> HIDE DEF f, k, off, own
  <2>9. f * C <= y * C /\ y * C + C <= (f + k) * C
    BY <1>1, <2>3, <2>6, ProductMonotone, ProductStep
  <2>10. f * C \in Nat /\ y * C \in Nat /\ (f + k) * C \in Nat /\ C * y = y * C
    BY <1>1, <2>3, <2>6, SMT
  <2>11. off <= x /\ x < off + own
    BY <1>1, <2>3, <2>7, <2>8, <2>9, <2>10
  <2>12. RankRows(info, remaining, r) = own
         \/ RankRows(info, remaining, r) = own + ex
    BY <1>2, <2>7 DEF RankRows, own
  <2>13. x < off + RankRows(info, remaining, r)
    BY <1>2, <2>7, <2>11, <2>12
  <2> QED
    BY <2>11, <2>13 DEF InSlice, off
<1>5. CASE x >= ch /\ ExtraFits(info, remaining)
  <2>1. ex > 0
    BY <1>2, <1>3, <1>5
  <2>2. /\ e \in Ranks /\ Offset(info, remaining, e) >= 0
        /\ Offset(info, remaining, e) + ChunkedRowsOfRank(info, remaining, e) = ch
    BY <2>1, ExtraPosition
  <2>3. RankRows(info, remaining, e) = ChunkedRowsOfRank(info, remaining, e) + ex
    BY <1>5 DEF RankRows
  <2>4. /\ ChunkedRowsOfRank(info, remaining, e) \in Nat
        /\ Offset(info, remaining, e) \in Int
    BY <2>2, ChunkedRowsOfRankBounds, ChunkedInterval
  <2> HIDE DEF e, ex, ch
  <2>5. InSlice(info, remaining, e, x)
    BY <1>2, <1>3, <1>5, <2>2, <2>3, <2>4 DEF InSlice
  <2> QED
    BY <2>2, <2>5
<1>6. CASE x >= ch /\ ~ ExtraFits(info, remaining)
  <2> SUFFICES ASSUME ~ CompletesInput(info, remaining) PROVE FALSE
    BY <1>6
  <2>1. ex > 0
    BY <1>2, <1>3, <1>6
  <2>2. ch = 0 /\ ex = Smaller(TailRows(info, remaining), info.buffer_size_rows)
    BY <2>1 DEF ExtraRows
  <2>3. W = 0
    <3>1. W > 0 => W * C >= C
      BY <1>1, <1>2, SMT
    <3> HIDE DEF W, C
    <3> QED
      BY <1>1, <1>2, <2>2, <3>1 DEF ChunkedRows, W, C
  <2>4. e = 0 /\ e \in Ranks
    BY NRanksAssumption DEF ExtraRank, Ranks
  <2>5. ChunkedRowsOfRank(info, remaining, e) = 0
    BY <2>3, <2>4, ChunkedInterval
  <2>6. ex <= info.buffer_size_rows
    BY <2>2 DEF Smaller, DSInfo, TailRows, ch
  <2> QED
    BY <1>2, <1>6, <2>5, <2>6 DEF ExtraFits
<1> QED
  BY <1>2, <1>4, <1>5, <1>6

(* With chunk_rows - 1 spare rows in the buffer the extra rows always fit. *)
LEMMA SpareRowsFit ==
  ASSUME NEW info \in DSInfo, NEW remaining \in Nat \ {0},
         info.buffer_size_rows % info.chunk_rows = info.chunk_rows - 1,
         CompletesInput(info, remaining)
  PROVE  ExtraFits(info, remaining)
<1> DEFINE C == info.chunk_rows
           B == info.buffer_size_rows
           M == MaxChunksPerRank(info)
           e == ExtraRank(info, remaining)
           own == ChunkedRowsOfRank(info, remaining, e)
           ex == ExtraRows(info, remaining)
<1>1. C \in Nat \ {0} /\ B \in Nat
  BY DEF DSInfo
<1>2. B = C * M + (C - 1) /\ M \in Nat
  BY <1>1, DivisionWithRemainder DEF MaxChunksPerRank
<1>3. ex > 0 /\ ex < C /\ ex \in Nat
  BY IterationProgress DEF CompletesInput, ExtraRows
<1>4. e \in Ranks
  BY <1>3, ExtraPosition
<1>5. own <= M * C
  <2> DEFINE k == ChunksOfRank(info, remaining, e)
             cr == CompletingRows(info, remaining)
  <2>1. k \in Nat /\ k <= M
    BY <1>4, ShareBounds
  <2>2. cr \in Nat
    BY ChunkedRowsBounds
  <2>3. own = k * C - (IF e = 0 THEN cr ELSE 0)
    BY DEF ChunkedRowsOfRank
  <2> HIDE DEF k, cr, own, M, C
  <2>4. k * C <= M * C /\ k * C \in Nat /\ M * C \in Nat
    BY <1>1, <1>2, <2>1, ProductMonotone, ProductIsNat
  <2> QED
    BY <2>2, <2>3, <2>4
<1>6. own \in Nat
  BY <1>4, ChunkedRowsOfRankBounds
<1>7. own + ex <= B
  <2> HIDE DEF own, ex, B, M, C
  <2>1. C * M = M * C /\ M * C \in Nat
    BY <1>1, <1>2, SMT
  <2> QED
    BY <1>1, <1>2, <1>3, <1>5, <1>6, <2>1
<1> QED
  BY <1>7 DEF ExtraFits

-----------------------------------------------------------------------------
(* ConcatDataset.                                                          *)

USE DEF At, AllAt, Goto, AllGoto, InLoop, Transferring, MaxRows, Collective, inputs

(* The buffer in rows and in bytes.                                        *)
LEMMA QuotientFits ==
  ASSUME NEW a \in Nat, NEW b \in Nat \ {0}, b <= a
  PROVE  /\ a \div b \in Nat \ {0}
         /\ (a \div b) * b <= a
<1>1. /\ a \div b \in Nat /\ a % b \in Nat /\ a % b < b
      /\ a = b * (a \div b) + (a % b)
  BY DivisionWithRemainder
<1>2. a \div b # 0
  <2> SUFFICES ASSUME a \div b = 0 PROVE FALSE
    OBVIOUS
  <2> QED
    BY <1>1
<1> DEFINE q == a \div b
           m == a % b
<1>3. q \in Nat \ {0} /\ m \in Nat /\ a = b * q + m
  BY <1>1, <1>2
<1> HIDE DEF q, m
<1>4. q * b <= a
  BY <1>3
<1> QED
  BY <1>3, <1>4 DEF q

LEMMA LayoutFacts ==
  ASSUME IInv, layout # NoLayout
  PROVE  /\ layout.chunk_rows \in Nat \ {0}
         /\ layout.buffer_size_rows \in Nat \ {0}
         /\ layout.format.row_size_bytes \in Nat \ {0}
         /\ options.mem_max_bytes \in Nat
         /\ layout.buffer_size_rows * layout.format.row_size_bytes <= options.mem_max_bytes
<1>1. layout \in Layouts /\ options \in Options
  BY DEF IInv, TypeOK
<1>2. options.mem_max_bytes \in Nat
  BY <1>1, OptionsAssumption
<1>3. /\ layout.format.row_size_bytes \in Nat \ {0}
      /\ layout.format.row_size_bytes <= options.mem_max_bytes
  BY <1>1, FormatsAssumption DEF IInv, LayoutFits, Storable, Layouts
<1>4. layout.buffer_size_rows = options.mem_max_bytes \div layout.format.row_size_bytes
  BY DEF IInv, LayoutFits, BufferRows
<1> QED
  BY <1>1, <1>2, <1>3, <1>4, QuotientFits DEF Layouts

(* What a rank in the loop that still has rows to copy works out.          *)
LEMMA PlanFacts ==
  ASSUME IInv, NEW r \in Ranks, InLoop(r), done[r] < threshold[r]
  PROVE  LET n == RowNumerologyOf(Info(r), done[r], threshold[r], r)
         IN  /\ n \in NumerologyInfo
             /\ n.rows_to_write_this_iteration \in 1 .. threshold[r] - done[r]
             /\ n.rows_to_write_this_rank <= layout.buffer_size_rows
             /\ n.output_start_row_this_rank - total[r]
                  = n.input_start_row_this_rank - done[r]
             /\ n.rows_to_write_this_rank > 0 =>
                  /\ n.input_start_row_this_rank >= done[r]
                  /\ n.input_start_row_this_rank + n.rows_to_write_this_rank
                       <= done[r] + n.rows_to_write_this_iteration
<1> DEFINE info == Info(r)
           remaining == threshold[r] - done[r]
           n == RowNumerologyOf(Info(r), done[r], threshold[r], r)
<1>1. done[r] \in Nat /\ threshold[r] \in Nat /\ total[r] \in Nat
  BY DEF IInv, TypeOK
<1>2. layout # NoLayout
  BY DEF IInv, Anchored
<1>3. info \in DSInfo /\ info.buffer_size_rows = layout.buffer_size_rows
  BY <1>1, <1>2, LayoutFacts DEF Info, DSInfo
<1>4. remaining \in Nat \ {0}
  BY <1>1
<1> HIDE DEF info, remaining
<1>5. /\ IterationRows(info, remaining) \in 1 .. remaining
      /\ RankRows(info, remaining, r) \in Nat
      /\ RankRows(info, remaining, r) <= layout.buffer_size_rows
      /\ Offset(info, remaining, r) \in Int
      /\ RankRows(info, remaining, r) > 0 =>
           /\ Offset(info, remaining, r) \in Nat
           /\ Offset(info, remaining, r) + RankRows(info, remaining, r)
                <= IterationRows(info, remaining)
  BY <1>3, <1>4, IterationProgress, RankRowsFitBuffer, RankSliceInIteration,
     ChunkedInterval
<1>6. n = [rows_to_write_this_iteration |-> IterationRows(info, remaining),
           rows_to_write_this_rank |-> RankRows(info, remaining, r),
           input_start_row_this_rank |-> done[r] + Offset(info, remaining, r),
           output_start_row_this_rank |-> total[r] + Offset(info, remaining, r)]
  BY DEF RowNumerologyOf, info, remaining, Info
<1> HIDE DEF n
<1>7. /\ n.rows_to_write_this_iteration = IterationRows(info, remaining)
      /\ n.rows_to_write_this_rank = RankRows(info, remaining, r)
      /\ n.input_start_row_this_rank = done[r] + Offset(info, remaining, r)
      /\ n.output_start_row_this_rank = total[r] + Offset(info, remaining, r)
  BY <1>6
<1>8. n \in NumerologyInfo
  BY <1>1, <1>4, <1>5, <1>6 DEF NumerologyInfo
<1>9. n.rows_to_write_this_iteration \in 1 .. threshold[r] - done[r]
  BY <1>1, <1>5, <1>7 DEF remaining
<1> QED
  BY <1>1, <1>5, <1>7, <1>8, <1>9 DEF n

(* The part of the limit that is left, at a resize.                        *)
LEMMA ThresholdBounds ==
  ASSUME options \in Options, NEW written \in Nat, NEW size \in Nat,
         MaxRows >= 0 => written <= MaxRows
  PROVE  /\ RowsThreshold(written, size) \in Nat
         /\ RowsThreshold(written, size) <= size
         /\ MaxRows >= 0 => written + RowsThreshold(written, size) <= MaxRows
  BY OptionsAssumption DEF RowsThreshold, Smaller

LEMMA InitIInv == Init => IInv
<1> SUFFICES ASSUME Init PROVE IInv
  OBVIOUS
<1>1. TypeOK
  <2>1. output \in [0 .. extent - 1 -> InputRows \cup {Unwritten}]
    BY DEF Init
  <2>2. NoPlan \in NumerologyInfo /\ NoRows \in [file : Nat \ {0}, first : Int, rows : Nat]
    BY DEF NoPlan, NumerologyInfo, NoRows
  <2> QED
    BY <2>1, <2>2, NFilesAssumption DEF Init, TypeOK, Locations
<1>2. Phases
  BY NFilesAssumption DEF Init, Phases
<1>3. Anchored
  BY NFilesAssumption DEF Init, Anchored, Files
<1>4. PlansCurrent /\ CursorsAgree
  BY DEF Init, PlansCurrent, CursorsAgree
<1>5. MaxRowsRespected
  BY DEF Init, MaxRowsRespected
<1>6. LayoutFits
  BY DEF Init, LayoutFits
<1> QED
  BY <1>1, <1>2, <1>3, <1>4, <1>5, <1>6 DEF IInv

(* Where the layout stays, so does what the first input has decided.       *)
LEMMA LayoutKept ==
  ASSUME IInv, UNCHANGED options, UNCHANGED layout
  PROVE  LayoutFits'
BY DEF IInv, LayoutFits, Storable, BufferRows

(* Creating and resizing: all ranks come from "enter" with the extent as   *)
(* their total.                                                            *)
LEMMA EnterIInv ==
  ASSUME IInv, AllAt("enter"), NEW r \in Ranks, Extend(r), EnterLoop,
         layout' \in Layouts, LayoutFits'
  PROVE  IInv'
<1> DEFINE t == RowsThreshold(extent, sizes[file[r]])
<1>1. \A s \in Ranks : total[s] = extent /\ file[s] = file[r] /\ file[s] \in Files
  BY DEF IInv, Anchored, Phases
<1>2. extent \in Nat /\ sizes[file[r]] \in Nat
  BY <1>1, InputSizesAssumption DEF IInv, TypeOK
<1>3. t \in Nat /\ (MaxRows >= 0 => extent + t <= MaxRows)
  BY <1>2, ThresholdBounds DEF IInv, TypeOK, MaxRowsRespected
<1>4. extent' = extent + t /\ extent' \in Nat
  BY <1>1, <1>2, <1>3 DEF Extend
<1>5. /\ pc' = [s \in Ranks |-> "loop"]
      /\ done' = [s \in Ranks |-> 0]
      /\ threshold' = [s \in Ranks |-> t]
      /\ UNCHANGED <<inputs, file, total, numerology, buffer>>
  BY <1>1 DEF EnterLoop
<1>6. layout' # NoLayout
  BY DEF Layouts, NoLayout
<1> HIDE DEF t
<1>7. TypeOK'
  <2>1. output' \in [0 .. extent' - 1 -> InputRows \cup {Unwritten}]
    <3>1. output' = [row \in 0 .. extent' - 1 |->
                       IF row < extent THEN output[row] ELSE Unwritten]
      BY DEF Extend
    <3>2. ASSUME NEW row \in 0 .. extent' - 1, row < extent
          PROVE  output[row] \in InputRows \cup {Unwritten}
      BY <1>2, <3>2 DEF IInv, TypeOK
    <3> QED
      BY <3>1, <3>2
  <2>2. pc' \in [Ranks -> Locations]
    BY <1>5 DEF Locations
  <2> QED
    BY <1>3, <1>4, <1>5, <2>1, <2>2 DEF IInv, TypeOK
<1>8. Phases'
  BY <1>1, <1>5 DEF Phases
<1>9. Anchored'
  BY <1>1, <1>2, <1>3, <1>4, <1>5, <1>6 DEF Anchored
<1>10. PlansCurrent' /\ CursorsAgree'
  BY <1>5 DEF PlansCurrent, CursorsAgree
<1>11. MaxRowsRespected'
  BY <1>3, <1>4, <1>5 DEF MaxRowsRespected
<1> QED
  BY <1>7, <1>8, <1>9, <1>10, <1>11 DEF IInv

LEMMA CreateIInv ==
  ASSUME IInv, CreateDataset
  PROVE  IInv'
<1>1. PICK r \in Ranks :
        /\ Storable(formats[file[r]])
        /\ layout' = [chunk_rows |-> formats[file[r]].chunk_rows,
                      buffer_size_rows |-> BufferRows(formats[file[r]]),
                      format |-> formats[file[r]]]
        /\ Extend(r)
  BY DEF CreateDataset
<1> DEFINE f == formats[file[r]]
<1>2. AllAt("enter") /\ EnterLoop /\ UNCHANGED options
  BY DEF CreateDataset, EnterLoop
<1>3. f \in Formats
  BY <1>2 DEF IInv, TypeOK, Anchored
<1>4. options.mem_max_bytes \in Nat
  BY OptionsAssumption DEF IInv, TypeOK
<1> HIDE DEF f
<1>5. f.chunk_rows \in Nat \ {0} /\ f.row_size_bytes \in Nat
  BY <1>3, FormatsAssumption
<1>6. Storable(f) /\ layout' = [chunk_rows |-> f.chunk_rows,
                               buffer_size_rows |-> BufferRows(f), format |-> f]
  BY <1>1 DEF f
<1>7. BufferRows(f) \in Nat
  BY <1>4, <1>5, <1>6, QuotientFits DEF BufferRows, Storable
<1>8. layout' \in Layouts
  BY <1>3, <1>5, <1>6, <1>7 DEF Layouts
<1>9. LayoutFits'
  BY <1>2, <1>6 DEF LayoutFits, Storable, BufferRows
<1> QED
  BY <1>1, <1>2, <1>8, <1>9, EnterIInv

LEMMA PlanIInv ==
  ASSUME IInv, NEW r \in Ranks, PlanIteration(r)
  PROVE  IInv'
<1> DEFINE n == RowNumerologyOf(Info(r), done[r], threshold[r], r)
<1>1. InLoop(r) /\ done[r] < threshold[r]
  BY DEF PlanIteration
<1>2. n \in NumerologyInfo
  BY <1>1, PlanFacts
<1>3. /\ pc' = [pc EXCEPT ![r] = "read"] /\ pc[r] = "loop"
      /\ numerology' = [numerology EXCEPT ![r] = n]
      /\ UNCHANGED <<inputs, layout, extent, output, file, total, done, threshold, buffer>>
  BY DEF PlanIteration, cursors
<1>4. pc \in [Ranks -> Locations] /\ numerology \in [Ranks -> NumerologyInfo]
  BY DEF IInv, TypeOK
<1>5. \A s \in Ranks : InLoop(s)' <=> InLoop(s)
  BY <1>3, <1>4
<1>6. TypeOK'
  BY <1>2, <1>3, <1>4 DEF IInv, TypeOK, Locations
<1>7. Phases'
  BY <1>3, <1>4, <1>5 DEF IInv, Phases
<1>8. Anchored'
  BY <1>3, <1>4, <1>5 DEF IInv, Anchored
<1>9. PlansCurrent'
  <2> HIDE DEF n
  <2> SUFFICES ASSUME NEW s \in Ranks
               PROVE  /\ Transferring(s)' =>
                           /\ done[s] < threshold[s]
                           /\ numerology'[s] =
                                RowNumerologyOf(Info(s), done[s], threshold[s], s)
                      /\ At(s, "write")' => buffer[s] = SliceOf(s)'
    BY <1>3 DEF PlansCurrent, Info
  <2>1. CASE s = r
    BY <1>1, <1>3, <1>4, <2>1 DEF n
  <2>2. CASE s # r
    BY <1>3, <1>4, <2>2 DEF IInv, PlansCurrent, SliceOf
  <2> QED
    BY <2>1, <2>2
<1>10. CursorsAgree'
  BY <1>3, <1>5 DEF IInv, CursorsAgree
<1>11. MaxRowsRespected'
  BY <1>3 DEF IInv, MaxRowsRespected
<1> QED
  BY <1>3, <1>6, <1>7, <1>8, <1>9, <1>10, <1>11, LayoutKept DEF IInv

LEMMA EndIInv ==
  ASSUME IInv, NEW r \in Ranks, EndInput(r)
  PROVE  IInv'
<1> DEFINE next == IF file[r] < NFiles THEN "enter" ELSE "close"
<1>1. /\ pc' = [pc EXCEPT ![r] = next] /\ pc[r] = "loop"
      /\ file' = [file EXCEPT ![r] = IF file[r] < NFiles THEN file[r] + 1 ELSE file[r]]
      /\ UNCHANGED <<inputs, layout, extent, output, total, done, threshold,
                     numerology, buffer>>
  BY DEF EndInput
<1>2. pc \in [Ranks -> Locations] /\ file \in [Ranks -> Nat \ {0}]
  BY DEF IInv, TypeOK
<1>3. file[r] \in Nat /\ file[r] <= NFiles /\ NFiles \in Nat
  BY <1>1, NFilesAssumption DEF IInv, Anchored, Files
<1>4. \A s \in Ranks : s # r => pc'[s] = pc[s] /\ file'[s] = file[s]
  BY <1>1, <1>2
<1>5. /\ pc'[r] = next
      /\ file'[r] = IF file[r] < NFiles THEN file[r] + 1 ELSE file[r]
  BY <1>1, <1>2
<1>6. done[r] = threshold[r]
  BY <1>1 DEF EndInput, IInv, TypeOK, Anchored
<1>7. TypeOK'
  BY <1>1, <1>2, <1>3 DEF IInv, TypeOK, Locations
<1>8. Phases'
  <2> SUFFICES ASSUME NEW p \in Ranks, NEW s \in Ranks
               PROVE
    /\ InLoop(p)' =>
         \/ InLoop(s)' /\ file'[s] = file'[p] /\ threshold[s] = threshold[p]
         \/ pc'[s] \in {"enter", "failed"} /\ file'[s] = file'[p] + 1
         \/ At(s, "close")' /\ file'[p] = NFiles
    /\ pc'[p] \in {"enter", "failed"} =>
         \/ pc'[s] \in {"enter", "failed"} /\ file'[s] = file'[p]
         \/ InLoop(s)' /\ file'[p] = file'[s] + 1
    /\ At(p, "close")' =>
         \/ At(s, "close")'
         \/ InLoop(s)' /\ file'[s] = NFiles
    /\ At(p, "closed")' => At(s, "closed")'
    BY <1>1 DEF Phases
  <2>1. CASE p # r /\ s # r
    BY <1>4, <2>1 DEF IInv, Phases
  <2>2. CASE p = r /\ s = r
    BY <1>5, <2>2
  <2>3. CASE p = r /\ s # r
    <3>1. \/ InLoop(s) /\ file[s] = file[r]
          \/ pc[s] \in {"enter", "failed"} /\ file[s] = file[r] + 1
          \/ At(s, "close") /\ file[r] = NFiles
      BY <1>1 DEF IInv, Phases
    <3>2. pc[s] \in {"enter", "failed"} => file[s] <= NFiles
      BY <1>3 DEF IInv, Anchored, Files
    <3> QED
      BY <1>3, <1>4, <1>5, <2>3, <3>1, <3>2
  <2>4. CASE p # r /\ s = r
    <3>1. \/ InLoop(p) /\ file[p] = file[r]
          \/ pc[p] \in {"enter", "failed"} /\ file[p] = file[r] + 1
          \/ At(p, "close") /\ file[r] = NFiles
      BY <1>1 DEF IInv, Phases
    <3>2. pc[p] \in {"enter", "failed"} => file[p] <= NFiles
      BY <1>3 DEF IInv, Anchored, Files
    <3> QED
      BY <1>3, <1>4, <1>5, <2>4, <3>1, <3>2
  <2> QED
    BY <2>1, <2>2, <2>3, <2>4
<1>9. Anchored'
  <2>1. total[r] = extent
    BY <1>1, <1>6 DEF IInv, TypeOK, Anchored
  <2>2. file[r] < NFiles => file'[r] \in Files
    BY <1>3, <1>5 DEF Files
  <2> QED
    BY <1>1, <1>4, <1>5, <2>1, <2>2 DEF IInv, Anchored
<1>10. PlansCurrent'
  BY <1>1, <1>4, <1>5 DEF IInv, PlansCurrent, Info, SliceOf
<1>11. CursorsAgree'
  <2> SUFFICES ASSUME Collective, NEW p \in Ranks, NEW s \in Ranks, InLoop(p)'
               PROVE  done[p] = IF InLoop(s)' THEN done[s] ELSE threshold[p]
    BY <1>1 DEF CursorsAgree
  <2>1. p # r /\ InLoop(p)
    BY <1>4, <1>5
  <2>2. done[p] = done[r] /\ threshold[p] = threshold[r]
    BY <1>1, <2>1 DEF IInv, CursorsAgree, Phases
  <2>3. CASE s = r
    BY <1>5, <1>6, <2>2, <2>3
  <2>4. CASE s # r
    BY <1>4, <2>1, <2>4 DEF IInv, CursorsAgree
  <2> QED
    BY <2>3, <2>4
<1>12. MaxRowsRespected'
  BY <1>1 DEF IInv, MaxRowsRespected
<1> QED
  BY <1>1, <1>7, <1>8, <1>9, <1>10, <1>11, <1>12, LayoutKept DEF IInv

LEMMA ReadIInv ==
  ASSUME IInv, NEW readers \in SUBSET Ranks,
         \A r \in readers : At(r, "read"),
         pc' = [r \in Ranks |-> IF r \in readers THEN "write" ELSE pc[r]],
         buffer' = [r \in Ranks |-> IF r \in readers THEN SliceOf(r) ELSE buffer[r]],
         UNCHANGED <<inputs, layout, extent, output, cursors, numerology>>
  PROVE  IInv'
<1>1. UNCHANGED <<inputs, layout, extent, output, file, total, done, threshold, numerology>>
  BY DEF cursors
<1>2. \A r \in Ranks : /\ InLoop(r)' <=> InLoop(r)
                      /\ Transferring(r)' <=> Transferring(r)
                      /\ \A l \in Locations \ {"read", "write"} :
                           At(r, l)' <=> At(r, l)
  OBVIOUS
<1>3. TypeOK'
  <2>1. ASSUME NEW r \in readers
        PROVE  SliceOf(r) \in [file : Nat \ {0}, first : Int, rows : Nat]
    BY DEF IInv, TypeOK, SliceOf, NumerologyInfo
  <2>2. buffer' \in [Ranks -> [file : Nat \ {0}, first : Int, rows : Nat]]
    BY <2>1 DEF IInv, TypeOK
  <2>3. pc' \in [Ranks -> Locations]
    BY DEF IInv, TypeOK, Locations
  <2> QED
    BY <1>1, <2>2, <2>3 DEF IInv, TypeOK
<1>4. Phases'
  BY <1>1, <1>2 DEF IInv, Phases, Locations
<1>5. Anchored'
  BY <1>1, <1>2 DEF IInv, Anchored
<1>6. PlansCurrent'
  BY <1>1, <1>2 DEF IInv, PlansCurrent, Info, SliceOf
<1>7. CursorsAgree'
  BY <1>1, <1>2 DEF IInv, CursorsAgree
<1>8. MaxRowsRespected'
  BY <1>1 DEF IInv, MaxRowsRespected
<1> QED
  BY <1>1, <1>3, <1>4, <1>5, <1>6, <1>7, <1>8, LayoutKept DEF IInv

(* What a rank that writes puts into the output are rows of its input.     *)
LEMMA SourceTyped ==
  ASSUME IInv, NEW r \in Ranks, At(r, "write"), NEW row \in Target(r)
  PROVE  Source(r, row) \in InputRows
<1> DEFINE n == numerology[r]
<1>1. /\ done[r] < threshold[r]
      /\ n = RowNumerologyOf(Info(r), done[r], threshold[r], r)
      /\ buffer[r] = SliceOf(r)
  BY DEF IInv, PlansCurrent
<1>2. n \in NumerologyInfo
  BY DEF IInv, TypeOK
<1>3. /\ row \in Int
      /\ n.output_start_row_this_rank <= row
      /\ row < n.output_start_row_this_rank + n.rows_to_write_this_rank
  BY DEF Target, IInv, TypeOK
<1>4. /\ n.output_start_row_this_rank \in Int
      /\ n.input_start_row_this_rank \in Int
      /\ n.rows_to_write_this_rank \in Nat
  BY <1>2 DEF NumerologyInfo
<1>5. n.rows_to_write_this_rank > 0
  BY <1>3, <1>4
<1>6. n.input_start_row_this_rank >= done[r]
  BY <1>1, <1>5, PlanFacts
<1>7. buffer[r].first = n.input_start_row_this_rank /\ buffer[r].file = file[r]
  BY <1>1 DEF SliceOf
<1>8. file[r] \in Files /\ done[r] \in Nat
  BY DEF IInv, TypeOK, Anchored
<1>9. buffer[r].first + (row - n.output_start_row_this_rank) \in Nat
  BY <1>3, <1>4, <1>6, <1>7, <1>8
<1> QED
  BY <1>7, <1>8, <1>9 DEF Source, InputRows

LEMMA WriteIInv ==
  ASSUME IInv, NEW writers \in SUBSET Ranks,
         \A r \in writers : At(r, "write"),
         Collective => writers = Ranks,
         Put(writers), UpdateCursors(writers),
         pc' = [r \in Ranks |-> IF r \in writers THEN "loop" ELSE pc[r]],
         UNCHANGED <<inputs, layout, extent, file, threshold, numerology, buffer>>
  PROVE  IInv'
<1> DEFINE step(r) == numerology[r].rows_to_write_this_iteration
<1>1. \A r \in Ranks : /\ InLoop(r)' <=> InLoop(r)
                      /\ Transferring(r)' <=> Transferring(r) /\ r \notin writers
                      /\ \A l \in Locations \ {"read", "write", "loop"} :
                           At(r, l)' <=> At(r, l)
  OBVIOUS
<1>2. /\ done' = [r \in Ranks |-> IF r \in writers THEN done[r] + step(r) ELSE done[r]]
      /\ total' = [r \in Ranks |-> IF r \in writers THEN total[r] + step(r) ELSE total[r]]
  BY DEF UpdateCursors, Advance
<1>3. ASSUME NEW r \in writers
      PROVE  step(r) \in 1 .. threshold[r] - done[r]
  <2>1. /\ InLoop(r) /\ done[r] < threshold[r]
        /\ numerology[r] = RowNumerologyOf(Info(r), done[r], threshold[r], r)
    BY DEF IInv, PlansCurrent
  <2> QED
    BY <2>1, PlanFacts
<1>4. /\ total \in [Ranks -> Nat] /\ done \in [Ranks -> Nat]
      /\ threshold \in [Ranks -> Nat] /\ extent \in Nat
  BY DEF IInv, TypeOK
<1> HIDE DEF step
<1>5. \A r \in writers : step(r) \in Nat /\ done[r] + step(r) <= threshold[r]
  BY <1>3, <1>4
<1>6. TypeOK'
  <2>1. output' \in [0 .. extent - 1 -> InputRows \cup {Unwritten}]
    <3> SUFFICES ASSUME NEW row \in 0 .. extent - 1
                 PROVE  output'[row] \in InputRows \cup {Unwritten}
      BY DEF Put
    <3>1. CASE \E r \in writers : row \in Target(r)
      <4> DEFINE w == CHOOSE r \in writers : row \in Target(r)
      <4>1. w \in writers /\ row \in Target(w)
        BY <3>1
      <4>2. output'[row] = Source(w, row)
        BY <3>1 DEF Put
      <4> HIDE DEF w
      <4> QED
        BY <4>1, <4>2, SourceTyped
    <3>2. CASE ~ \E r \in writers : row \in Target(r)
      BY <3>2 DEF Put, IInv, TypeOK
    <3> QED
      BY <3>1, <3>2
  <2>2. done' \in [Ranks -> Nat] /\ total' \in [Ranks -> Nat]
    BY <1>2, <1>4, <1>5
  <2>3. pc' \in [Ranks -> Locations]
    BY DEF IInv, TypeOK, Locations
  <2> QED
    BY <2>1, <2>2, <2>3 DEF IInv, TypeOK
<1>7. Phases'
  BY <1>1 DEF IInv, Phases, Locations
<1>8. Anchored'
  <2> SUFFICES ASSUME NEW r \in Ranks
               PROVE
    /\ pc'[r] \in {"enter", "close", "closed"} => total'[r] = extent
    /\ pc'[r] \in {"enter", "loop", "read", "write", "failed"} => file[r] \in Files
    /\ InLoop(r)' =>
         /\ layout # NoLayout
         /\ done'[r] <= threshold[r]
         /\ threshold[r] <= extent
         /\ total'[r] - done'[r] = extent - threshold[r]
    BY DEF Anchored
  <2>1. CASE r \in writers
    <3>1. pc[r] = "write" /\ pc'[r] = "loop"
      BY <2>1
    <3>2. /\ file[r] \in Files /\ layout # NoLayout
          /\ threshold[r] <= extent /\ total[r] - done[r] = extent - threshold[r]
      BY <3>1 DEF IInv, Anchored
    <3>3. done'[r] = done[r] + step(r) /\ total'[r] = total[r] + step(r)
      BY <1>2, <2>1
    <3>4. done'[r] <= threshold[r] /\ total'[r] - done'[r] = extent - threshold[r]
      BY <1>4, <1>5, <2>1, <3>2, <3>3
    <3> QED
      BY <3>1, <3>2, <3>4
  <2>2. CASE r \notin writers
    BY <1>2, <2>2 DEF IInv, Anchored
  <2> QED
    BY <2>1, <2>2
<1>9. PlansCurrent'
  BY <1>1, <1>2 DEF IInv, PlansCurrent, Info, SliceOf
<1>10. CursorsAgree'
  <2> SUFFICES ASSUME Collective, NEW r \in Ranks, NEW s \in Ranks
               PROVE  done'[r] = done'[s]
    BY <1>1 DEF CursorsAgree
  <2>1. /\ done[r] = done[s] /\ total[r] = total[s] /\ threshold[r] = threshold[s]
    <3>1. InLoop(r) /\ InLoop(s)
      OBVIOUS
    <3>2. done[r] = done[s] /\ threshold[r] = threshold[s]
      BY <3>1 DEF IInv, CursorsAgree, Phases
    <3>3. /\ total[r] - done[r] = extent - threshold[r]
          /\ total[s] - done[s] = extent - threshold[s]
      BY <3>1 DEF IInv, Anchored
    <3>4. /\ total[r] \in Nat /\ done[r] \in Nat /\ threshold[r] \in Nat
          /\ total[s] \in Nat /\ done[s] \in Nat /\ threshold[s] \in Nat
      BY <1>4
    <3> QED
      BY <1>4, <3>2, <3>3, <3>4
  <2>2. step(r) = step(s)
    <3>1. /\ numerology[r] = RowNumerologyOf(Info(r), done[r], threshold[r], r)
          /\ numerology[s] = RowNumerologyOf(Info(s), done[s], threshold[s], s)
      BY DEF IInv, PlansCurrent
    <3>2. Info(r) = Info(s)
      BY <2>1 DEF Info
    <3> QED
      BY <2>1, <3>1, <3>2 DEF step, RowNumerologyOf
  <2> QED
    BY <1>2, <2>1, <2>2
<1>11. MaxRowsRespected'
  BY DEF IInv, MaxRowsRespected
<1> QED
  BY <1>6, <1>7, <1>8, <1>9, <1>10, <1>11, LayoutKept DEF IInv

LEMMA StuckIInv ==
  ASSUME IInv, UNCHANGED <<inputs, layout, extent, output, cursors, numerology, buffer>>,
         \/ UNCHANGED pc
         \/ AllAt("close") /\ AllGoto("closed")
         \/ AllAt("enter") /\ AllGoto("failed")
  PROVE  IInv'
<1>1. UNCHANGED <<inputs, layout, extent, output, file, total, done, threshold,
                  numerology, buffer>>
  BY DEF cursors
<1>2. CASE UNCHANGED pc
  BY <1>1, <1>2, LayoutKept
     DEF IInv, TypeOK, Phases, Anchored, PlansCurrent, CursorsAgree,
         MaxRowsRespected, Info, SliceOf
<1>3. ASSUME ~ UNCHANGED pc
      PROVE  IInv'
  <2>1. \E l \in {"closed", "failed"} : pc' = [r \in Ranks |-> l]
    BY <1>3
  <2>2. TypeOK'
    BY <1>1, <2>1 DEF IInv, TypeOK, Locations
  <2>3. PlansCurrent' /\ CursorsAgree'
    BY <2>1 DEF PlansCurrent, CursorsAgree
  <2>4. Anchored'
    BY <1>1, <1>3 DEF IInv, Anchored
  <2>5. Phases'
    <3>1. CASE AllAt("close") /\ AllGoto("closed")
      BY <3>1 DEF Phases
    <3>2. CASE AllAt("enter") /\ AllGoto("failed")
      BY <1>1, <3>2 DEF IInv, Phases
    <3> QED
      BY <1>3, <3>1, <3>2
  <2>6. MaxRowsRespected'
    BY <1>1 DEF IInv, MaxRowsRespected
  <2> QED
    BY <1>1, <2>2, <2>3, <2>4, <2>5, <2>6, LayoutKept DEF IInv
<1> QED
  BY <1>2, <1>3

(* A rank that refuses an input keeps its place among the others.          *)
LEMMA RefuseIInv ==
  ASSUME IInv, NEW r \in Ranks, RefuseInput(r)
  PROVE  IInv'
<1>1. /\ pc[r] = "enter" /\ pc' = [pc EXCEPT ![r] = "failed"]
      /\ UNCHANGED <<inputs, layout, extent, output, file, total, done, threshold,
                     numerology, buffer>>
  BY DEF RefuseInput, cursors
<1>2. pc \in [Ranks -> Locations]
  BY DEF IInv, TypeOK
<1>3. /\ pc'[r] = "failed"
      /\ \A s \in Ranks : s # r => pc'[s] = pc[s]
  BY <1>1, <1>2
<1>4. TypeOK'
  BY <1>1, <1>2 DEF IInv, TypeOK, Locations
<1>5. Phases'
  BY <1>1, <1>3 DEF IInv, Phases
<1>6. Anchored'
  BY <1>1, <1>3 DEF IInv, Anchored
<1>7. PlansCurrent'
  BY <1>1, <1>3 DEF IInv, PlansCurrent, Info, SliceOf
<1>8. CursorsAgree'
  BY <1>1, <1>3 DEF IInv, CursorsAgree
<1>9. MaxRowsRespected'
  BY <1>1 DEF IInv, MaxRowsRespected
<1> QED
  BY <1>1, <1>4, <1>5, <1>6, <1>7, <1>8, <1>9, LayoutKept DEF IInv

LEMMA NextIInv == IInv /\ [Next]_vars => IInv'
<1> SUFFICES ASSUME IInv, [Next]_vars PROVE IInv'
  OBVIOUS
<1>1. CASE CreateDataset
  BY <1>1, CreateIInv
<1>2. CASE ResizeDataset
  <2>1. layout' \in Layouts
    BY <1>2 DEF ResizeDataset, IInv, TypeOK
  <2>2. UNCHANGED options /\ UNCHANGED layout
    BY <1>2 DEF ResizeDataset, EnterLoop
  <2> QED
    BY <1>2, <2>1, <2>2, LayoutKept, EnterIInv DEF ResizeDataset
<1>3. CASE CreateFails
  BY <1>3, StuckIInv DEF CreateFails
<1>4. ASSUME NEW r \in Ranks, PlanIteration(r) PROVE IInv'
  BY <1>4, PlanIInv
<1>5. ASSUME NEW r \in Ranks, EndInput(r) PROVE IInv'
  BY <1>5, EndIInv
<1>6. ASSUME NEW r \in Ranks, ReadIndependently(r) PROVE IInv'
  <2>1. /\ \A s \in {r} : At(s, "read")
        /\ pc' = [s \in Ranks |-> IF s \in {r} THEN "write" ELSE pc[s]]
        /\ buffer' = [s \in Ranks |-> IF s \in {r} THEN SliceOf(s) ELSE buffer[s]]
    BY <1>6 DEF ReadIndependently, IInv, TypeOK
  <2> QED
    BY <1>6, <2>1, ReadIInv DEF ReadIndependently
<1>7. ASSUME NEW r \in Ranks, WriteIndependently(r) PROVE IInv'
  <2>1. /\ \A s \in {r} : At(s, "write")
        /\ pc' = [s \in Ranks |-> IF s \in {r} THEN "loop" ELSE pc[s]]
    BY <1>7 DEF WriteIndependently, IInv, TypeOK
  <2> QED
    BY <1>7, <2>1, WriteIInv DEF WriteIndependently
<1>8. CASE ReadCollectively
  <2>1. /\ \A s \in Ranks : At(s, "read")
        /\ pc' = [s \in Ranks |-> IF s \in Ranks THEN "write" ELSE pc[s]]
        /\ buffer' = [s \in Ranks |-> IF s \in Ranks THEN SliceOf(s) ELSE buffer[s]]
    BY <1>8 DEF ReadCollectively
  <2> QED
    BY <1>8, <2>1, ReadIInv DEF ReadCollectively
<1>9. CASE WriteCollectively
  <2>1. /\ \A s \in Ranks : At(s, "write")
        /\ pc' = [s \in Ranks |-> IF s \in Ranks THEN "loop" ELSE pc[s]]
    BY <1>9 DEF WriteCollectively
  <2> QED
    BY <1>9, <2>1, WriteIInv DEF WriteCollectively
<1>10. CASE CloseOutput
  BY <1>10, StuckIInv DEF CloseOutput
<1>11. CASE Terminated
  BY <1>11, StuckIInv DEF Terminated, vars
<1>12. CASE UNCHANGED vars
  BY <1>12, StuckIInv DEF vars
<1>13. ASSUME NEW r \in Ranks, RefuseInput(r) PROVE IInv'
  BY <1>13, RefuseIInv
<1> QED
  BY <1>1, <1>2, <1>3, <1>4, <1>5, <1>6, <1>7, <1>8, <1>9, <1>10, <1>11, <1>12, <1>13
     DEF Next, RankStep, CollectiveStep

(* The invariant holds in every behaviour.                                 *)
THEOREM Invariance == Spec => []IInv
<1>1. Init => IInv
  BY InitIInv
<1>2. IInv /\ [Next]_vars => IInv'
  BY NextIInv
<1> QED
  BY <1>1, <1>2, PTL DEF Spec

-----------------------------------------------------------------------------
(* Type correctness: the output only ever holds rows of the inputs.        *)
THEOREM TypeCorrect == Spec => []TypeOK
<1>1. IInv => TypeOK
  BY DEF IInv
<1> QED
  BY <1>1, Invariance, PTL

(* create_or_open_and_resize_dataset(): all ranks call H5Dset_extent for   *)
(* the same input and with the same size.                                  *)
THEOREM ResizesInLockstep == Spec => []LockstepAtResize
<1>1. IInv => LockstepAtResize
  BY DEF IInv, Anchored, Phases, LockstepAtResize
<1> QED
  BY <1>1, Invariance, PTL

(* handle_dataset_(): with collective transfers no rank is left waiting in *)
(* an H5Dread or H5Dwrite that another rank has no call for.               *)
THEOREM TransfersInLockstep == Spec => []LockstepInTransfers
<1>1. IInv => LockstepInTransfers
  <2> SUFFICES ASSUME IInv, Collective, NEW r \in Ranks, NEW s \in Ranks, Transferring(r)
               PROVE  InLoop(s) /\ done[r] = done[s] /\ total[r] = total[s]
    BY DEF LockstepInTransfers
  <2>1. InLoop(r) /\ done[r] < threshold[r]
    BY DEF IInv, PlansCurrent
  <2>2. /\ total[r] \in Nat /\ done[r] \in Nat /\ threshold[r] \in Nat
        /\ total[s] \in Nat /\ done[s] \in Nat /\ threshold[s] \in Nat /\ extent \in Nat
    BY DEF IInv, TypeOK
  <2>3. InLoop(s)
    BY <2>1, <2>2 DEF IInv, CursorsAgree
  <2>4. done[r] = done[s] /\ threshold[r] = threshold[s]
    BY <2>1, <2>3 DEF IInv, CursorsAgree, Phases
  <2>5. /\ total[r] - done[r] = extent - threshold[r]
        /\ total[s] - done[s] = extent - threshold[s]
    BY <2>1, <2>3 DEF IInv, Anchored
  <2>6. total[r] = total[s]
    BY <2>2, <2>4, <2>5
  <2> QED
    BY <2>3, <2>4, <2>6
<1> QED
  BY <1>1, Invariance, PTL

(* H5Dread never overruns buffer_, while rows are not wider than those of  *)
(* the first input.                                                        *)
THEOREM BufferNeverOverrun == Spec => []BufferBound
<1>1. IInv => BufferBound
  <2> SUFFICES ASSUME IInv, NEW r \in Ranks, Transferring(r),
                      formats[file[r]].row_size_bytes <= layout.format.row_size_bytes
               PROVE  BytesInHand(r) <= options.mem_max_bytes
    BY DEF BufferBound
  <2> DEFINE k == numerology[r].rows_to_write_this_rank
             w == formats[file[r]].row_size_bytes
             b == layout.buffer_size_rows
             W == layout.format.row_size_bytes
  <2>1. InLoop(r) /\ layout # NoLayout /\ file[r] \in Files
    BY DEF IInv, Anchored
  <2>2. k <= b
    BY <2>1, PlanFacts DEF IInv, PlansCurrent
  <2>3. k \in Nat
    BY DEF IInv, TypeOK, NumerologyInfo
  <2>4. w \in Nat
    BY <2>1, FormatsAssumption DEF IInv, TypeOK
  <2>5. b \in Nat /\ W \in Nat /\ b * W <= options.mem_max_bytes /\ options.mem_max_bytes \in Nat
    BY <2>1, LayoutFacts
  <2>6. w <= W
    OBVIOUS
  <2>7. BytesInHand(r) = k * w
    BY DEF BytesInHand
  <2> HIDE DEF k, w, b, W
  <2>8. k * w <= b * w
    BY <2>2, <2>3, <2>4, <2>5, ProductMonotone
  <2>9. w * b <= W * b
    BY <2>4, <2>5, <2>6, ProductMonotone
  <2>10. k * w \in Nat /\ b * w \in Nat /\ b * W \in Nat /\ w * b = b * w /\ W * b = b * W
    BY <2>3, <2>4, <2>5, ProductIsNat
  <2> QED
    BY <2>5, <2>7, <2>8, <2>9, <2>10
<1> QED
  BY <1>1, Invariance, PTL

(* The slice that a rank has in hand.                                      *)
LEMMA TransferBounds == IInv => TransfersInBounds
<1> SUFFICES ASSUME IInv, NEW r \in Ranks, Transferring(r),
                    numerology[r].rows_to_write_this_rank > 0
             PROVE  LET n == numerology[r]
                    IN  /\ n.input_start_row_this_rank >= done[r]
                        /\ n.input_start_row_this_rank + n.rows_to_write_this_rank
                             <= threshold[r]
                        /\ n.output_start_row_this_rank >= total[r]
                        /\ n.output_start_row_this_rank + n.rows_to_write_this_rank
                             <= total[r] + n.rows_to_write_this_iteration
                        /\ total[r] + n.rows_to_write_this_iteration <= extent
  BY DEF TransfersInBounds
<1> DEFINE n == numerology[r]
           i == n.rows_to_write_this_iteration
           k == n.rows_to_write_this_rank
           a == n.input_start_row_this_rank
           b == n.output_start_row_this_rank
<1>1. InLoop(r) /\ done[r] < threshold[r]
      /\ n = RowNumerologyOf(Info(r), done[r], threshold[r], r)
  BY DEF IInv, PlansCurrent
<1>2. /\ i \in 1 .. threshold[r] - done[r]
      /\ b - total[r] = a - done[r]
      /\ a >= done[r] /\ a + k <= done[r] + i
  BY <1>1, PlanFacts
<1>3. n \in NumerologyInfo /\ total[r] \in Nat /\ done[r] \in Nat
      /\ threshold[r] \in Nat /\ extent \in Nat
  BY DEF IInv, TypeOK
<1>4. a \in Int /\ b \in Int /\ k \in Nat /\ i \in Nat
  BY <1>3 DEF NumerologyInfo
<1>5. total[r] - done[r] = extent - threshold[r]
  BY <1>1 DEF IInv, Anchored
<1> HIDE DEF n, i, k, a, b
<1>6. a + k <= threshold[r] /\ b >= total[r] /\ b + k <= total[r] + i
      /\ total[r] + i <= extent
  BY <1>2, <1>3, <1>4, <1>5
<1> QED
  BY <1>2, <1>6 DEF n, i, k, a, b

(* Every hyperslab that is selected lies inside its dataset. *)
THEOREM SelectionsInBounds == Spec => []TransfersInBounds
BY TransferBounds, Invariance, PTL

(* --max-rows. *)
THEOREM LimitRespected == Spec => []MaxRowsRespected
<1>1. IInv => MaxRowsRespected
  BY DEF IInv
<1> QED
  BY <1>1, Invariance, PTL

(* In one iteration the slices of the ranks follow one another, and each    *)
(* but the first begins with a chunk of the output.                        *)
LEMMA SlicesOrdered ==
  ASSUME IInv, NEW r \in Ranks, NEW s \in Ranks, r < s,
         Transferring(r), Transferring(s), done[s] = done[r],
         NEW i \in Target(r), NEW j \in Target(s)
  PROVE  /\ i < j
         /\ i \div layout.chunk_rows # j \div layout.chunk_rows
<1> DEFINE info == Info(r)
           remaining == threshold[r] - done[r]
<1>1. /\ InLoop(r) /\ InLoop(s) /\ done[r] < threshold[r]
      /\ numerology[r] = RowNumerologyOf(Info(r), done[r], threshold[r], r)
      /\ numerology[s] = RowNumerologyOf(Info(s), done[s], threshold[s], s)
  BY DEF IInv, PlansCurrent
<1>2. threshold[s] = threshold[r]
  BY <1>1 DEF IInv, Phases
<1>3. /\ total[r] \in Nat /\ done[r] \in Nat /\ threshold[r] \in Nat
      /\ total[s] \in Nat /\ extent \in Nat
  BY DEF IInv, TypeOK
<1>4. total[s] = total[r]
  <2>1. /\ total[r] - done[r] = extent - threshold[r]
        /\ total[s] - done[s] = extent - threshold[s]
    BY <1>1 DEF IInv, Anchored
  <2> QED
    BY <1>2, <1>3, <2>1
<1>5. Info(s) = info
  BY <1>4 DEF Info
<1>6. info \in DSInfo
  <2>1. layout # NoLayout
    BY <1>1 DEF IInv, Anchored
  <2> QED
    BY <1>3, <2>1, LayoutFacts DEF Info, DSInfo
<1>7. remaining \in Nat \ {0}
  BY <1>1, <1>3
<1>8. info.chunk_rows = layout.chunk_rows /\ info.n_rows_written_total = total[r]
  BY DEF Info
<1> HIDE DEF remaining, info
<1>9. /\ numerology[r].output_start_row_this_rank = total[r] + Offset(info, remaining, r)
      /\ numerology[r].rows_to_write_this_rank = RankRows(info, remaining, r)
      /\ numerology[s].output_start_row_this_rank = total[r] + Offset(info, remaining, s)
      /\ numerology[s].rows_to_write_this_rank = RankRows(info, remaining, s)
  BY <1>1, <1>2, <1>4, <1>5 DEF RowNumerologyOf, Info, info, remaining
<1>10. /\ RankRows(info, remaining, r) \in Nat /\ RankRows(info, remaining, s) \in Nat
       /\ Offset(info, remaining, r) \in Int /\ Offset(info, remaining, s) \in Int
  BY <1>6, <1>7, RankRowsFitBuffer, ChunkedInterval
<1>11. /\ i \in Nat /\ j \in Nat
       /\ total[r] + Offset(info, remaining, r) <= i
       /\ i < total[r] + Offset(info, remaining, r) + RankRows(info, remaining, r)
       /\ total[r] + Offset(info, remaining, s) <= j
       /\ j < total[r] + Offset(info, remaining, s) + RankRows(info, remaining, s)
  BY <1>3, <1>9 DEF Target
<1>12. RankRows(info, remaining, r) > 0 /\ RankRows(info, remaining, s) > 0
  BY <1>3, <1>10, <1>11
<1>13. Offset(info, remaining, r) + RankRows(info, remaining, r)
         <= Offset(info, remaining, s)
  BY <1>6, <1>7, <1>12, RankSlicesDisjoint
<1>14. i < total[r] + Offset(info, remaining, s)
  BY <1>3, <1>10, <1>11, <1>13
<1> DEFINE C == layout.chunk_rows
           T == total[r]
           f == FirstChunk(info, remaining, s)
           m == T \div C + f
<1>15. T + Offset(info, remaining, s) = m * C /\ m \in Nat /\ C \in Nat \ {0}
  <2>1. C \in Nat \ {0} /\ f \in Nat
    BY <1>6, <1>7, <1>8, FirstChunkBounds DEF DSInfo
  <2>2. s # 0
    BY NRanksAssumption DEF Ranks
  <2>3. Offset(info, remaining, s)
          = f * info.chunk_rows - (info.n_rows_written_total % info.chunk_rows)
    BY <2>2 DEF Offset, IncompleteChunkSize
  <2> DEFINE q == T \div C
             n == T % C
  <2>4. m = q + f
    OBVIOUS
  <2>5. Offset(info, remaining, s) = f * C - n
    BY <1>8, <2>3
  <2> HIDE DEF f, m
  <2>6. T \in Nat
    BY <1>3
  <2> HIDE DEF C, T
  <2>7. q \in Nat /\ n \in Nat /\ T = C * q + n
    BY <2>1, <2>6, DivisionWithRemainder
  <2> HIDE DEF q, n
  <2>8. (q + f) * C = C * q + f * C /\ f * C \in Nat /\ C * q \in Nat
    BY <2>1, <2>7, SMT
  <2>9. T + Offset(info, remaining, s) = m * C
    BY <2>4, <2>5, <2>7, <2>8
  <2> QED
    BY <2>1, <2>4, <2>7, <2>9
<1>16. i < m * C /\ m * C <= j
  BY <1>11, <1>14, <1>15
<1> HIDE DEF C, T, f, m
<1>17. i \div C # j \div C
  <2> DEFINE p == i \div C
             a == i % C
             q == j \div C
             b == j % C
  <2>1. /\ p \in Nat /\ a \in Nat /\ a < C /\ i = C * p + a
        /\ q \in Nat /\ b \in Nat /\ b < C /\ j = C * q + b
    BY <1>11, <1>15, DivisionWithRemainder
  <2> HIDE DEF p, a, q, b
  <2> SUFFICES ASSUME p = q PROVE FALSE
    BY DEF p, q
  <2>2. C * p \in Nat /\ m * C \in Nat /\ C * p = p * C
    BY <1>15, <2>1, SMT
  <2>3. CASE m <= p
    <3>1. m * C <= p * C
      BY <1>15, <2>1, <2>3, ProductMonotone
    <3> QED
      BY <1>16, <2>1, <2>2, <3>1
  <2>4. CASE p < m
    <3>1. p * C + C <= m * C
      BY <1>15, <2>1, <2>4, ProductStep
    <3> QED
      BY <1>15, <1>16, <2>1, <2>2, <3>1
  <2> QED
    BY <1>15, <2>1, <2>3, <2>4
<1> QED
  BY <1>11, <1>15, <1>16, <1>17 DEF C

(* handle_dataset_(): in a collective H5Dwrite no two ranks touch the same *)
(* chunk of the output.                                                    *)
THEOREM ChunksHaveOneWriter == Spec => []ChunksExclusive
<1>1. IInv => ChunksExclusive
  <2> SUFFICES ASSUME IInv, Collective, NEW r \in Ranks, NEW s \in Ranks, r # s,
                      Transferring(r), Transferring(s),
                      NEW i \in Target(r), NEW j \in Target(s)
               PROVE  i \div layout.chunk_rows # j \div layout.chunk_rows
    BY DEF ChunksExclusive
  <2>1. r < s \/ s < r
    BY NRanksAssumption DEF Ranks
  <2>2. done[s] = done[r]
    BY DEF IInv, CursorsAgree
  <2>3. CASE r < s
    BY <2>2, <2>3, SlicesOrdered
  <2>4. CASE s < r
    BY <2>2, <2>4, SlicesOrdered
  <2> QED
    BY <2>1, <2>3, <2>4
<1> QED
  BY <1>1, Invariance, PTL
=============================================================================
