--------------------------- MODULE RowIndex_proofs ---------------------------
(***************************************************************************)
(* The index of the insight validator never changes an answer, whatever    *)
(* the columns, the values and the tolerance of their comparison.          *)
(***************************************************************************)
EXTENDS RowIndex, TLAPS

\* A row that matches is in the bucket the target is looked up in.
LEMMA MatchIsCandidate ==
    ASSUME NEW rows, NEW target, NEW r \in rows, RowsMatch(target, r)
    PROVE  r \in Candidates(rows, target)
<1>1. DOMAIN target = DOMAIN r
  BY DEF RowsMatch
<1>2. r \in Shaped(rows, DOMAIN target)
  BY <1>1 DEF Shaped
<1>3. ASSUME NEW c \in SafeColumns(rows, DOMAIN target)
      PROVE  Text(r[c]) = Text(target[c])
  <2>1. c \in DOMAIN target /\ ~IsNumber(c, r[c])
    BY <1>2 DEF SafeColumns
  <2>2. QED
    BY <2>1 DEF RowsMatch, IsNaN
<1>4. QED
  BY <1>2, <1>3 DEF Candidates

\* Looking a quoted row up through the index finds it exactly when comparing it
\* with every row of the result would: the buckets lose no match, though a
\* number in one row and a text in another may share a column.
THEOREM IndexLosesNothing ==
    ASSUME NEW rows, NEW target
    PROVE  RowExists(target, rows) <=> \E r \in rows : RowsMatch(target, r)
<1>1. ASSUME RowExists(target, rows)
      PROVE  \E r \in rows : RowsMatch(target, r)
  BY <1>1 DEF RowExists, Candidates, Shaped
<1>2. ASSUME \E r \in rows : RowsMatch(target, r)
      PROVE  RowExists(target, rows)
  BY <1>2, MatchIsCandidate DEF RowExists
<1>3. QED
  BY <1>1, <1>2
=============================================================================
