---------------------------- MODULE QueryResults ----------------------------
(***************************************************************************)
(* What data_engine/duckdb_query_engine.py answers a plan with.            *)
(*                                                                         *)
(* A table is a function from row numbers to rows, a group of a result a   *)
(* key (a value for each column of the grouping) and an amount.  A result  *)
(* is a set of groups: its order only decides which of several tied groups *)
(* are cut off or named first, and here any of them may be.  Dates are     *)
(* natural numbers.  Filters compare values of one type, and the means and *)
(* medians, no whole numbers, are left out.                                *)
(***************************************************************************)
EXTENDS Planning, Integers, FiniteSetsExt

CONSTANTS
    Null,
    DaysPerMonth,
    DefaultRows     \* DEFAULT_MAX_RESULT_ROWS

ASSUME ResultAssumption ==
    /\ DaysPerMonth \in Nat \ {0}
    /\ DefaultRows \in 1 .. MaxRows
    /\ Null \notin Value /\ Null \notin Int

Month(d) == d \div DaysPerMonth

\* Nothing compares with NULL.
Satisfies(v, f) ==
    /\ v # Null
    /\ \/ f.operator = "=" /\ v = f.value
       \/ f.operator = ">" /\ v > f.value
       \/ f.operator = "<" /\ v < f.value

\* The rows of table t that plan p looks at; bucketing drops those without a date.
Selected(t, p) ==
    {i \in DOMAIN t :
        /\ \A f \in p.filters : Satisfies(t[i][f.column], f)
        /\ p.granularity # None => t[i][p.time_column] # Null}

Bucket(p, c, v) ==
    IF p.granularity # None /\ c = p.time_column THEN Month(v) ELSE v

Key(t, p, i) == [c \in p.group_by |-> Bucket(p, c, t[i][c])]

\* The sum of a column over some of the rows.
SumOver(column, I) ==
    LET upTo[n \in 0 .. Max(I)] ==
            IF n = 0 THEN 0
            ELSE IF n \in I THEN upTo[n - 1] + column[n] ELSE upTo[n - 1]
    IN  upTo[Max(I)]

\* The aggregates of SQL: they pass over NULLs, and of nothing only the
\* number is known.
Aggregate(a, column, I) ==
    LET known   == {i \in I : column[i] # Null}
        amounts == {column[i] : i \in known}
    IN  CASE a = "count" -> Cardinality(known)
          [] a # "count" /\ known = {} -> Null
          [] a = "sum" /\ known # {} -> SumOver(column, known)
          [] a = "min" /\ known # {} -> Min(amounts)
          [] a = "max" /\ known # {} -> Max(amounts)

\* All the groups; without a grouping the one of all rows, were there none.
Groups(t, p) ==
    LET rows   == Selected(t, p)
        column == [i \in rows |-> t[i][p.metric]]
        keys   == IF p.group_by = {} THEN {<<>>} ELSE {Key(t, p, i) : i \in rows}
    IN  {[key |-> k,
          amount |-> Aggregate(p.aggregation, column,
                               {i \in rows : p.group_by = {} \/ Key(t, p, i) = k})] :
            k \in keys}

\* ORDER BY: g comes before h.  NULLs come last, whatever the direction.
Precedes(p, g, h) ==
    IF p.sort_by = "time"
    THEN IF p.sort = "asc" THEN g.key[p.time_column] < h.key[p.time_column]
                           ELSE g.key[p.time_column] > h.key[p.time_column]
    ELSE /\ g.amount # Null
         /\ \/ h.amount = Null
            \/ h.amount # Null /\ p.sort = "asc"  /\ g.amount < h.amount
            \/ h.amount # Null /\ p.sort = "desc" /\ g.amount > h.amount

RowLimit(p) == IF p.limit # None THEN p.limit ELSE DefaultRows

\* LIMIT: the first groups of that order.  One value needs none.
Results(t, p) ==
    LET groups == Groups(t, p)
    IN  IF p.group_by = {} \/ Cardinality(groups) <= RowLimit(p) THEN {groups}
        ELSE {S \in kSubset(RowLimit(p), groups) :
                 \A g \in S, h \in groups \ S : ~Precedes(p, h, g)}

\* The route's row_limit_reached: there may be more.
LimitReached(p, result) ==
    p.group_by # {} /\ Cardinality(result) >= RowLimit(p)
=============================================================================
