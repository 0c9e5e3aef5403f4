--------------------------- MODULE AnalysisPlans ---------------------------
(***************************************************************************)
(* Analysis plans, and what the four parts that handle one ask of it:      *)
(*                                                                         *)
(*   data_engine/plan_validator.py        Valid, before any execution      *)
(*   data_engine/duckdb_query_engine.py   Executable, its own ValueErrors  *)
(*   backend/routes/analysis.py           Accepted, the request contract   *)
(*                                        of a previous plan               *)
(*   ai/follow_up.py                      Edits, the one change a follow-  *)
(*                                        up question may make             *)
(*                                                                         *)
(* A grouping and a list of filters are sets.  What the planners choose    *)
(* but no check relates to anything (visualization) is left out, and so is *)
(* the aggregation, whose aliases validation makes canonical.              *)
(***************************************************************************)
EXTENDS Naturals, FiniteSets

CONSTANTS
    Dimension, Time, Measure,   \* the dataset's columns, by role
    Unknown,        \* a column it does not have
    Value,          \* values a follow-up can name
    Opaque,         \* a filter value that is no JSON scalar
    Count,          \* the numbers of groups a follow-up can name
    MaxRows,        \* MAX_RESULT_ROWS
    MaxContextRows, \* bounds of the PreviousPlan model: limit, ...
    MaxGroupBy,     \* ... group_by
    MaxFilters,     \* ... and filters; _MAX_FILTERS of ai/follow_up.py
    None

Column == Dimension \cup Time \cup Measure

ASSUME ColumnAssumption ==
    /\ Dimension \cap Time = {} /\ Measure \cap (Dimension \cup Time) = {}
    /\ Unknown \notin Column
    /\ None \notin Column \cup {Unknown, "month"}
    /\ Opaque \notin Value

ASSUME NumberAssumption ==
    /\ Count \subseteq Nat \ {0}
    /\ {MaxRows, MaxContextRows, MaxGroupBy, MaxFilters} \subseteq Nat
    /\ MaxRows <= MaxContextRows
    /\ None \notin Nat

Comparison == {">", "<"}

Filter == [column : Column \cup {Unknown},
           operator : Comparison \cup {"="},
           value : Value \cup {Opaque}]

Plan == [filters     : SUBSET Filter,
         group_by    : SUBSET (Column \cup {Unknown}),
         metric      : Column \cup {Unknown, None},
         sort        : {"asc", "desc"},
         sort_by     : {"metric", "time"},
         limit       : Nat \cup {None},
         time_column : Column \cup {Unknown, None},
         granularity : {"month", None}]

ASSUME PlanAssumption == None \notin Plan

\* Mutant: a plan sorted by time need not be grouped by it.
ValidWithoutTimeSort(p) ==
    /\ p.group_by \subseteq Column
    /\ p.metric \in Column \cup {None}
    /\ \A f \in p.filters : f.column \in Column
    /\ p.limit # None => p.limit \in 1 .. MaxRows
    /\ p.granularity # None => p.time_column # None
    /\ p.time_column # None => p.time_column \in Time

\* validate_plan raises no ValueError.
Valid(p) ==
    /\ p.group_by \subseteq Column
    /\ p.metric \in Column \cup {None}
    /\ \A f \in p.filters : f.column \in Column
    /\ p.limit # None => p.limit \in 1 .. MaxRows
    /\ p.granularity # None => p.time_column # None
    /\ p.time_column # None => p.time_column \in Time
    /\ p.sort_by = "time" => /\ p.granularity # None
                             /\ p.time_column \in p.group_by

\* execute_plan_duckdb raises no ValueError; sorting concerns grouped plans.
Executable(p) ==
    /\ \A f \in p.filters : f.column \in Column
    /\ p.granularity # None => p.time_column \in Column
    /\ p.metric \in Column
    /\ p.limit # None => p.limit > 0
    /\ p.group_by \subseteq Column
    /\ p.group_by # {} /\ p.sort_by = "time" =>
          p.granularity # None /\ p.time_column \in p.group_by

\* The PreviousPlan model takes it back as the context of the next question.
Accepted(p) ==
    /\ p.metric # None
    /\ \A f \in p.filters : f.value # Opaque
    /\ Cardinality(p.filters) <= MaxFilters
    /\ Cardinality(p.group_by) <= MaxGroupBy
    /\ p.limit # None => p.limit \in 1 .. MaxContextRows

-----------------------------------------------------------------------------
(* The edits of a follow-up.                                               *)

Rank(p, s, n) == [p EXCEPT !.sort = s, !.sort_by = "metric", !.limit = n]

\* "bottom 10 instead": needs groups to rank.
Ranked(p) ==
    {Rank(p, s, n) :
        s \in {"asc", "desc"}, n \in IF p.group_by = {} THEN {} ELSE Count}

\* "break that down by region": not after a ranking.
BrokenDown(p) ==
    IF p.limit # None THEN {}
    ELSE {[p EXCEPT !.group_by = @ \cup {c}] : c \in (Dimension \cup Time) \ p.group_by}

\* Mutant: the time analysis is dropped, the sort by time is not.
RegroupSortedByTime(p, c) ==
    [p EXCEPT !.group_by = {c},
              !.time_column = IF p.time_column = c THEN @ ELSE None,
              !.granularity = IF p.time_column = c THEN @ ELSE None]

\* A time analysis of another column goes with it.
Regroup(p, c) ==
    [p EXCEPT !.group_by = {c},
              !.time_column = IF p.time_column = c THEN @ ELSE None,
              !.granularity = IF p.time_column = c THEN @ ELSE None,
              !.sort_by     = IF p.time_column = c THEN @ ELSE "metric"]

\* "by city instead"
Regrouped(p) ==
    {Regroup(p, c) : c \in {d \in Dimension \cup Time : p.group_by # {d}}}

Askable ==
    [column : Dimension, operator : {"="}, value : Value]
        \cup [column : Measure, operator : Comparison, value : Value]

\* "only include the North region": within the contract's bound, and never a
\* second value or the same comparison for one column.
Filtered(p) ==
    IF Cardinality(p.filters) >= MaxFilters THEN {}
    ELSE {[p EXCEPT !.filters = @ \cup {f}] :
             f \in {g \in Askable :
                       \A e \in p.filters : e.column = g.column =>
                          g.operator # "=" /\ e.operator # g.operator}}

\* The filters "use South instead of North" can mean by North: one only.
Replaceable(p) ==
    {f \in p.filters :
        /\ f.operator = "=" /\ f.column \in Dimension /\ f.value \in Value
        /\ \A e \in p.filters : e.operator = "=" /\ e.value = f.value => e = f}

Replace(p, f, v) ==
    [p EXCEPT !.filters = (@ \ {f}) \cup {[f EXCEPT !.value = v]}]

Replaced(p) ==
    UNION {{Replace(p, f, v) : v \in Value \ {f.value}} : f \in Replaceable(p)}

\* resolve_follow_up: exactly one edit, or none.
Edits(p) ==
    Ranked(p) \cup BrokenDown(p) \cup Regrouped(p) \cup Filtered(p) \cup Replaced(p)
=============================================================================
