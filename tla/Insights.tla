------------------------------ MODULE Insights ------------------------------
(***************************************************************************)
(* What the answer says about a result:                                    *)
(*                                                                         *)
(*   data_engine/insight_engine.py     Contexts, the facts                 *)
(*   data_engine/insight_generator.py  Insights, the facts worth stating   *)
(*   ai/insight_validator.py           Verified, the check before sending  *)
(*   data_engine/plan_explanation.py   Limitations                         *)
(*                                                                         *)
(* An insight is its type, the groups it quotes as evidence, and what it   *)
(* claims of them; its wording is left out but for the label of a group,   *)
(* which a missing date does not have.                                     *)
(***************************************************************************)
EXTENDS QueryResults

CONSTANTS
    Tolerance,      \* 1e-6, in the unit of the amounts
    DateNamed       \* the time columns with "date" or "timestamp" in their name

ASSUME InsightAssumption == Tolerance \in Nat /\ DateNamed \subseteq Time

-----------------------------------------------------------------------------
(* The facts.                                                              *)

Known(result) == {g \in result : g.amount # Null}

Highest(result) ==
    {g \in Known(result) : \A h \in Known(result) : h.amount <= g.amount}

Lowest(result) ==
    {g \in Known(result) : \A h \in Known(result) : g.amount <= h.amount}

\* Mutant: a ranking in either direction keeps the lowest.
KeepsLowestOfAnyRanking(p, limited) == limited => p.sort_by = "metric"

\* A limited result has the extreme it is sorted towards, not the other.
KeepsHighest(p, limited) == limited => p.sort_by = "metric" /\ p.sort = "desc"
KeepsLowest(p, limited)  == limited => p.sort_by = "metric" /\ p.sort = "asc"

\* The first column of the grouping that holds dates only.
DateColumn(p, result) ==
    LET dates == {c \in p.group_by \cap Time : \A g \in result : g.key[c] # Null}
    IN  IF dates = {} THEN None ELSE CHOOSE c \in dates : TRUE

\* g and h are neighbours in time among these groups.
Adjacent(groups, c, g, h) ==
    /\ g.key[c] < h.key[c]
    /\ \A e \in groups : e.key[c] <= g.key[c] \/ h.key[c] <= e.key[c]

Direction(groups, c) ==
    LET rises == \E g, h \in groups : Adjacent(groups, c, g, h) /\ g.amount < h.amount
        falls == \E g, h \in groups : Adjacent(groups, c, g, h) /\ g.amount > h.amount
    IN  IF rises /\ falls THEN "mixed"
        ELSE IF rises THEN "increasing"
        ELSE IF falls THEN "decreasing"
        ELSE "stable"

\* None also stands for a trend of insufficient data, which nobody reads.
Trend(p, result, limited) ==
    LET c == DateColumn(p, result)
    IN  IF \/ c = None \/ limited
           \/ Cardinality(p.group_by) # 1 \/ Cardinality(Known(result)) < 2
        THEN None ELSE Direction(Known(result), c)

\* The months between the first and the last one that no group is about.
Coverage(p, result, limited) ==
    LET c == DateColumn(p, result)
        months == {IF p.granularity # None /\ c = p.time_column
                   THEN g.key[c] ELSE Month(g.key[c]) : g \in result}
    IN  IF c = None \/ limited THEN None
        ELSE [column   |-> c,
              observed |-> Cardinality(months),
              expected |-> Max(months) - Min(months) + 1,
              missing  |-> (Min(months) .. Max(months)) \ months]

NoContext == [highest |-> None, lowest |-> None, range |-> 0,
              trend |-> None, coverage |-> None]

\* What a result says of time.
Series(p, result, limited) ==
    [NoContext EXCEPT !.trend = Trend(p, result, limited),
                      !.coverage = Coverage(p, result, limited)]

\* And of amounts, g being the highest and h the lowest of the result.
Ranking(p, result, limited, g, h) ==
    [Series(p, result, limited) EXCEPT
        !.highest = IF KeepsHighest(p, limited) THEN g ELSE None,
        !.lowest  = IF KeepsLowest(p, limited) THEN h ELSE None,
        !.range   = g.amount - h.amount]

\* Of tied groups the first is named, here any.
Contexts(p, result, limited) ==
    IF result = {} THEN {NoContext}
    ELSE IF Known(result) = {} THEN {Series(p, result, limited)}
    ELSE {Ranking(p, result, limited, g, h) :
             g \in Highest(result), h \in Lowest(result)}

-----------------------------------------------------------------------------
(* What is stated.                                                         *)

Claim(type, rows, claim) == [type |-> type, rows |-> rows, claim |-> claim]

WorthStating(context) == context.range > Tolerance

Extremes(context) == {context.highest, context.lowest} \ {None}

\* strftime raises: the date naming the group is missing.
Unlabelled(p, g) == \E c \in p.group_by \cap DateNamed : g.key[c] = Null

LabelFails(p, context) ==
    WorthStating(context) /\ \E g \in Extremes(context) : Unlabelled(p, g)

Insights(result, context) ==
    {Claim("highest", {g}, g.amount) :
        g \in IF WorthStating(context) THEN {context.highest} \ {None} ELSE {}}
    \cup
    {Claim("lowest", {g}, g.amount) :
        g \in IF WorthStating(context) THEN {context.lowest} \ {None} ELSE {}}
    \cup
    {Claim("trend", Known(result), d) : d \in {context.trend} \ {None}}
    \cup
    {Claim("difference", Extremes(context), context.range) :
        n \in {2} \cap {IF WorthStating(context) THEN Cardinality(Extremes(context))
                                                ELSE 0}}
    \cup
    {Claim("coverage", {}, c) :
        c \in {d \in {context.coverage} \ {None} : d.missing # {}}}

-----------------------------------------------------------------------------
(* What is checked.                                                        *)

Near(m, n) == IF Null \in {m, n} THEN FALSE ELSE m - n \in -Tolerance .. Tolerance

\* A group as the row of a table: an empty cell of a column of numbers is NaN.
AmountColumn == "amount"
Row(g) == [c \in DOMAIN g.key \cup {AmountColumn} |->
              IF c = AmountColumn THEN g.amount ELSE g.key[c]]

IsNumberAt(c, v) == c \in Measure \cup {AmountColumn}

Index == INSTANCE RowIndex WITH
            IsNumber <- IsNumberAt, Text <- LAMBDA v : v, NaN <- Null

Quoted(i, result) ==
    LET rows == {Row(g) : g \in result}
    IN  /\ Cardinality(i.rows) >= 2
        /\ \A g \in i.rows : Index!RowExists(Row(g), rows)

ExtremeVerified(i, expected) ==
    \E g \in i.rows :
       /\ Near(g.amount, i.claim)
       /\ expected # None =>
             /\ Near(i.claim, expected.amount)
             /\ Index!RowsMatch(Row(g), Row(expected))

DifferenceVerified(i, context) ==
    /\ Cardinality(i.rows) = 2
    /\ Null \notin {g.amount : g \in i.rows}
    /\ None \notin {context.highest, context.lowest} =>
          \E g, h \in i.rows : Near(g.amount - h.amount, context.range)

TrendVerified(i) == \A g \in i.rows : g.amount # Null

CoverageVerified(i, context) == context.coverage # None /\ i.claim = context.coverage

\* validate_insights lets this insight pass.
Verified(i, result, context) ==
    \/ i.type = "highest" /\ ExtremeVerified(i, context.highest)
    \/ i.type = "lowest" /\ ExtremeVerified(i, context.lowest)
    \/ i.type = "difference" /\ Quoted(i, result) /\ DifferenceVerified(i, context)
    \/ i.type = "trend" /\ Quoted(i, result) /\ TrendVerified(i)
    \/ i.type = "coverage" /\ CoverageVerified(i, context)

\* "more groups may exist", and which dates were left out.
Limitations(p, limited) ==
    {l \in {"more", "dates"} : \/ l = "more" /\ p.group_by # {} /\ limited
                               \/ l = "dates" /\ p.granularity # None}
=============================================================================
