------------------------ MODULE MCAnalysisPipeline ------------------------
(* AnalysisPipeline over five columns, with families of questions, answers *)
(* and tables small enough to be taken in every combination that matters.  *)
EXTENDS AnalysisPipeline, SequencesExt

CONSTANTS region, city, day, sales, cost, a, b

\* Value a is both a region and a city, b only a region.
MCSample == [c \in Dimension |-> IF c = region THEN {a, b} ELSE {a}]

Plain == [comparisons |-> {}, phrases |-> {}, stray |-> FALSE, complex |-> FALSE,
          top |-> None, bottom |-> None, ranked |-> {}, grouped |-> {},
          mentioned |-> {sales}, periods |-> 0, words |-> {"sum"}]

CostAbove == [column |-> cost, operator |-> ">", value |-> 2]

In(c, v) == [column |-> c, value |-> v]

MCQuestions ==
    {[Plain EXCEPT !.phrases = f, !.grouped = g, !.mentioned = m,
                   !.periods = n, !.words = w] :
        f \in {{}, {In(None, b)}},
        g \in {{}, {region}, {day}, {cost}, {region, day}},
        m \in SUBSET Column, n \in 0 .. 2,
        w \in {{}, {"sum"}, {"count"}, {"sum", "max"}}}
    \cup
    {[Plain EXCEPT !.comparisons = f, !.top = n, !.bottom = k, !.ranked = e,
                   !.mentioned = m, !.words = w] :
        f \in {{}, {CostAbove}},
        n \in {0, 1, 4, None}, k \in {2, None},
        e \in {{}, {region}, {day}, {cost}, {region, city}},
        m \in SUBSET {region, city, sales, cost},
        w \in {{"count"}, {"min", "max"}}}
    \cup
    {[Plain EXCEPT !.phrases = f, !.stray = s, !.complex = x] :
        f \in SUBSET {In(None, a), In(city, a), In(city, b), In(region, b)},
        s \in BOOLEAN, x \in BOOLEAN}

RawPlan == [DefaultPlan EXCEPT !.group_by = {region}, !.metric = sales]

Dated == [RawPlan EXCEPT !.time_column = day, !.granularity = "month"]

RawPlans ==
    {[p EXCEPT !.group_by = g, !.aggregation = w, !.sort = s, !.limit = n] :
        p \in {RawPlan, Dated},
        g \in {{}, {region}, {day}, {cost}, {region, day}},
        w \in {"total", "count"}, s \in {"asc", "desc"}, n \in {None, 1, 2}}
    \cup {[Dated EXCEPT !.group_by = g, !.sort = s, !.sort_by = "time", !.limit = n] :
             g \in {{day}, {region}}, s \in {"asc", "desc"}, n \in {None, 1, 2}}
    \cup {[RawPlan EXCEPT !.metric = m, !.aggregation = w, !.sort = s, !.limit = n] :
             m \in {sales, Unknown, None}, w \in {None, "lowest", "variance"},
             s \in {"desc", "sideways"}, n \in {None, 0, 4}}
    \cup {[RawPlan EXCEPT !.time_column = c, !.granularity = n] :
             c \in {None, region, day}, n \in {None, "month"}}
    \cup {[RawPlan EXCEPT !.filters = {[column |-> region, operator |-> "==",
                                        value |-> a]}]}

MCAnswers ==
    {[readable |-> TRUE, status |-> "success", plan |-> p] : p \in RawPlans}
    \cup {[readable |-> r, status |-> s, plan |-> RawPlan] :
             r \in BOOLEAN, s \in {"clarification", "invalid"}}

Line(r, d, n, k) == [c \in Column |-> CASE c = region -> r [] c = day -> d
                                        [] c = sales -> n [] c = cost -> k
                                        [] OTHER -> a]

\* Two days of one month, a month skipped, and what may be missing.
Lines == {Line(a, 0, 1, 3), Line(a, 1, 4, 1), Line(b, 4, 2, 3), Line(b, 2, 6, Null),
          Line(Null, 4, 5, 1), Line(b, Null, 7, 3), Line(a, 4, Null, 3)}

MCTables == {SetToSeq(L) : L \in UNION {kSubset(n, Lines) : n \in 0 .. 4}}
===========================================================================
