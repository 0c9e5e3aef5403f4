------------------------------ MODULE Planning ------------------------------
(***************************************************************************)
(* From a question to an analysis plan:                                    *)
(*                                                                         *)
(*   ai/fast_planner.py       FastPlans, rules over what the question says *)
(*   ai/providers, adapter    Accepts, Adapted: the language model's       *)
(*                            answer, checked and put into canonical form  *)
(*                                                                         *)
(* A question is what the planner's patterns find in it.  `comparisons`    *)
(* and `phrases` are the filters it spells out, "cost > 5" and "in the     *)
(* North region"; every other field concerns what is left of it once those *)
(* are cut out.  `mentioned` holds a measure whose name is a phrase of the *)
(* question and any other column whose name occurs in it.  Granularities   *)
(* are counted, `month` stands for the one found.                          *)
(***************************************************************************)
EXTENDS AnalysisPlans

CONSTANT Sample     \* the values the metadata lists for each dimension

ASSUME SampleAssumption == Sample \in [Dimension -> SUBSET Value]

Aggregation == {"sum", "mean", "median", "min", "max", "count"}

\* "cost > 5", "where region is North"
Condition == [column : Column, operator : Comparison \cup {"="}, value : Value]

\* "in North", "for the North region"
Phrase == [column : Dimension \cup {None}, value : Value]

Question ==
    [comparisons : SUBSET Condition,
     phrases     : SUBSET Phrase,
     stray       : BOOLEAN,     \* a filter phrase with no known value
     complex     : BOOLEAN,     \* "between", "before", "and ... or", ...
     top         : Nat \cup {None},
     bottom      : Nat \cup {None},
     ranked      : SUBSET Column,       \* "top 5 regions"
     grouped     : SUBSET Column,       \* "by region", "per region", ...
     mentioned   : SUBSET Column,
     periods     : Nat,
     words       : SUBSET Aggregation]

DefaultPlan ==
    [filters |-> {}, group_by |-> {}, metric |-> None, aggregation |-> "sum",
     sort |-> "desc", sort_by |-> "metric", limit |-> None,
     time_column |-> None, granularity |-> None]

\* The only element: what is ambiguous is not guessed.
The(S) == IF Cardinality(S) = 1 THEN CHOOSE x \in S : TRUE ELSE None

-----------------------------------------------------------------------------
(* Filters.                                                                *)

\* The columns a phrase can be about: the one it names, else any with that value.
Owners(ph) ==
    {c \in Dimension : ph.column \in {c, None} /\ ph.value \in Sample[c]}

\* A phrase that is about no column, about several, or the second about one.
Unresolved(q) ==
    /\ Dimension # {}
    /\ \/ q.stray
       \/ \E ph \in q.phrases : Cardinality(Owners(ph)) # 1
       \/ \E ph, other \in q.phrases :
             ph # other /\ Owners(ph) = Owners(other)

CategoricalFilters(q) ==
    {f \in [column : Dimension, operator : {"="}, value : Value] :
        \E ph \in q.phrases : Owners(ph) = {f.column} /\ ph.value = f.value}

-----------------------------------------------------------------------------
(* "top 5 regions by sales"                                                *)

\* The metric: the only measure named, else one a filter compares, else the
\* only measure there is.
RankedMetrics(q, filters, entity) ==
    LET candidates == Measure \ {entity}
        named      == q.mentioned \cap candidates
        compared   == {f.column : f \in filters} \cap candidates
    IN  IF Cardinality(named) = 1 THEN named
        ELSE IF compared # {} THEN compared
        ELSE IF Cardinality(candidates) = 1 THEN candidates
        ELSE {}

\* What is ranked: what follows the number, else the only dimension mentioned.
RankedEntity(q, metric) ==
    IF The(q.ranked) # None THEN The(q.ranked)
    ELSE The((q.mentioned \cap Dimension) \ {metric})

RankedAggregation(words) ==
    LET rank  == [mean |-> 1, median |-> 2, min |-> 3, max |-> 4]
        named == words \cap DOMAIN rank
    IN  IF named = {} THEN "sum"
        ELSE CHOOSE a \in named : \A b \in named : rank[a] <= rank[b]

RankingCount(q) == IF q.top # None THEN q.top ELSE q.bottom

\* Mutant: a ranking of no rows is planned as well.
AsksRankingOfNone(q) == (q.top = None) # (q.bottom = None)

\* A question for both ends, or for no rows, is no ranking.
AsksRanking(q) ==
    /\ (q.top = None) # (q.bottom = None)
    /\ RankingCount(q) > 0

RankingPlans(q, filters) ==
    IF ~AsksRanking(q) THEN {}
    ELSE {[DefaultPlan EXCEPT
              !.filters     = filters,
              !.group_by    = {RankedEntity(q, m)},
              !.metric      = m,
              !.aggregation = RankedAggregation(q.words),
              !.sort        = IF q.top # None THEN "desc" ELSE "asc",
              !.limit       = RankingCount(q)] :
          m \in {n \in RankedMetrics(q, filters, The(q.ranked)) :
                    RankedEntity(q, n) # None}}

-----------------------------------------------------------------------------
(* Everything else.                                                        *)

TimeColumn(q) ==
    IF q.mentioned \cap Time # {} THEN The(q.mentioned \cap Time) ELSE The(Time)

Metric(q) == The(q.mentioned \cap (Measure \ q.grouped))

Filtering(q) == {f.column : f \in CategoricalFilters(q)}

\* "by region", else the dimensions mentioned at all.
Grouping(q) ==
    IF q.grouped # {} THEN q.grouped
    ELSE (q.mentioned \cap Dimension) \ Filtering(q)

Ambiguous(q) ==
    \/ q.periods = 1 /\ TimeColumn(q) = None
    \/ Cardinality(q.grouped) > 1
    \/ q.grouped \cap Filtering(q) # {}
    \/ Metric(q) = None
    \/ Cardinality(q.words) # 1

StandalonePlans(q, filters) ==
    LET base == [DefaultPlan EXCEPT !.filters = filters,
                                    !.metric = Metric(q),
                                    !.aggregation = The(q.words)]
    IN  IF Ambiguous(q) THEN {}
        ELSE IF q.periods = 1
        THEN {[base EXCEPT !.group_by = {TimeColumn(q)},
                           !.sort = "asc", !.sort_by = "time",
                           !.time_column = TimeColumn(q),
                           !.granularity = "month"]}
        ELSE IF Cardinality(Grouping(q)) > 1 THEN {}
        ELSE {[base EXCEPT !.group_by = Grouping(q)]}

\* create_plan: the plans it may return, none when it defers to the model.
FastPlans(q) ==
    LET filters == q.comparisons \cup CategoricalFilters(q)
        ranking == RankingPlans(q, filters)
    IN  IF Unresolved(q) \/ q.complex THEN {}
        ELSE IF ranking # {} THEN ranking
        ELSE StandalonePlans(q, filters)

-----------------------------------------------------------------------------
(* The language model's answer: unreadable, or a status and a plan in its  *)
(* own words.                                                              *)

Provider == {"claude", "openai"}

\* AGGREGATION_ALIASES, a name per canonical aggregation beside its own.
Alias == [sum |-> "sum", total |-> "sum", mean |-> "mean", average |-> "mean",
          median |-> "median", min |-> "min", lowest |-> "min",
          max |-> "max", highest |-> "max", count |-> "count", number |-> "count"]

\* Both want the schema; Claude's answer is also checked against itself.
Accepts(provider, a) ==
    /\ a.readable
    /\ provider = "claude" /\ a.status = "success" =>
          /\ a.plan.metric # None
          /\ a.plan.granularity # None => a.plan.time_column # None

Adaptable(raw) ==
    /\ raw.aggregation \in DOMAIN Alias \cup {None}
    /\ raw.sort \in {"asc", "desc"}
    /\ raw.limit # None => raw.limit > 0

Adapted(raw) ==
    [raw EXCEPT
        !.aggregation = IF @ = None THEN "sum" ELSE Alias[@],
        !.filters = {[f EXCEPT !.operator = IF @ = "==" THEN "=" ELSE @] : f \in @}]
=============================================================================
