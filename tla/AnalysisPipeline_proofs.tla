----------------------- MODULE AnalysisPipeline_proofs -----------------------
(***************************************************************************)
(* For every dataset, every question and answer of the language model, and *)
(* all limits:                                                             *)
(*                                                                         *)
(*   FastPlansRunAlways       the rules of the fast planner never make a   *)
(*                            plan that is refused later                   *)
(*   ClaimsAreAlwaysTrue      what an answer says of a result, cut as it   *)
(*                            may be, is true of all the data              *)
(*   InsightsAreAlwaysKept    the check before sending passes whatever     *)
(*                            was computed                                 *)
(*                                                                         *)
(* The last two rest on PipelineInv, and on what is proved of the          *)
(* operators first: that amounts and dates are numbers or missing, that a  *)
(* result is a part of the groups with nothing before it left out, and     *)
(* that the facts computed from it carry over to all of them.              *)
(***************************************************************************)
EXTENDS AnalysisPipeline, FiniteSetTheorems, TLAPS

-----------------------------------------------------------------------------
(* Integers, without the induction theorems of the library.                 *)

\* A finite set of integers has a least element.
LEMMA LeastElement ==
    ASSUME NEW S \in SUBSET Int, S # {}, IsFiniteSet(S)
    PROVE  \E m \in S : \A x \in S : m <= x
<1> DEFINE below(y) == {x \in S : x < y}
<1>1. PICK T \in SUBSET FiniteSubsetsOf(S) : T = {below(y) : y \in S}
  <2>1. \A y \in S : below(y) \in FiniteSubsetsOf(S)
    BY FS_Subset DEF FiniteSubsetsOf
  <2>2. QED
    BY <2>1
<1>2. PICK L \in T : \A U \in T : <<U, L>> \notin StrictSubsetOrdering(S)
  <2>1. T # {}
    BY <1>1
  <2>2. QED
    BY <2>1, FS_StrictSubsetOrderingWellFounded, WFMin
<1>3. PICK m \in S : L = below(m)
  BY <1>1
<1>4. ASSUME NEW x \in S, x < m
      PROVE  FALSE
  <2>1. x \in below(m) /\ x \notin below(x)
    BY <1>4
  <2>2. below(x) \subseteq below(m)
    <3>1. ASSUME NEW y \in S, y < x
          PROVE  y < m
      <4>1. x \in Int /\ y \in Int /\ m \in Int
        OBVIOUS
      <4>2. QED
        BY <4>1, <3>1, <1>4
    <3>2. QED
      BY <3>1
  <2>3. below(x) \in T
    BY <1>1
  <2>4. <<below(x), L>> \in StrictSubsetOrdering(S)
    BY <2>1, <2>2, <1>3 DEF StrictSubsetOrdering
  <2>5. QED
    BY <2>3, <2>4, <1>2
<1>5. QED
  BY <1>4

\* Induction over the natural numbers, of sets: the least counterexample fails.
LEMMA NatSetInduction ==
    ASSUME NEW S, 0 \in S, \A n \in Nat : n \in S => n + 1 \in S
    PROVE  Nat \subseteq S
<1>1. ASSUME NEW x \in Nat, x \notin S
      PROVE  FALSE
  <2> DEFINE T == {n \in 0 .. x : n \notin S}
  <2>1. T # {} /\ T \in SUBSET Int
    BY <1>1
  <2>2. IsFiniteSet(T)
    <3>1. IsFiniteSet(0 .. x)
      BY FS_Interval
    <3>2. QED
      BY <3>1, FS_Subset
  <2>3. PICK m \in T : \A y \in T : m <= y
    BY <2>1, <2>2, LeastElement
  <2>4. m # 0 /\ m \in 0 .. x
    OBVIOUS
  <2>5. m - 1 \in 0 .. x /\ m - 1 \in Nat /\ (m - 1) + 1 = m
    BY <2>4
  <2>6. m - 1 \in S
    <3>1. m - 1 \notin T
      BY <2>3, <2>4, <2>5
    <3>2. QED
      BY <2>5, <3>1
  <2>7. QED
    BY <2>3, <2>5, <2>6
<1>2. QED
  BY <1>1


\* What a function makes of the members of a finite set is finite.
LEMMA FiniteImage ==
    ASSUME NEW S, IsFiniteSet(S), NEW f
    PROVE  IsFiniteSet({f[x] : x \in S})
<1>1. PICK g : g = [x \in S |-> f[x]]
  OBVIOUS
<1>2. g \in Surjection(S, {f[x] : x \in S})
  BY <1>1 DEF Surjection
<1>3. QED
  BY <1>2, FS_Surjection

LEMMA MinIsMember ==
    ASSUME NEW S \in SUBSET Int, S # {}, IsFiniteSet(S)
    PROVE  Min(S) \in S
BY LeastElement DEF Min

LEMMA MaxIsMember ==
    ASSUME NEW S \in SUBSET Int, S # {}, IsFiniteSet(S)
    PROVE  Max(S) \in S
<1>1. PICK f : f = [x \in S |-> -x]
  OBVIOUS
<1>2. PICK T : T = {f[x] : x \in S}
  OBVIOUS
<1>3. T \in SUBSET Int /\ T # {} /\ IsFiniteSet(T)
  <2>1. IsFiniteSet(T)
    BY <1>2, FiniteImage
  <2>2. \A x \in S : f[x] = -x /\ x \in Int
    BY <1>1
  <2>3. T \in SUBSET Int
    BY <1>2, <2>2
  <2>4. T # {}
    BY <1>2
  <2>5. QED
    BY <2>1, <2>3, <2>4
<1>4. PICK l \in T : \A y \in T : l <= y
  BY <1>3, LeastElement
<1>5. PICK m \in S : l = f[m]
  BY <1>2
<1>6. ASSUME NEW x \in S
      PROVE  m >= x
  <2>1. f[x] \in T /\ f[x] = -x /\ f[m] = -m /\ m \in Int /\ x \in Int
    BY <1>1, <1>2
  <2>2. -m <= -x
    BY <2>1, <1>4, <1>5
  <2>3. QED
    BY <2>1, <2>2
<1>7. QED
  BY <1>6 DEF Max

\* There is only one greatest or least member.
LEMMA MaxIsUnique ==
    ASSUME NEW S \in SUBSET Int, NEW m \in S, \A x \in S : x <= m
    PROVE  Max(S) = m
<1>1. PICK k \in S : k = Max(S) /\ \A x \in S : k >= x
  BY DEF Max
<1>2. k \in Int /\ m \in Int /\ k <= m /\ m <= k
  BY <1>1
<1>3. QED
  BY <1>1, <1>2

LEMMA MinIsUnique ==
    ASSUME NEW S \in SUBSET Int, NEW m \in S, \A x \in S : m <= x
    PROVE  Min(S) = m
<1>1. PICK k \in S : k = Min(S) /\ \A x \in S : k <= x
  BY DEF Min
<1>2. k \in Int /\ m \in Int /\ k <= m /\ m <= k
  BY <1>1
<1>3. QED
  BY <1>1, <1>2

LEMMA LeastNatural ==
    ASSUME NEW S \in SUBSET Nat, S # {}
    PROVE  \E m \in S : \A x \in S : m <= x
<1>1. PICK n \in S : n \in Nat
  OBVIOUS
<1>2. PICK T : T = {x \in S : x <= n}
  OBVIOUS
<1>3. IsFiniteSet(T)
  <2>1. T \in SUBSET Nat /\ \A x \in T : x <= n
    BY <1>2
  <2>2. QED
    BY <1>1, <2>1, FS_BoundedSetOfNaturals
<1>4. T \in SUBSET Int /\ T # {}
  <2>1. n \in T
    BY <1>1, <1>2
  <2>2. T \in SUBSET Int
    <3>1. T \in SUBSET Nat
      BY <1>2
    <3>2. QED
      BY <3>1
  <2>3. QED
    BY <2>1, <2>2
<1>5. PICK m \in T : \A x \in T : m <= x
  BY <1>3, <1>4, LeastElement
<1>6. ASSUME NEW x \in S
      PROVE  m <= x
  <2>1. m \in Nat /\ m <= n /\ n \in Nat /\ x \in Nat
    BY <1>1, <1>2
  <2>2. CASE x <= n
    BY <1>2, <1>5, <2>2
  <2>3. CASE ~(x <= n)
    BY <2>1, <2>3
  <2>4. QED
    BY <2>2, <2>3
<1>7. QED
  BY <1>2, <1>6

-----------------------------------------------------------------------------
(* The aggregates of whole numbers are whole numbers.                       *)

SumBy(f, n, column, I) ==
    f = [m \in 0 .. n |->
            IF m = 0 THEN 0
            ELSE IF m \in I THEN f[m - 1] + column[m] ELSE f[m - 1]]

LEMMA SumExists ==
    ASSUME NEW I \in SUBSET Nat, NEW column, \A i \in I : column[i] \in Int
    PROVE  \A n \in Nat : \E f \in [0 .. n -> Int] : SumBy(f, n, column, I)
<1> DEFINE S == {n \in Nat : \E f \in [0 .. n -> Int] : SumBy(f, n, column, I)}
<1>1. 0 \in S
  <2>1. PICK f : f = [m \in 0 .. 0 |-> 0]
    OBVIOUS
  <2>2. f \in [0 .. 0 -> Int]
    BY <2>1
  <2>3. SumBy(f, 0, column, I)
    BY <2>1 DEF SumBy
  <2>4. QED
    BY <2>2, <2>3
<1>2. ASSUME NEW n \in Nat, n \in S
      PROVE  n + 1 \in S
  <2>1. PICK f \in [0 .. n -> Int] : SumBy(f, n, column, I)
    BY <1>2
  <2>2. PICK last \in Int :
          last = IF n + 1 \in I THEN f[n] + column[n + 1] ELSE f[n]
    <3>1. f[n] \in Int
      BY <2>1
    <3>2. CASE n + 1 \in I
      <4>1. column[n + 1] \in Int
        BY <3>2
      <4>2. QED
        BY <3>1, <3>2, <4>1
    <3>3. CASE n + 1 \notin I
      BY <3>1, <3>3
    <3>4. QED
      BY <3>2, <3>3
  <2>3. PICK g : g = [m \in 0 .. n + 1 |-> IF m = n + 1 THEN last ELSE f[m]]
    OBVIOUS
  <2>4. g \in [0 .. n + 1 -> Int]
    BY <2>1, <2>2, <2>3
  <2>5. ASSUME NEW m \in 0 .. n + 1
        PROVE  g[m] = IF m = 0 THEN 0
                      ELSE IF m \in I THEN g[m - 1] + column[m] ELSE g[m - 1]
    <3>1. CASE m = n + 1
      <4>1. m # 0 /\ m - 1 = n /\ n \in 0 .. n + 1 /\ n # n + 1
        BY <3>1
      <4>2. g[m] = last /\ g[m - 1] = f[n]
        BY <2>3, <3>1, <4>1
      <4>3. QED
        BY <2>2, <3>1, <4>1, <4>2
    <3>2. CASE m = 0
      <4>1. 0 # n + 1 /\ 0 \in 0 .. n
        OBVIOUS
      <4>2. QED
        BY <2>1, <2>3, <3>2, <4>1 DEF SumBy
    <3>3. CASE m \in 1 .. n
      <4>1. /\ m \in 0 .. n /\ m # 0 /\ m # n + 1
            /\ m - 1 \in 0 .. n + 1 /\ m - 1 # n + 1
        BY <3>3
      <4>2. g[m] = f[m] /\ g[m - 1] = f[m - 1]
        BY <2>3, <4>1
      <4>3. QED
        BY <2>1, <4>1, <4>2 DEF SumBy
    <3>4. QED
      BY <3>1, <3>2, <3>3
  <2>6. SumBy(g, n + 1, column, I)
    <3>1. g = [m \in 0 .. n + 1 |-> g[m]]
      BY <2>3
    <3>2. QED
      BY <2>5, <3>1 DEF SumBy
  <2>7. QED
    BY <2>4, <2>6
<1> HIDE DEF S
<1>3. Nat \subseteq S
  BY <1>1, <1>2, NatSetInduction
<1>4. QED
  BY <1>3 DEF S

LEMMA SumIsInteger ==
    ASSUME NEW I \in SUBSET Nat, I # {}, IsFiniteSet(I),
           NEW column, \A i \in I : column[i] \in Int
    PROVE  SumOver(column, I) \in Int
<1>1. PICK n \in Nat : n = Max(I)
  <2>1. I \in SUBSET Int
    OBVIOUS
  <2>2. QED
    BY <2>1, MaxIsMember
<1>2. PICK f \in [0 .. n -> Int] : SumBy(f, n, column, I)
  BY SumExists
<1>3. PICK upTo :
        /\ upTo = CHOOSE g : SumBy(g, n, column, I)
        /\ SumBy(upTo, n, column, I)
  BY <1>2
<1>4. SumOver(column, I) = upTo[n]
  BY <1>1, <1>3 DEF SumOver, SumBy
<1>5. ASSUME NEW m \in 0 .. n
      PROVE  upTo[m] = IF m = 0 THEN 0
                       ELSE IF m \in I THEN upTo[m - 1] + column[m] ELSE upTo[m - 1]
  BY <1>3 DEF SumBy
<1>6. QED
  <2> DEFINE S == {m \in Nat : m <= n => upTo[m] \in Int}
  <2>1. 0 \in S
    <3>1. upTo[0] = 0
      BY <1>5
    <3>2. QED
      BY <3>1
  <2>2. ASSUME NEW m \in Nat, m \in S
        PROVE  m + 1 \in S
    <3>1. CASE m + 1 <= n
      <4>1. upTo[m] \in Int /\ m + 1 \in 0 .. n /\ m + 1 # 0 /\ (m + 1) - 1 = m
        BY <2>2, <3>1
      <4>2. upTo[m + 1] = IF m + 1 \in I THEN upTo[m] + column[m + 1] ELSE upTo[m]
        BY <1>5, <4>1
      <4>3. m + 1 \in I => column[m + 1] \in Int
        OBVIOUS
      <4>4. QED
        BY <4>1, <4>2, <4>3
    <3>2. QED
      BY <3>1
  <2> HIDE DEF S
  <2>3. Nat \subseteq S
    BY <2>1, <2>2, NatSetInduction
  <2>4. upTo[n] \in Int
    BY <2>3 DEF S
  <2>5. QED
    BY <1>4, <2>4

LEMMA AggregateIsInteger ==
    ASSUME NEW a \in {"sum", "min", "max", "count"}, NEW column,
           NEW n \in Nat, NEW I \in SUBSET (1 .. n),
           a # "count" => \A i \in I : column[i] \in Int \cup {Null}
    PROVE  Aggregate(a, column, I) \in Int \cup {Null}
<1>1. PICK known : known = {i \in I : column[i] # Null}
  OBVIOUS
<1>2. PICK amounts : amounts = {column[i] : i \in known}
  OBVIOUS
<1>3. known \in SUBSET Nat /\ known \in SUBSET (1 .. n) /\ IsFiniteSet(known)
  <2>1. known \in SUBSET (1 .. n)
    BY <1>1
  <2>2. IsFiniteSet(1 .. n)
    BY FS_Interval
  <2>3. IsFiniteSet(known)
    BY <2>1, <2>2, FS_Subset
  <2>4. \A i \in 1 .. n : i \in Nat
    OBVIOUS
  <2>5. QED
    BY <2>1, <2>3, <2>4
<1>4. Aggregate(a, column, I) =
        CASE a = "count" -> Cardinality(known)
          [] a # "count" /\ known = {} -> Null
          [] a = "sum" /\ known # {} -> SumOver(column, known)
          [] a = "min" /\ known # {} -> Min(amounts)
          [] a = "max" /\ known # {} -> Max(amounts)
  BY <1>1, <1>2 DEF Aggregate
<1>5. CASE a = "count"
  <2>1. Cardinality(known) \in Nat
    BY <1>3, FS_CardinalityType
  <2>2. QED
    BY <1>4, <1>5, <2>1
<1>6. CASE a # "count" /\ known = {}
  BY <1>4, <1>6
<1>7. CASE a # "count" /\ known # {}
  <2>1. \A i \in known : column[i] \in Int
    BY <1>1, <1>7
  <2>2. amounts \in SUBSET Int /\ amounts # {} /\ IsFiniteSet(amounts)
    <3>1. IsFiniteSet(amounts)
      BY <1>2, <1>3, FiniteImage
    <3>2. QED
      BY <1>2, <1>7, <2>1, <3>1
  <2>3. SumOver(column, known) \in Int
    BY <1>3, <1>7, <2>1, SumIsInteger
  <2>4. Min(amounts) \in Int /\ Max(amounts) \in Int
    BY <2>2, MinIsMember, MaxIsMember
  <2>5. QED
    BY <1>4, <1>7, <2>3, <2>4
<1>8. QED
  BY <1>5, <1>6, <1>7

-----------------------------------------------------------------------------
(* The fast planner.                                                        *)

USE ColumnAssumption, NumberAssumption

\* Too many rows are asked for: the one thing the rules leave to validation.
Excessive(p) == p.limit # None /\ p.limit > MaxRows

LEMMA TheIsElement ==
    ASSUME NEW S, The(S) # None
    PROVE  The(S) \in S
<1>1. Cardinality(S) = 1
  BY DEF The
<1>2. S # {}
  BY <1>1, FS_EmptySet
<1>3. QED
  BY <1>1, <1>2 DEF The

LEMMA FiltersNameColumns ==
    ASSUME NEW q \in Question, NEW f \in q.comparisons \cup CategoricalFilters(q)
    PROVE  f.column \in Column
BY DEF Question, Condition, CategoricalFilters, Column

LEMMA RankingPlansRun ==
    ASSUME NEW q \in Question, NEW filters, NEW p \in RankingPlans(q, filters),
           \A f \in filters : f.column \in Column
    PROVE  (Valid(p) /\ Executable(p)) \/ Excessive(p)
<1>1. AsksRanking(q)
  BY DEF RankingPlans
<1>2. PICK m \in RankedMetrics(q, filters, The(q.ranked)) :
        /\ RankedEntity(q, m) # None
        /\ p = [DefaultPlan EXCEPT
                  !.filters     = filters,
                  !.group_by    = {RankedEntity(q, m)},
                  !.metric      = m,
                  !.aggregation = RankedAggregation(q.words),
                  !.sort        = IF q.top # None THEN "desc" ELSE "asc",
                  !.limit       = RankingCount(q)]
  BY <1>1 DEF RankingPlans
<1>3. m \in Column
  BY DEF RankedMetrics, Column
<1>4. RankedEntity(q, m) \in Column
  <2>1. q.ranked \subseteq Column
    BY DEF Question
  <2>2. CASE The(q.ranked) # None
    BY <2>1, <2>2, TheIsElement DEF RankedEntity
  <2>3. CASE The(q.ranked) = None
    BY <1>2, <2>3, TheIsElement DEF RankedEntity, Column
  <2>4. QED
    BY <2>2, <2>3
<1>5. RankingCount(q) \in Nat /\ RankingCount(q) > 0
  <2>1. q.top \in Nat \cup {None} /\ q.bottom \in Nat \cup {None}
    BY DEF Question
  <2>2. QED
    BY <1>1, <2>1 DEF AsksRanking, RankingCount
<1>6. /\ p.filters = filters /\ p.group_by = {RankedEntity(q, m)} /\ p.metric = m
      /\ p.limit = RankingCount(q) /\ p.time_column = None
      /\ p.granularity = None /\ p.sort_by = "metric"
  BY <1>2 DEF DefaultPlan
<1>7. QED
  BY <1>3, <1>4, <1>5, <1>6 DEF Valid, Executable, Excessive

LEMMA StandalonePlansRun ==
    ASSUME NEW q \in Question, NEW filters, NEW p \in StandalonePlans(q, filters),
           \A f \in filters : f.column \in Column
    PROVE  Valid(p) /\ Executable(p)
<1> DEFINE base == [DefaultPlan EXCEPT !.filters = filters,
                                       !.metric = Metric(q),
                                       !.aggregation = The(q.words)]
<1>1. ~Ambiguous(q)
  BY DEF StandalonePlans
<1>2. Metric(q) \in Column
  <2>1. Metric(q) # None
    BY <1>1 DEF Ambiguous
  <2>2. QED
    BY <2>1, TheIsElement DEF Metric, Column
<1>3. CASE q.periods = 1
  <2>1. TimeColumn(q) \in Time
    <3>1. TimeColumn(q) # None
      BY <1>1, <1>3 DEF Ambiguous
    <3>2. QED
      BY <3>1, TheIsElement DEF TimeColumn
  <2>2. p = [base EXCEPT !.group_by = {TimeColumn(q)},
                         !.sort = "asc", !.sort_by = "time",
                         !.time_column = TimeColumn(q),
                         !.granularity = "month"]
    BY <1>1, <1>3 DEF StandalonePlans
  <2>3. /\ p.filters = filters /\ p.group_by = {TimeColumn(q)}
        /\ p.metric = Metric(q) /\ p.limit = None
        /\ p.time_column = TimeColumn(q) /\ p.granularity = "month"
    BY <2>2 DEF DefaultPlan
  <2>4. QED
    BY <1>2, <2>1, <2>3 DEF Valid, Executable, Column
<1>4. CASE q.periods # 1
  <2>1. p = [base EXCEPT !.group_by = Grouping(q)]
    BY <1>1, <1>4 DEF StandalonePlans
  <2>2. Grouping(q) \subseteq Column
    BY DEF Grouping, Question, Column
  <2>3. /\ p.filters = filters /\ p.group_by = Grouping(q)
        /\ p.metric = Metric(q) /\ p.limit = None
        /\ p.time_column = None /\ p.granularity = None
        /\ p.sort_by = "metric"
    BY <2>1 DEF DefaultPlan
  <2>4. QED
    BY <1>2, <2>2, <2>3 DEF Valid, Executable
<1>5. QED
  BY <1>3, <1>4

\* Every plan the rules make is valid and can be executed, whatever the question
\* mentions, unless it ranks more rows than a result may have.
THEOREM FastPlansAreExecutable ==
    ASSUME NEW q \in Question, NEW p \in FastPlans(q)
    PROVE  (Valid(p) /\ Executable(p)) \/ Excessive(p)
<1> DEFINE filters == q.comparisons \cup CategoricalFilters(q)
<1>1. \A f \in filters : f.column \in Column
  BY FiltersNameColumns
<1>2. p \in RankingPlans(q, filters) \/ p \in StandalonePlans(q, filters)
  BY DEF FastPlans
<1>3. QED
  BY <1>1, <1>2, RankingPlansRun, StandalonePlansRun

-----------------------------------------------------------------------------
\* FastPlansRun alone says nothing of the plan on its way to the answer.
FastPlanInv ==
    /\ stage # "done" => reply = None
    /\ planner = "fast" =>
          /\ stage \notin {"asked", "deferred"}
          /\ stage \in {"planned", "validated"} =>
                (Valid(plan) /\ Executable(plan)) \/ Excessive(plan)
          /\ reply = 400 => Excessive(plan)

LEMMA FastPlanInvInit == Init => FastPlanInv
BY PipelineAssumption DEF Init, FastPlanInv

LEMMA FastPlanInvStep == FastPlanInv /\ [Next]_vars => FastPlanInv'
<1> SUFFICES ASSUME FastPlanInv, [Next]_vars
             PROVE  FastPlanInv'
  OBVIOUS
<1> USE DEF FastPlanInv
<1>1. CASE PlanFast
  <2>1. PICK q \in Questions : plan' \in FastPlans(q)
    BY <1>1 DEF PlanFast
  <2>2. (Valid(plan') /\ Executable(plan')) \/ Excessive(plan')
    BY <2>1, FastPlansAreExecutable, PipelineAssumption
  <2>3. ((Valid(plan) /\ Executable(plan)) \/ Excessive(plan))'
    BY <2>2 DEF Valid, Executable, Excessive
  <2>4. QED
    BY <1>1, <2>3 DEF PlanFast
<1>2. CASE Defer
  BY <1>2 DEF Defer
<1>3. CASE ModelFails \/ ModelRefuses \/ ModelAsksBack
  BY <1>3 DEF ModelFails, ModelRefuses, ModelAsksBack, Reject
<1>4. CASE ModelPlans
  BY <1>4 DEF ModelPlans
<1>5. CASE Validate
  BY <1>5 DEF Validate, Valid, Executable, Excessive
<1>6. CASE Invalidate
  BY <1>6 DEF Invalidate, Reject, Excessive
<1>7. CASE ExecuteFails
  BY <1>7 DEF ExecuteFails, Reject, Excessive
<1>8. CASE ExecuteTooLate
  BY <1>8 DEF ExecuteTooLate, Reject
<1>9. CASE Execute
  BY <1>9 DEF Execute
<1>10. CASE BuildContext
  BY <1>10 DEF BuildContext
<1>11. CASE Answer
  BY <1>11 DEF Answer
<1>12. CASE UNCHANGED vars
  BY <1>12 DEF vars, Valid, Executable, Excessive
<1>13. QED
  BY <1>1, <1>2, <1>3, <1>4, <1>5, <1>6, <1>7, <1>8, <1>9, <1>10, <1>11, <1>12
     DEF Next

\* A question the rules planned is only ever refused for the number of rows it
\* asks for: validation and execution take every other plan of theirs, whatever
\* the dataset's columns, the limits and the question.
THEOREM FastPlansRunAlways == Spec => []FastPlansRun
<1>1. FastPlanInv => FastPlansRun
  BY DEF FastPlanInv, FastPlansRun, Excessive
<1>2. QED
  BY <1>1, FastPlanInvInit, FastPlanInvStep, PTL DEF Spec

-----------------------------------------------------------------------------
(* The groups of a result.                                                  *)

\* A plan that got as far as a result, of a table there is.
Run(t, p) == t \in Tables /\ Computable(p) /\ Valid(p) /\ Executable(p)

LEMMA SelectedRows ==
    ASSUME NEW t \in Tables, NEW p
    PROVE  /\ \E n \in Nat : Selected(t, p) \in SUBSET (1 .. n)
           /\ IsFiniteSet(Selected(t, p))
<1>1. PICK n \in Nat : DOMAIN t = 1 .. n
  <2>1. IsFiniteSet(DOMAIN t) /\ DOMAIN t = 1 .. Cardinality(DOMAIN t)
    BY PipelineAssumption
  <2>2. QED
    BY <2>1, FS_CardinalityType
<1>2. Selected(t, p) \in SUBSET (1 .. n)
  BY <1>1 DEF Selected
<1>3. IsFiniteSet(1 .. n)
  BY FS_Interval
<1>4. QED
  BY <1>2, <1>3, FS_Subset

LEMMA MonthIsInteger ==
    ASSUME NEW d \in Nat
    PROVE  Month(d) \in Int
BY ResultAssumption DEF Month

LEMMA Cells ==
    ASSUME NEW t \in Tables, NEW p, NEW i \in Selected(t, p)
    PROVE  /\ \A c \in Measure : t[i][c] \in Int \cup {Null}
           /\ \A c \in Time : t[i][c] \in Nat \cup {Null}
<1>1. i \in DOMAIN t
  BY DEF Selected
<1>2. QED
  BY <1>1, PipelineAssumption

\* A group is one for each key, and in a grouping each is that of some row.
LEMMA GroupsByKey ==
    ASSUME NEW t, NEW p
    PROVE  /\ \A g, h \in Groups(t, p) : g.key = h.key => g = h
           /\ p.group_by # {} =>
                 /\ \A g \in Groups(t, p) : \E i \in Selected(t, p) : g.key = Key(t, p, i)
                 /\ \A i \in Selected(t, p) : \E g \in Groups(t, p) : g.key = Key(t, p, i)
           /\ p.group_by = {} => \A g \in Groups(t, p) : g.key = <<>>
<1> DEFINE rows   == Selected(t, p)
           column == [i \in rows |-> t[i][p.metric]]
           keys   == IF p.group_by = {} THEN {<<>>} ELSE {Key(t, p, i) : i \in rows}
           amount(k) == Aggregate(p.aggregation, column,
                          {i \in rows : p.group_by = {} \/ Key(t, p, i) = k})
<1>1. Groups(t, p) = {[key |-> k, amount |-> amount(k)] : k \in keys}
  BY DEF Groups
<1> HIDE DEF amount
<1>2. \A g \in Groups(t, p) : \E k \in keys : g = [key |-> k, amount |-> amount(k)]
  BY <1>1
<1>3. \A k \in keys : [key |-> k, amount |-> amount(k)] \in Groups(t, p)
  BY <1>1
<1>4. \A g, h \in Groups(t, p) : g.key = h.key => g = h
  <2> TAKE g, h \in Groups(t, p)
  <2>1. PICK k \in keys : g = [key |-> k, amount |-> amount(k)]
    BY <1>2
  <2>2. PICK l \in keys : h = [key |-> l, amount |-> amount(l)]
    BY <1>2
  <2>3. HAVE g.key = h.key
  <2>4. k = l
    BY <2>1, <2>2, <2>3
  <2>5. QED
    BY <2>1, <2>2, <2>4
<1>5. \A g \in Groups(t, p) : g.key \in keys
  BY <1>2
<1>6. \A k \in keys : \E g \in Groups(t, p) : g.key = k
  <2> TAKE k \in keys
  <2>1. [key |-> k, amount |-> amount(k)].key = k
    OBVIOUS
  <2>2. QED
    BY <1>3, <2>1
<1>7. ASSUME p.group_by # {}
      PROVE  /\ \A g \in Groups(t, p) : \E i \in rows : g.key = Key(t, p, i)
             /\ \A i \in rows : \E g \in Groups(t, p) : g.key = Key(t, p, i)
  <2>1. keys = {Key(t, p, i) : i \in rows}
    BY <1>7
  <2> HIDE DEF keys
  <2>2. \A k \in keys : \E i \in rows : k = Key(t, p, i)
    BY <2>1
  <2>3. \A i \in rows : Key(t, p, i) \in keys
    BY <2>1
  <2>4. QED
    BY <1>5, <1>6, <2>2, <2>3
<1>8. p.group_by = {} => \A g \in Groups(t, p) : g.key = <<>>
  BY <1>5
<1>9. QED
  BY <1>4, <1>7, <1>8

LEMMA GroupAmounts ==
    ASSUME NEW t, NEW p, Run(t, p), NEW g \in Groups(t, p)
    PROVE  g.amount \in Int \cup {Null}
<1> DEFINE rows   == Selected(t, p)
           column == [i \in rows |-> t[i][p.metric]]
           keys   == IF p.group_by = {} THEN {<<>>} ELSE {Key(t, p, i) : i \in rows}
           of(k)  == {i \in rows : p.group_by = {} \/ Key(t, p, i) = k}
<1>1. PICK k \in keys : g = [key |-> k, amount |-> Aggregate(p.aggregation, column, of(k))]
  BY DEF Groups
<1>2. PICK n \in Nat : rows \in SUBSET (1 .. n)
  BY SelectedRows DEF Run
<1>3. of(k) \in SUBSET (1 .. n)
  BY <1>2
<1>4. p.aggregation # "count" => \A i \in of(k) : column[i] \in Int \cup {Null}
  <2> HAVE p.aggregation # "count"
  <2> TAKE i \in of(k)
  <2>1. p.metric \in Measure
    BY DEF Run, Computable, Executable, Column
  <2>2. t[i][p.metric] \in Int \cup {Null}
    BY <2>1, Cells DEF Run
  <2>3. QED
    BY <2>2
<1>5. p.aggregation \in {"sum", "min", "max", "count"}
  BY DEF Run, Computable
<1>6. Aggregate(p.aggregation, column, of(k)) \in Int \cup {Null}
  BY <1>2, <1>3, <1>4, <1>5, AggregateIsInteger
<1>7. QED
  BY <1>1, <1>6

\* The cells of a key that are numbers, or missing.
LEMMA GroupKeys ==
    ASSUME NEW t, NEW p, Run(t, p), NEW g \in Groups(t, p)
    PROVE  /\ DOMAIN g.key = p.group_by
           /\ \A c \in p.group_by \cap (Measure \cup Time) : g.key[c] \in Int \cup {Null}
<1>1. CASE p.group_by = {}
  BY <1>1, GroupsByKey
<1>2. CASE p.group_by # {}
  <2>1. PICK i \in Selected(t, p) : g.key = Key(t, p, i)
    BY <1>2, GroupsByKey
  <2>2. DOMAIN g.key = p.group_by
    BY <2>1 DEF Key
  <2>3. ASSUME NEW c \in p.group_by, c \in Measure
        PROVE  g.key[c] \in Int \cup {Null}
    <3>1. ~(p.granularity # None /\ c = p.time_column)
      BY <2>3, ColumnAssumption DEF Run, Valid
    <3>2. g.key[c] = t[i][c]
      BY <2>1, <3>1 DEF Key, Bucket
    <3>3. QED
      BY <2>3, <3>2, Cells DEF Run
  <2>4. ASSUME NEW c \in p.group_by, c \in Time
        PROVE  g.key[c] \in Int \cup {Null}
    <3>1. t[i][c] \in Nat \cup {Null}
      BY <2>4, Cells DEF Run
    <3>2. CASE p.granularity # None /\ c = p.time_column
      <4>1. t[i][c] # Null
        BY <3>2 DEF Selected
      <4>2. g.key[c] = Month(t[i][c])
        BY <2>1, <3>2 DEF Key, Bucket
      <4>3. QED
        BY <3>1, <4>1, <4>2, MonthIsInteger
    <3>3. CASE ~(p.granularity # None /\ c = p.time_column)
      <4>1. g.key[c] = t[i][c]
        BY <2>1, <3>3 DEF Key, Bucket
      <4>2. QED
        BY <3>1, <4>1
    <3>4. QED
      BY <3>2, <3>3
  <2>5. QED
    BY <2>2, <2>3, <2>4
<1>3. QED
  BY <1>1, <1>2

LEMMA FiniteGroups ==
    ASSUME NEW t \in Tables, NEW p
    PROVE  IsFiniteSet(Groups(t, p))
<1> DEFINE rows   == Selected(t, p)
           column == [i \in rows |-> t[i][p.metric]]
           keys   == IF p.group_by = {} THEN {<<>>} ELSE {Key(t, p, i) : i \in rows}
           amount(k) == Aggregate(p.aggregation, column,
                          {i \in rows : p.group_by = {} \/ Key(t, p, i) = k})
<1>1. Groups(t, p) = {[key |-> k, amount |-> amount(k)] : k \in keys}
  BY DEF Groups
<1>2. IsFiniteSet(keys)
  <2>1. PICK f : f = [i \in rows |-> Key(t, p, i)]
    OBVIOUS
  <2>2. {Key(t, p, i) : i \in rows} = {f[i] : i \in rows}
    BY <2>1
  <2>3. IsFiniteSet({f[i] : i \in rows})
    BY SelectedRows, FiniteImage
  <2>4. IsFiniteSet({<<>>})
    BY FS_Singleton
  <2>5. QED
    BY <2>2, <2>3, <2>4
<1> HIDE DEF amount, keys
<1>3. PICK f : f = [k \in keys |-> [key |-> k, amount |-> amount(k)]]
  OBVIOUS
<1>4. Groups(t, p) = {f[k] : k \in keys}
  BY <1>1, <1>3
<1>5. QED
  BY <1>2, <1>4, FiniteImage

-----------------------------------------------------------------------------
(* The result, and what the facts computed from it say of all the groups.   *)

LEMMA ResultFacts ==
    ASSUME NEW t, NEW p, Run(t, p), NEW shown \in Results(t, p)
    PROVE  /\ shown \subseteq Groups(t, p)
           /\ ~LimitReached(p, shown) => shown = Groups(t, p)
           /\ \A g \in shown, h \in Groups(t, p) \ shown : ~Precedes(p, h, g)
<1>1. CASE p.group_by = {} \/ Cardinality(Groups(t, p)) <= RowLimit(p)
  <2>1. shown = Groups(t, p)
    BY <1>1 DEF Results
  <2>2. QED
    BY <2>1
<1>2. CASE ~(p.group_by = {} \/ Cardinality(Groups(t, p)) <= RowLimit(p))
  <2>1. /\ shown \in kSubset(RowLimit(p), Groups(t, p))
        /\ \A g \in shown, h \in Groups(t, p) \ shown : ~Precedes(p, h, g)
    BY <1>2 DEF Results
  <2>2. shown \subseteq Groups(t, p) /\ Cardinality(shown) = RowLimit(p)
    BY <2>1 DEF kSubset
  <2>3. RowLimit(p) \in Nat
    BY ResultAssumption DEF Run, Valid, RowLimit
  <2>4. LimitReached(p, shown)
    BY <1>2, <2>2, <2>3 DEF LimitReached
  <2>5. QED
    BY <2>1, <2>2, <2>4
<1>3. QED
  BY <1>1, <1>2

\* The amounts there are.
Amounts(groups) == {g.amount : g \in groups} \ {Null}

LEMMA AmountsAreIntegers ==
    ASSUME NEW t, NEW p, Run(t, p)
    PROVE  Amounts(Groups(t, p)) \in SUBSET Int
BY GroupAmounts DEF Amounts

\* The highest of a result that has the highest is the highest of all.
LEMMA HighestOfAll ==
    ASSUME NEW t, NEW p, Run(t, p), NEW shown \in Results(t, p),
           KeepsHighest(p, LimitReached(p, shown)), NEW g \in Highest(shown)
    PROVE  g \in Groups(t, p) /\ g.amount = Max(Amounts(Groups(t, p)))
<1>1. g \in shown /\ g.amount # Null
  BY DEF Highest, Known
<1>2. g \in Groups(t, p)
  BY <1>1, ResultFacts
<1>3. g.amount \in Amounts(Groups(t, p))
  BY <1>1, <1>2 DEF Amounts
<1>4. ASSUME NEW h \in Groups(t, p), h.amount # Null
      PROVE  h.amount <= g.amount
  <2>1. CASE h \in shown
    BY <1>4, <2>1 DEF Highest, Known
  <2>2. CASE h \notin shown
    <3>1. p.sort_by = "metric" /\ p.sort = "desc"
      BY <2>2, ResultFacts DEF KeepsHighest
    <3>2. ~Precedes(p, h, g)
      BY <1>1, <2>2, ResultFacts
    <3>3. ~(h.amount > g.amount)
      BY <1>1, <1>4, <3>1, <3>2 DEF Precedes
    <3>4. h.amount \in Int /\ g.amount \in Int
      BY <1>1, <1>2, <1>4, GroupAmounts
    <3>5. QED
      BY <3>3, <3>4
  <2>3. QED
    BY <2>1, <2>2
<1>5. \A x \in Amounts(Groups(t, p)) : x <= g.amount
  BY <1>4 DEF Amounts
<1>6. QED
  BY <1>2, <1>3, <1>5, AmountsAreIntegers, MaxIsUnique

LEMMA LowestOfAll ==
    ASSUME NEW t, NEW p, Run(t, p), NEW shown \in Results(t, p),
           KeepsLowest(p, LimitReached(p, shown)), NEW g \in Lowest(shown)
    PROVE  g \in Groups(t, p) /\ g.amount = Min(Amounts(Groups(t, p)))
<1>1. g \in shown /\ g.amount # Null
  BY DEF Lowest, Known
<1>2. g \in Groups(t, p)
  BY <1>1, ResultFacts
<1>3. g.amount \in Amounts(Groups(t, p))
  BY <1>1, <1>2 DEF Amounts
<1>4. ASSUME NEW h \in Groups(t, p), h.amount # Null
      PROVE  g.amount <= h.amount
  <2>1. CASE h \in shown
    BY <1>4, <2>1 DEF Lowest, Known
  <2>2. CASE h \notin shown
    <3>1. p.sort_by = "metric" /\ p.sort = "asc"
      BY <2>2, ResultFacts DEF KeepsLowest
    <3>2. ~Precedes(p, h, g)
      BY <1>1, <2>2, ResultFacts
    <3>3. ~(h.amount < g.amount)
      BY <1>1, <1>4, <3>1, <3>2 DEF Precedes
    <3>4. h.amount \in Int /\ g.amount \in Int
      BY <1>1, <1>2, <1>4, GroupAmounts
    <3>5. QED
      BY <3>3, <3>4
  <2>3. QED
    BY <2>1, <2>2
<1>5. \A x \in Amounts(Groups(t, p)) : g.amount <= x
  BY <1>4 DEF Amounts
<1>6. QED
  BY <1>2, <1>3, <1>5, AmountsAreIntegers, MinIsUnique

\* Somewhere between two members of which the later is higher there are
\* neighbours of which the later is: those of them closest together.
Rises(G, k, a) == \E g, h \in G : k[g] < k[h] /\ a[g] < a[h]

RisesNext(G, k, a) ==
    \E g, h \in G : /\ k[g] < k[h] /\ a[g] < a[h]
                    /\ \A e \in G : k[e] <= k[g] \/ k[h] <= k[e]

LEMMA RiseOfNeighbours ==
    ASSUME NEW G, NEW k \in [G -> Int], NEW a \in [G -> Int], Rises(G, k, a)
    PROVE  RisesNext(G, k, a)
<1> DEFINE Rise(g, h) == k[g] < k[h] /\ a[g] < a[h]
           D == {d \in Nat : \E g, h \in G : Rise(g, h) /\ d = k[h] - k[g]}
<1>1. \A g, h \in G : Rise(g, h) => k[h] - k[g] \in D
  <2> TAKE g, h \in G
  <2> HAVE Rise(g, h)
  <2>1. k[g] \in Int /\ k[h] \in Int
    OBVIOUS
  <2>2. k[h] - k[g] \in Nat
    BY <2>1
  <2>3. QED
    BY <2>2
<1>2. D # {}
  <2>1. PICK g \in G, h \in G : Rise(g, h)
    BY DEF Rises
  <2>2. QED
    BY <1>1, <2>1
<1>3. PICK d \in D : \A x \in D : d <= x
  <2>1. D \in SUBSET Nat
    OBVIOUS
  <2> HIDE DEF D
  <2>2. QED
    BY <1>2, <2>1, LeastNatural
<1>4. PICK g \in G, h \in G : Rise(g, h) /\ d = k[h] - k[g]
  OBVIOUS
<1>5. ASSUME NEW e \in G, k[g] < k[e], k[e] < k[h]
      PROVE  FALSE
  <2>1. /\ k[g] \in Int /\ k[h] \in Int /\ k[e] \in Int
        /\ a[g] \in Int /\ a[h] \in Int /\ a[e] \in Int
    OBVIOUS
  <2>2. CASE a[g] < a[e]
    <3>1. k[e] - k[g] \in D
      BY <1>1, <1>5, <2>2
    <3>2. d <= k[e] - k[g]
      BY <1>3, <3>1
    <3>3. QED
      BY <1>4, <1>5, <2>1, <3>2
  <2>3. CASE ~(a[g] < a[e])
    <3>1. a[e] < a[h]
      BY <1>4, <2>1, <2>3
    <3>2. k[h] - k[e] \in D
      BY <1>1, <1>5, <3>1
    <3>3. d <= k[h] - k[e]
      BY <1>3, <3>2
    <3>4. QED
      BY <1>4, <1>5, <2>1, <3>3
  <2>4. QED
    BY <2>2, <2>3
<1>6. ASSUME NEW e \in G
      PROVE  k[e] <= k[g] \/ k[h] <= k[e]
  <2>1. k[g] \in Int /\ k[h] \in Int /\ k[e] \in Int
    OBVIOUS
  <2>2. QED
    BY <1>5, <2>1
<1>7. QED
  BY <1>4, <1>6 DEF RisesNext

\* Comparing neighbours in time tells the trend of all of them.
LEMMA DirectionHolds ==
    ASSUME NEW G, NEW c, \A g \in G : g.key[c] \in Int /\ g.amount \in Int
    PROVE  TrendHolds(Direction(G, c), G, c)
<1> DEFINE risesNext == \E g, h \in G : Adjacent(G, c, g, h) /\ g.amount < h.amount
           fallsNext == \E g, h \in G : Adjacent(G, c, g, h) /\ g.amount > h.amount
           rises == \E g, h \in G : g.key[c] < h.key[c] /\ g.amount < h.amount
           falls == \E g, h \in G : g.key[c] < h.key[c] /\ g.amount > h.amount
<1>1. PICK k : k = [g \in G |-> g.key[c]]
  OBVIOUS
<1>2. PICK up : up = [g \in G |-> g.amount]
  OBVIOUS
<1>3. PICK down : down = [g \in G |-> -g.amount]
  OBVIOUS
<1>4. k \in [G -> Int] /\ up \in [G -> Int] /\ down \in [G -> Int]
  BY <1>1, <1>2, <1>3
<1>5. ASSUME rises
      PROVE  risesNext
  <2>1. PICK g0 \in G, h0 \in G : g0.key[c] < h0.key[c] /\ g0.amount < h0.amount
    BY <1>5
  <2>2. k[g0] < k[h0] /\ up[g0] < up[h0]
    <3>1. /\ g0.key[c] \in Int /\ g0.amount \in Int
          /\ h0.key[c] \in Int /\ h0.amount \in Int
      OBVIOUS
    <3>2. QED
      BY <1>1, <1>2, <2>1, <3>1
  <2>3. PICK g \in G, h \in G : /\ k[g] < k[h] /\ up[g] < up[h]
                                /\ \A e \in G : k[e] <= k[g] \/ k[h] <= k[e]
    <3>1. Rises(G, k, up)
      BY <2>2 DEF Rises
    <3>2. RisesNext(G, k, up)
      BY <1>4, <3>1, RiseOfNeighbours
    <3>3. QED
      BY <3>2 DEF RisesNext
  <2>4. Adjacent(G, c, g, h) /\ g.amount < h.amount
    BY <1>1, <1>2, <2>3 DEF Adjacent
  <2>5. QED
    BY <2>4
<1>6. ASSUME falls
      PROVE  fallsNext
  <2>1. PICK g0 \in G, h0 \in G : g0.key[c] < h0.key[c] /\ g0.amount > h0.amount
    BY <1>6
  <2>2. k[g0] < k[h0] /\ down[g0] < down[h0]
    <3>1. /\ g0.key[c] \in Int /\ g0.amount \in Int
          /\ h0.key[c] \in Int /\ h0.amount \in Int
      OBVIOUS
    <3>2. QED
      BY <1>1, <1>3, <2>1, <3>1
  <2>3. PICK g \in G, h \in G : /\ k[g] < k[h] /\ down[g] < down[h]
                                /\ \A e \in G : k[e] <= k[g] \/ k[h] <= k[e]
    <3>1. Rises(G, k, down)
      BY <2>2 DEF Rises
    <3>2. RisesNext(G, k, down)
      BY <1>4, <3>1, RiseOfNeighbours
    <3>3. QED
      BY <3>2 DEF RisesNext
  <2>4. Adjacent(G, c, g, h)
    BY <1>1, <2>3 DEF Adjacent
  <2>5. g.amount > h.amount
    BY <1>3, <2>3
  <2>6. QED
    BY <2>4, <2>5
<1>7. (risesNext => rises) /\ (fallsNext => falls)
  BY DEF Adjacent
<1>8. (rises <=> risesNext) /\ (falls <=> fallsNext)
  BY <1>5, <1>6, <1>7
<1>9. Direction(G, c) = IF risesNext /\ fallsNext THEN "mixed"
                        ELSE IF risesNext THEN "increasing"
                        ELSE IF fallsNext THEN "decreasing"
                        ELSE "stable"
  BY DEF Direction
<1> HIDE DEF risesNext, fallsNext
<1>10. /\ Direction(G, c) \in {"increasing", "mixed"} <=> risesNext
       /\ Direction(G, c) \in {"decreasing", "mixed"} <=> fallsNext
  BY <1>9
<1>11. QED
  BY <1>8, <1>10 DEF TrendHolds

LEMMA DateColumnFacts ==
    ASSUME NEW p, NEW shown, DateColumn(p, shown) # None
    PROVE  /\ DateColumn(p, shown) \in p.group_by \cap Time
           /\ \A g \in shown : g.key[DateColumn(p, shown)] # Null
<1> DEFINE dates == {c \in p.group_by \cap Time : \A g \in shown : g.key[c] # Null}
<1>1. DateColumn(p, shown) = IF dates = {} THEN None ELSE CHOOSE c \in dates : TRUE
  BY DEF DateColumn
<1>2. DateColumn(p, shown) \in dates
  BY <1>1
<1>3. QED
  BY <1>2

MonthsOf(p, c, groups) ==
    {IF p.granularity # None /\ c = p.time_column
     THEN g.key[c] ELSE Month(g.key[c]) : g \in groups}

MonthsIn(t, p, c) ==
    {Month(d) : d \in {t[i][c] : i \in Selected(t, p)} \ {Null}}

\* The months of the groups are those of the rows the plan looks at.
LEMMA MonthsOfGroups ==
    ASSUME NEW t, NEW p, Run(t, p), NEW c \in p.group_by \cap Time,
           \A g \in Groups(t, p) : g.key[c] # Null
    PROVE  MonthsOf(p, c, Groups(t, p)) = MonthsIn(t, p, c)
<1> DEFINE bucketed == p.granularity # None /\ c = p.time_column
           month(g) == IF bucketed THEN g.key[c] ELSE Month(g.key[c])
           M == {month(g) : g \in Groups(t, p)}
           dates == {t[i][c] : i \in Selected(t, p)} \ {Null}
<1>1. p.group_by # {}
  OBVIOUS
<1>2. ASSUME NEW g \in Groups(t, p), NEW i \in Selected(t, p), g.key = Key(t, p, i)
      PROVE  t[i][c] # Null /\ month(g) = Month(t[i][c])
  <2>1. CASE bucketed
    <3>1. t[i][c] # Null
      BY <2>1 DEF Selected
    <3>2. g.key[c] = Month(t[i][c])
      BY <1>2, <2>1 DEF Key, Bucket
    <3>3. QED
      BY <2>1, <3>1, <3>2
  <2>2. CASE ~bucketed
    <3>1. g.key[c] = t[i][c]
      BY <1>2, <2>2 DEF Key, Bucket
    <3>2. QED
      BY <2>2, <3>1
  <2>3. QED
    BY <2>1, <2>2
<1> HIDE DEF month
<1>3. ASSUME NEW m \in M
      PROVE  m \in {Month(d) : d \in dates}
  <2>1. PICK g \in Groups(t, p) : m = month(g)
    OBVIOUS
  <2>2. PICK i \in Selected(t, p) : g.key = Key(t, p, i)
    BY <1>1, GroupsByKey
  <2>3. t[i][c] # Null /\ m = Month(t[i][c])
    BY <1>2, <2>1, <2>2
  <2>4. QED
    BY <2>3
<1>4. ASSUME NEW m \in {Month(d) : d \in dates}
      PROVE  m \in M
  <2>1. PICK i \in Selected(t, p) : t[i][c] # Null /\ m = Month(t[i][c])
    OBVIOUS
  <2>2. PICK g \in Groups(t, p) : g.key = Key(t, p, i)
    BY <1>1, GroupsByKey
  <2>3. m = month(g)
    BY <1>2, <2>1, <2>2
  <2>4. QED
    BY <2>3
<1>5. M = {Month(d) : d \in dates}
  BY <1>3, <1>4
<1>6. QED
  BY <1>5 DEF month, MonthsOf, MonthsIn

-----------------------------------------------------------------------------
(* The insights.                                                            *)

\* What the context of a result says of it.
Describes(facts, p, shown) ==
    LET limited == LimitReached(p, shown)
    IN  /\ facts.highest # None =>
              facts.highest \in Highest(shown) /\ KeepsHighest(p, limited)
        /\ facts.lowest # None =>
              facts.lowest \in Lowest(shown) /\ KeepsLowest(p, limited)
        /\ facts.highest # None /\ facts.lowest # None =>
              facts.range = facts.highest.amount - facts.lowest.amount
        /\ facts.trend # None => facts.trend = Trend(p, shown, limited)
        /\ facts.coverage # None => facts.coverage = Coverage(p, shown, limited)

LEMMA ContextsDescribe ==
    ASSUME NEW p, NEW shown, NEW facts \in Contexts(p, shown, LimitReached(p, shown))
    PROVE  Describes(facts, p, shown)
<1> DEFINE limited == LimitReached(p, shown)
<1>1. CASE facts = NoContext
  BY <1>1 DEF NoContext, Describes
<1>2. CASE facts = Series(p, shown, limited)
  BY <1>2 DEF Series, NoContext, Describes
<1>3. ASSUME NEW g \in Highest(shown), NEW h \in Lowest(shown),
             facts = Ranking(p, shown, limited, g, h)
      PROVE  Describes(facts, p, shown)
  <2>1. /\ facts.highest = (IF KeepsHighest(p, limited) THEN g ELSE None)
        /\ facts.lowest = (IF KeepsLowest(p, limited) THEN h ELSE None)
        /\ facts.range = g.amount - h.amount
        /\ facts.trend = Trend(p, shown, limited)
        /\ facts.coverage = Coverage(p, shown, limited)
    BY <1>3 DEF Ranking, Series, NoContext
  <2>2. QED
    BY <2>1, <1>3 DEF Describes
<1>4. \/ facts = NoContext
      \/ facts = Series(p, shown, limited)
      \/ \E g \in Highest(shown), h \in Lowest(shown) :
            facts = Ranking(p, shown, limited, g, h)
  BY DEF Contexts
<1>5. QED
  BY <1>1, <1>2, <1>3, <1>4

LEMMA TwoExtremes ==
    ASSUME NEW facts, Cardinality(Extremes(facts)) = 2
    PROVE  /\ facts.highest # None /\ facts.lowest # None
           /\ Extremes(facts) = {facts.highest, facts.lowest}
<1>1. ASSUME NEW x
      PROVE  Extremes(facts) # {} /\ Extremes(facts) # {x}
  <2>1. Cardinality({}) = 0 /\ Cardinality({x}) = 1
    BY FS_EmptySet, FS_Singleton
  <2>2. CASE Extremes(facts) = {}
    BY <2>1, <2>2
  <2>3. CASE Extremes(facts) = {x}
    BY <2>1, <2>3
  <2>4. QED
    BY <2>2, <2>3
<1>2. Extremes(facts) = {facts.highest, facts.lowest} \ {None}
  BY DEF Extremes
<1>3. facts.highest # None
  <2>1. SUFFICES ASSUME facts.highest = None
                 PROVE  FALSE
    OBVIOUS
  <2>2. Extremes(facts) = {} \/ Extremes(facts) = {facts.lowest}
    BY <1>2, <2>1
  <2>3. QED
    BY <1>1, <2>2
<1>4. facts.lowest # None
  <2>1. SUFFICES ASSUME facts.lowest = None
                 PROVE  FALSE
    OBVIOUS
  <2>2. Extremes(facts) = {} \/ Extremes(facts) = {facts.highest}
    BY <1>2, <2>1
  <2>3. QED
    BY <1>1, <2>2
<1>5. QED
  BY <1>2, <1>3, <1>4

\* The five insights there can be.
LEMMA InsightCases ==
    ASSUME NEW shown, NEW facts, NEW i \in Insights(shown, facts)
    PROVE  \/ /\ facts.highest # None
              /\ i = Claim("highest", {facts.highest}, facts.highest.amount)
           \/ /\ facts.lowest # None
              /\ i = Claim("lowest", {facts.lowest}, facts.lowest.amount)
           \/ /\ facts.trend # None
              /\ i = Claim("trend", Known(shown), facts.trend)
           \/ /\ Cardinality(Extremes(facts)) = 2
              /\ i = Claim("difference", Extremes(facts), facts.range)
           \/ /\ facts.coverage # None
              /\ i = Claim("coverage", {}, facts.coverage)
<1>1. CASE \E g \in IF WorthStating(facts) THEN {facts.highest} \ {None} ELSE {} :
              i = Claim("highest", {g}, g.amount)
  BY <1>1
<1>2. CASE \E g \in IF WorthStating(facts) THEN {facts.lowest} \ {None} ELSE {} :
              i = Claim("lowest", {g}, g.amount)
  BY <1>2
<1>3. CASE \E d \in {facts.trend} \ {None} : i = Claim("trend", Known(shown), d)
  BY <1>3
<1>4. CASE \E n \in {2} \cap {IF WorthStating(facts)
                              THEN Cardinality(Extremes(facts)) ELSE 0} :
              i = Claim("difference", Extremes(facts), facts.range)
  BY <1>4
<1>5. CASE \E c \in {d \in {facts.coverage} \ {None} : d.missing # {}} :
              i = Claim("coverage", {}, c)
  BY <1>5
<1>6. QED
  BY <1>1, <1>2, <1>3, <1>4, <1>5 DEF Insights

\* Of a trend that is stated: it is that of one column of dates, over all groups.
LEMMA TrendFacts ==
    ASSUME NEW t, NEW p, Run(t, p), NEW shown \in Results(t, p),
           Trend(p, shown, LimitReached(p, shown)) # None
    PROVE  \E c \in p.group_by \cap Time :
              /\ p.group_by = {c}
              /\ Trend(p, shown, LimitReached(p, shown)) = Direction(Known(shown), c)
              /\ shown = Groups(t, p)
              /\ Cardinality(Known(shown)) >= 2
              /\ \A g \in Known(shown) : g.key[c] \in Int /\ g.amount \in Int
<1>1. PICK c : c = DateColumn(p, shown)
  OBVIOUS
<1>2. /\ c # None /\ ~LimitReached(p, shown) /\ Cardinality(p.group_by) = 1
      /\ ~(Cardinality(Known(shown)) < 2)
      /\ Trend(p, shown, LimitReached(p, shown)) = Direction(Known(shown), c)
  BY <1>1 DEF Trend
<1>3. c \in p.group_by \cap Time /\ \A g \in shown : g.key[c] # Null
  BY <1>1, <1>2, DateColumnFacts
<1>4. p.group_by = {c}
  <2>1. IsFiniteSet(p.group_by)
    BY PipelineAssumption, FS_Subset DEF Run, Executable
  <2>2. PICK x : p.group_by = {x}
    BY <1>2, <2>1, FS_Singleton
  <2>3. QED
    BY <1>3, <2>2
<1>5. shown = Groups(t, p)
  BY <1>2, ResultFacts
<1>6. Cardinality(Known(shown)) >= 2
  <2>1. IsFiniteSet(Known(shown))
    BY <1>5, FiniteGroups, FS_Subset DEF Known, Run
  <2>2. Cardinality(Known(shown)) \in Nat
    BY <2>1, FS_CardinalityType
  <2>3. QED
    BY <1>2, <2>2
<1>7. ASSUME NEW g \in Known(shown)
      PROVE  g.key[c] \in Int /\ g.amount \in Int
  <2>1. g \in Groups(t, p) /\ g.amount # Null /\ g.key[c] # Null
    BY <1>3, <1>5 DEF Known
  <2>2. QED
    BY <1>3, <2>1, GroupAmounts, GroupKeys
<1>8. QED
  BY <1>2, <1>3, <1>4, <1>5, <1>6, <1>7

\* Of the result the question was answered with, every insight is true.
LEMMA ClaimsHold ==
    ASSUME Run(table, plan), result \in Results(table, plan),
           Describes(context, plan, result), NEW i \in Insights(result, context)
    PROVE  Holds(i, Groups(table, plan))
<1> DEFINE groups  == Groups(table, plan)
           amounts == {g.amount : g \in groups} \ {Null}
           limited == LimitReached(plan, result)
<1>0. amounts = Amounts(groups)
  BY DEF Amounts
<1>1. ASSUME context.highest # None
      PROVE  context.highest \in groups /\ context.highest.amount = Max(amounts)
  BY <1>0, <1>1, HighestOfAll DEF Describes
<1>2. ASSUME context.lowest # None
      PROVE  context.lowest \in groups /\ context.lowest.amount = Min(amounts)
  BY <1>0, <1>2, LowestOfAll DEF Describes
<1>3. CASE /\ context.highest # None
           /\ i = Claim("highest", {context.highest}, context.highest.amount)
  <2>1. i.type = "highest" /\ i.rows \subseteq groups /\ i.claim = Max(amounts)
    BY <1>1, <1>3 DEF Claim
  <2>2. QED
    BY <2>1 DEF Holds
<1>4. CASE /\ context.lowest # None
           /\ i = Claim("lowest", {context.lowest}, context.lowest.amount)
  <2>1. i.type = "lowest" /\ i.rows \subseteq groups /\ i.claim = Min(amounts)
    BY <1>2, <1>4 DEF Claim
  <2>2. QED
    BY <2>1 DEF Holds
<1>5. CASE context.trend # None /\ i = Claim("trend", Known(result), context.trend)
  <2>1. context.trend = Trend(plan, result, limited)
    BY <1>5 DEF Describes
  <2>2. PICK c \in plan.group_by \cap Time :
          /\ plan.group_by = {c}
          /\ Trend(plan, result, limited) = Direction(Known(result), c)
          /\ result = groups
          /\ \A g \in Known(result) : g.key[c] \in Int /\ g.amount \in Int
    BY <1>5, <2>1, TrendFacts
  <2>3. TrendHolds(context.trend, Known(groups), c)
    BY <2>1, <2>2, DirectionHolds
  <2>4. i.type = "trend" /\ i.claim = context.trend
    BY <1>5 DEF Claim
  <2>5. QED
    BY <2>2, <2>3, <2>4 DEF Holds
<1>6. CASE /\ Cardinality(Extremes(context)) = 2
           /\ i = Claim("difference", Extremes(context), context.range)
  <2>1. context.highest # None /\ context.lowest # None
    BY <1>6, TwoExtremes
  <2>2. context.range = Max(amounts) - Min(amounts)
    BY <1>1, <1>2, <2>1 DEF Describes
  <2>3. i.type = "difference" /\ i.claim = context.range
    BY <1>6 DEF Claim
  <2>4. QED
    BY <2>2, <2>3 DEF Holds
<1>7. CASE context.coverage # None /\ i = Claim("coverage", {}, context.coverage)
  <2>1. PICK c : c = DateColumn(plan, result)
    OBVIOUS
  <2>2. PICK months :
          months = {IF plan.granularity # None /\ c = plan.time_column
                    THEN g.key[c] ELSE Month(g.key[c]) : g \in result}
    OBVIOUS
  <2>3. /\ c # None /\ ~limited
        /\ context.coverage = [column   |-> c,
                               observed |-> Cardinality(months),
                               expected |-> Max(months) - Min(months) + 1,
                               missing  |-> (Min(months) .. Max(months)) \ months]
    BY <1>7, <2>1, <2>2 DEF Describes, Coverage
  <2>4. c \in plan.group_by \cap Time /\ \A g \in result : g.key[c] # Null
    BY <2>1, <2>3, DateColumnFacts
  <2>5. result = groups
    BY <2>3, ResultFacts
  <2>6. months = MonthsSeen(c)
    <3>1. \A g \in groups : g.key[c] # Null
      BY <2>4, <2>5
    <3>2. MonthsOf(plan, c, groups) = MonthsIn(table, plan, c)
      BY <2>4, <3>1, MonthsOfGroups
    <3>3. QED
      BY <2>2, <2>5, <3>2 DEF MonthsSeen, MonthsOf, MonthsIn
  <2>7. i.type = "coverage" /\ i.claim = context.coverage
    BY <1>7 DEF Claim
  <2>8. /\ i.claim.column = c
        /\ i.claim.observed = Cardinality(MonthsSeen(c))
        /\ i.claim.missing = (Min(MonthsSeen(c)) .. Max(MonthsSeen(c))) \ MonthsSeen(c)
    BY <2>3, <2>6, <2>7
  <2>9. QED
    BY <2>7, <2>8 DEF Holds
<1>8. QED
  BY <1>3, <1>4, <1>5, <1>6, <1>7, InsightCases

-----------------------------------------------------------------------------
(* The check before sending.                                                *)

LEMMA NearItself ==
    ASSUME NEW n \in Int
    PROVE  Near(n, n)
BY InsightAssumption, ResultAssumption DEF Near

\* A row of the result is found in it, an empty number included.
LEMMA RowMatchesItself ==
    ASSUME NEW t, NEW p, Run(t, p), NEW g \in Groups(t, p)
    PROVE  Index!RowsMatch(Row(g), Row(g))
<1>1. DOMAIN g.key = p.group_by
  BY GroupKeys
<1>2. ASSUME NEW c \in DOMAIN Row(g), IsNumberAt(c, Row(g)[c])
      PROVE  Row(g)[c] \in Int \cup {Null}
  <2>1. c \in p.group_by \cup {AmountColumn}
    BY <1>1 DEF Row
  <2>2. CASE c = AmountColumn
    <3>1. Row(g)[c] = g.amount
      BY <1>1, <2>1, <2>2 DEF Row
    <3>2. QED
      BY <3>1, GroupAmounts
  <2>3. CASE c # AmountColumn
    <3>1. Row(g)[c] = g.key[c] /\ c \in p.group_by /\ c \in Measure
      BY <1>1, <1>2, <2>1, <2>3 DEF Row, IsNumberAt
    <3>2. QED
      BY <3>1, GroupKeys
  <2>4. QED
    BY <2>2, <2>3
<1>3. ASSUME NEW c \in DOMAIN Row(g)
      PROVE  \/ IsNumberAt(c, Row(g)[c]) /\ Row(g)[c] = Null
             \/ ~IsNumberAt(c, Row(g)[c])
             \/ Near(Row(g)[c], Row(g)[c])
  BY <1>2, NearItself
<1>4. QED
  BY <1>3 DEF Index!RowsMatch, Index!IsNaN

LEMMA RowIsFound ==
    ASSUME NEW t, NEW p, Run(t, p), NEW shown, NEW g \in shown, g \in Groups(t, p)
    PROVE  Index!RowExists(Row(g), {Row(h) : h \in shown})
<1>1. Index!RowsMatch(Row(g), Row(g))
  BY RowMatchesItself
<1>2. QED
  BY <1>1 DEF Index!RowExists, Index!Candidates, Index!Shaped, Index!SafeColumns

\* Every insight computed from a result passes.
LEMMA InsightsPass ==
    ASSUME NEW t, NEW p, Run(t, p), NEW shown \in Results(t, p), NEW facts,
           Describes(facts, p, shown), NEW i \in Insights(shown, facts)
    PROVE  Verified(i, shown, facts)
<1> DEFINE limited == LimitReached(p, shown)
<1>1. shown \subseteq Groups(t, p)
  BY ResultFacts
<1>2. ASSUME facts.highest # None
      PROVE  facts.highest \in shown /\ facts.highest.amount \in Int
  <2>1. facts.highest \in shown /\ facts.highest.amount # Null
    BY <1>2 DEF Describes, Highest, Known
  <2>2. QED
    BY <1>1, <2>1, GroupAmounts
<1>3. ASSUME facts.lowest # None
      PROVE  facts.lowest \in shown /\ facts.lowest.amount \in Int
  <2>1. facts.lowest \in shown /\ facts.lowest.amount # Null
    BY <1>3 DEF Describes, Lowest, Known
  <2>2. QED
    BY <1>1, <2>1, GroupAmounts
<1>4. CASE /\ facts.highest # None
           /\ i = Claim("highest", {facts.highest}, facts.highest.amount)
  <2>1. /\ i.type = "highest" /\ i.rows = {facts.highest}
        /\ i.claim = facts.highest.amount
    BY <1>4 DEF Claim
  <2>2. /\ Near(facts.highest.amount, facts.highest.amount)
        /\ Index!RowsMatch(Row(facts.highest), Row(facts.highest))
    BY <1>1, <1>2, <1>4, NearItself, RowMatchesItself
  <2>3. ExtremeVerified(i, facts.highest)
    BY <2>1, <2>2 DEF ExtremeVerified
  <2>4. QED
    BY <2>1, <2>3 DEF Verified
<1>5. CASE /\ facts.lowest # None
           /\ i = Claim("lowest", {facts.lowest}, facts.lowest.amount)
  <2>1. /\ i.type = "lowest" /\ i.rows = {facts.lowest}
        /\ i.claim = facts.lowest.amount
    BY <1>5 DEF Claim
  <2>2. /\ Near(facts.lowest.amount, facts.lowest.amount)
        /\ Index!RowsMatch(Row(facts.lowest), Row(facts.lowest))
    BY <1>1, <1>3, <1>5, NearItself, RowMatchesItself
  <2>3. ExtremeVerified(i, facts.lowest)
    BY <2>1, <2>2 DEF ExtremeVerified
  <2>4. QED
    BY <2>1, <2>3 DEF Verified
<1>6. CASE facts.trend # None /\ i = Claim("trend", Known(shown), facts.trend)
  <2>1. i.type = "trend" /\ i.rows = Known(shown)
    BY <1>6 DEF Claim
  <2>2. Cardinality(Known(shown)) >= 2
    BY <1>6, TrendFacts DEF Describes
  <2>3. \A g \in Known(shown) : Index!RowExists(Row(g), {Row(h) : h \in shown})
    BY <1>1, RowIsFound DEF Known
  <2>4. Quoted(i, shown)
    BY <2>1, <2>2, <2>3 DEF Quoted
  <2>5. TrendVerified(i)
    BY <2>1 DEF TrendVerified, Known
  <2>6. QED
    BY <2>1, <2>4, <2>5 DEF Verified
<1>7. CASE /\ Cardinality(Extremes(facts)) = 2
           /\ i = Claim("difference", Extremes(facts), facts.range)
  <2>1. i.type = "difference" /\ i.rows = Extremes(facts) /\ i.claim = facts.range
    BY <1>7 DEF Claim
  <2>2. /\ facts.highest # None /\ facts.lowest # None
        /\ Extremes(facts) = {facts.highest, facts.lowest}
    BY <1>7, TwoExtremes
  <2>3. /\ facts.highest \in shown /\ facts.lowest \in shown
        /\ facts.highest.amount \in Int /\ facts.lowest.amount \in Int
    BY <1>2, <1>3, <2>2
  <2>4. Quoted(i, shown)
    <3>1. \A g \in i.rows : g \in shown
      BY <2>1, <2>2, <2>3
    <3>2. \A g \in i.rows : Index!RowExists(Row(g), {Row(h) : h \in shown})
      BY <1>1, <3>1, RowIsFound
    <3>3. Cardinality(i.rows) >= 2
      BY <1>7, <2>1
    <3>4. QED
      BY <3>2, <3>3 DEF Quoted
  <2>5. Near(facts.highest.amount - facts.lowest.amount, facts.range)
    <3>1. facts.range = facts.highest.amount - facts.lowest.amount
      BY <2>2 DEF Describes
    <3>2. facts.range \in Int
      BY <2>3, <3>1
    <3>3. QED
      BY <3>1, <3>2, NearItself
  <2>6. Null \notin {g.amount : g \in i.rows}
    <3>1. facts.highest.amount # Null /\ facts.lowest.amount # Null
      BY <2>3, ResultAssumption
    <3>2. QED
      BY <2>1, <2>2, <3>1
  <2>7. DifferenceVerified(i, facts)
    <3>1. facts.highest \in i.rows /\ facts.lowest \in i.rows
      BY <2>1, <2>2
    <3>2. Cardinality(i.rows) = 2
      BY <1>7, <2>1
    <3>3. QED
      BY <2>5, <2>6, <3>1, <3>2 DEF DifferenceVerified
  <2>8. QED
    BY <2>1, <2>4, <2>7 DEF Verified
<1>8. CASE facts.coverage # None /\ i = Claim("coverage", {}, facts.coverage)
  <2>1. i.type = "coverage" /\ i.claim = facts.coverage
    BY <1>8 DEF Claim
  <2>2. QED
    BY <1>8, <2>1 DEF Verified, CoverageVerified
<1>9. QED
  BY <1>4, <1>5, <1>6, <1>7, <1>8, InsightCases

-----------------------------------------------------------------------------
(* What is true on the way to the answer.                                   *)

\* The rules only aggregate measures, and as one of the words asks.
LEMMA FastPlansCompute ==
    ASSUME NEW q \in Questions, NEW p \in FastPlans(q)
    PROVE  Computable(p)
<1> DEFINE filters == q.comparisons \cup CategoricalFilters(q)
<1>1. q.words \subseteq {"sum", "min", "max", "count"}
  BY PipelineAssumption
<1>2. CASE p \in RankingPlans(q, filters)
  <2>1. PICK m \in RankedMetrics(q, filters, The(q.ranked)) :
          p = [DefaultPlan EXCEPT
                 !.filters     = filters,
                 !.group_by    = {RankedEntity(q, m)},
                 !.metric      = m,
                 !.aggregation = RankedAggregation(q.words),
                 !.sort        = IF q.top # None THEN "desc" ELSE "asc",
                 !.limit       = RankingCount(q)]
    BY <1>2 DEF RankingPlans
  <2>2. m \in Measure
    BY DEF RankedMetrics
  <2>3. RankedAggregation(q.words) \in {"sum", "min", "max"}
    <3> DEFINE rank == [mean |-> 1, median |-> 2, min |-> 3, max |-> 4]
               named == q.words \cap DOMAIN rank
    <3>1. CASE named = {}
      BY <3>1 DEF RankedAggregation
    <3>2. CASE named # {}
      <4>1. named \subseteq {"min", "max"}
        BY <1>1
      <4>2. rank["min"] = 3 /\ rank["max"] = 4
        OBVIOUS
      <4>3. \E a \in named : \A b \in named : rank[a] <= rank[b]
        BY <3>2, <4>1, <4>2
      <4>4. RankedAggregation(q.words)
              = CHOOSE a \in named : \A b \in named : rank[a] <= rank[b]
        BY <3>2 DEF RankedAggregation
      <4>5. QED
        BY <4>1, <4>3, <4>4
    <3>3. QED
      BY <3>1, <3>2
  <2>4. p.metric = m /\ p.aggregation = RankedAggregation(q.words)
    BY <2>1 DEF DefaultPlan
  <2>5. QED
    BY <2>2, <2>3, <2>4 DEF Computable
<1>3. CASE p \in StandalonePlans(q, filters)
  <2>1. ~Ambiguous(q)
    BY <1>3 DEF StandalonePlans
  <2>2. Metric(q) \in Measure
    BY <2>1, TheIsElement DEF Ambiguous, Metric
  <2>3. The(q.words) \in q.words
    <3>1. Cardinality(q.words) = 1
      BY <2>1 DEF Ambiguous
    <3>2. q.words # {}
      BY <3>1, FS_EmptySet
    <3>3. QED
      BY <3>1, <3>2 DEF The
  <2>4. p.metric = Metric(q) /\ p.aggregation = The(q.words)
    BY <1>3, <2>1 DEF StandalonePlans, DefaultPlan
  <2>5. QED
    BY <1>1, <2>2, <2>3, <2>4 DEF Computable
<1>4. p \in RankingPlans(q, filters) \/ p \in StandalonePlans(q, filters)
  BY DEF FastPlans
<1>5. QED
  BY <1>2, <1>3, <1>4

Executed == stage \in {"executed", "described"} \/ reply = 200

Described == stage = "described" \/ reply = 200

PipelineInv ==
    /\ stage # "done" => reply = None
    /\ stage \in {"planned", "validated"} => Computable(plan)
    /\ stage = "validated" => Valid(plan)
    /\ Executed => Run(table, plan) /\ result \in Results(table, plan)
    /\ Described => context \in Contexts(plan, result, LimitReached(plan, result))
    /\ reply = 200 =>
          LET insights == Insights(result, context)
          IN  said = IF \/ LabelFails(plan, context)
                        \/ \E i \in insights : ~Verified(i, result, context)
                     THEN {} ELSE {insights}

LEMMA PipelineInvInit == Init => PipelineInv
BY DEF Init, PipelineInv, Executed, Described

LEMMA RejectKeepsPipelineInv ==
    ASSUME NEW status \in {400, 404, 422, 500, 503}, Reject(status)
    PROVE  PipelineInv'
BY DEF Reject, PipelineInv, Executed, Described

LEMMA PipelineInvStep == PipelineInv /\ [Next]_vars => PipelineInv'
<1> SUFFICES ASSUME PipelineInv, [Next]_vars
             PROVE  PipelineInv'
  OBVIOUS
<1>1. CASE PlanFast
  <2>1. PICK q \in Questions : plan' \in FastPlans(q)
    BY <1>1 DEF PlanFast
  <2>2. Computable(plan')
    BY <2>1, FastPlansCompute
  <2>3. stage' = "planned" /\ reply' = None
    BY <1>1 DEF PlanFast, PipelineInv
  <2>4. QED
    BY <2>2, <2>3 DEF PipelineInv, Executed, Described, Computable
<1>2. CASE Defer
  BY <1>2 DEF Defer, PipelineInv, Executed, Described
<1>3. CASE ModelFails \/ ModelRefuses \/ ModelAsksBack
  BY <1>3, RejectKeepsPipelineInv DEF ModelFails, ModelRefuses, ModelAsksBack
<1>4. CASE ModelPlans
  <2>1. PICK a \in Answers : Adaptable(a.plan) /\ plan' = Adapted(a.plan)
    BY <1>4 DEF ModelPlans
  <2>2. Computable(plan')
    BY <2>1, PipelineAssumption
  <2>3. stage' = "planned" /\ reply' = None
    BY <1>4 DEF ModelPlans, PipelineInv
  <2>4. QED
    BY <2>2, <2>3 DEF PipelineInv, Executed, Described, Computable
<1>5. CASE Validate
  <2>1. /\ stage' = "validated" /\ reply' = None /\ plan' = plan
        /\ Computable(plan) /\ Valid(plan)
    BY <1>5 DEF Validate, PipelineInv
  <2>2. QED
    BY <2>1 DEF PipelineInv, Executed, Described, Computable, Valid
<1>6. CASE Invalidate \/ ExecuteFails \/ ExecuteTooLate
  BY <1>6, RejectKeepsPipelineInv DEF Invalidate, ExecuteFails, ExecuteTooLate
<1>7. CASE Execute
  <2>1. /\ stage' = "executed" /\ reply' = None /\ plan' = plan
        /\ Computable(plan) /\ Valid(plan) /\ Executable(plan)
    BY <1>7 DEF Execute, PipelineInv
  <2>2. PICK t \in Tables : table' = t /\ result' \in Results(t, plan)
    BY <1>7 DEF Execute
  <2>3. Run(table', plan') /\ result' \in Results(table', plan')
    BY <2>1, <2>2 DEF Run
  <2>4. QED
    BY <2>1, <2>3 DEF PipelineInv, Executed, Described
<1>8. CASE BuildContext
  <2>1. /\ stage' = "described" /\ reply' = None
        /\ UNCHANGED <<plan, table, result>>
        /\ Run(table, plan) /\ result \in Results(table, plan)
        /\ context' \in Contexts(plan, result, LimitReached(plan, result))
    BY <1>8 DEF BuildContext, PipelineInv, Executed
  <2>2. /\ Run(table', plan') /\ result' \in Results(table', plan')
        /\ context' \in Contexts(plan', result', LimitReached(plan', result'))
    BY <2>1
  <2>3. QED
    BY <2>1, <2>2 DEF PipelineInv, Executed, Described
<1>9. CASE Answer
  <2>1. /\ stage' = "done" /\ reply' = 200
        /\ UNCHANGED <<plan, table, result, context>>
        /\ Run(table, plan) /\ result \in Results(table, plan)
        /\ context \in Contexts(plan, result, LimitReached(plan, result))
    BY <1>9 DEF Answer, PipelineInv, Executed, Described
  <2>2. /\ Run(table', plan') /\ result' \in Results(table', plan')
        /\ context' \in Contexts(plan', result', LimitReached(plan', result'))
    BY <2>1
  <2>3. said' = IF \/ LabelFails(plan', context')
                   \/ \E i \in Insights(result', context') :
                         ~Verified(i, result', context')
                THEN {} ELSE {Insights(result', context')}
    BY <1>9, <2>1 DEF Answer
  <2>4. QED
    BY <2>1, <2>2, <2>3 DEF PipelineInv, Executed, Described
<1>10. CASE UNCHANGED vars
  BY <1>10 DEF vars, PipelineInv, Executed, Described, Run
<1>11. QED
  BY <1>1, <1>2, <1>3, <1>4, <1>5, <1>6, <1>7, <1>8, <1>9, <1>10 DEF Next

LEMMA PipelineInvariance == Spec => []PipelineInv
BY PipelineInvInit, PipelineInvStep, PTL DEF Spec

\* Whatever an answer says of the data is true of all the data its plan is about,
\* for every table, plan, limit and tolerance: the highest and lowest though the
\* result be cut, the trend of neighbouring groups as that of all, the months that
\* are missing; and an answer that warns of no more groups has them all.
THEOREM ClaimsAreAlwaysTrue == Spec => []ClaimsAreTrue
<1>1. PipelineInv => ClaimsAreTrue
  <2> SUFFICES ASSUME PipelineInv, reply = 200
               PROVE  /\ \A insights \in said : \A i \in insights :
                            Holds(i, Groups(table, plan))
                      /\ \/ "more" \in Limitations(plan, LimitReached(plan, result))
                         \/ result = Groups(table, plan)
    BY DEF ClaimsAreTrue
  <2>1. Run(table, plan) /\ result \in Results(table, plan)
    BY DEF PipelineInv, Executed
  <2>2. Describes(context, plan, result)
    BY ContextsDescribe DEF PipelineInv, Described
  <2>3. \A insights \in said : insights = Insights(result, context)
    BY DEF PipelineInv
  <2>4. \A i \in Insights(result, context) : Holds(i, Groups(table, plan))
    BY <2>1, <2>2, ClaimsHold
  <2>5. CASE LimitReached(plan, result)
    BY <2>3, <2>4, <2>5 DEF Limitations, LimitReached
  <2>6. CASE ~LimitReached(plan, result)
    BY <2>1, <2>3, <2>4, <2>6, ResultFacts
  <2>7. QED
    BY <2>5, <2>6
<1>2. QED
  BY <1>1, PipelineInvariance, PTL

\* The check of the insights against the result and its context passes all that
\* were computed from them, for every table, plan and tolerance, numbers missing
\* or not: only a group without a date to name it by sends an answer without.
THEOREM InsightsAreAlwaysKept == Spec => []InsightsAreKept
<1>1. PipelineInv => InsightsAreKept
  <2> SUFFICES ASSUME PipelineInv, reply = 200, said = {}
               PROVE  \E g \in result : Unlabelled(plan, g)
    BY DEF InsightsAreKept
  <2>1. Run(table, plan) /\ result \in Results(table, plan)
    BY DEF PipelineInv, Executed
  <2>2. Describes(context, plan, result)
    BY ContextsDescribe DEF PipelineInv, Described
  <2>3. \A i \in Insights(result, context) : Verified(i, result, context)
    BY <2>1, <2>2, InsightsPass
  <2>4. LabelFails(plan, context)
    BY <2>3 DEF PipelineInv
  <2>5. PICK g \in Extremes(context) : Unlabelled(plan, g)
    BY <2>4 DEF LabelFails
  <2>6. g \in result
    BY <2>2, <2>5 DEF Extremes, Describes, Highest, Lowest, Known
  <2>7. QED
    BY <2>5, <2>6
<1>2. QED
  BY <1>1, PipelineInvariance, PTL
=============================================================================
