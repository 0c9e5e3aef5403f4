-------------------------- MODULE AnalysisPipeline --------------------------
(***************************************************************************)
(* One question through analyze_dataset (backend/routes/analysis.py): the  *)
(* fast planner or the language model plans it, the plan is validated and  *)
(* executed, the result is described, the description checked, and all of  *)
(* it sent.  Follow-up questions are the matter of module Conversation.    *)
(***************************************************************************)
EXTENDS Insights

CONSTANTS
    Questions,      \* what may be asked
    Answers,        \* what the language model may answer
    Tables          \* what the dataset may hold

\* Only whole numbers are added up and compared; anything can be counted.
Computable(p) ==
    /\ p.aggregation \in {"sum", "min", "max", "count"}
    /\ p.metric \in Dimension \cup Time => p.aggregation = "count"

ASSUME PipelineAssumption ==
    /\ None \notin {"fast", "ai"}
    /\ Questions \subseteq Question /\ IsFiniteSet(Column)
    /\ \A q \in Questions : q.words \subseteq {"sum", "min", "max", "count"}
    /\ \A a \in Answers : Adaptable(a.plan) => Computable(Adapted(a.plan))
    /\ \A t \in Tables :
          IsFiniteSet(DOMAIN t) /\ DOMAIN t = 1 .. Cardinality(DOMAIN t)
    /\ \A t \in Tables : \A i \in DOMAIN t :
          /\ \A c \in Measure : t[i][c] \in Int \cup {Null}
          /\ \A c \in Time : t[i][c] \in Nat \cup {Null}

VARIABLES
    stage,          \* where in analyze_dataset
    planner,        \* who made the plan
    plan,
    table,          \* the dataset, once executed upon
    result,
    context,        \* the deterministic insight context
    said,           \* the answer's insights: one set of them, or none at all
    reply           \* its status

vars == <<stage, planner, plan, table, result, context, said, reply>>

Init ==
    /\ stage = "asked" /\ planner = None /\ plan = DefaultPlan
    /\ table = <<>> /\ result = {} /\ context = NoContext
    /\ said = {} /\ reply = None

Reject(status) ==
    /\ stage' = "done" /\ reply' = status
    /\ UNCHANGED <<planner, plan, table, result, context, said>>

-----------------------------------------------------------------------------
PlanFast ==
    /\ stage = "asked"
    /\ \E q \in Questions : plan' \in FastPlans(q)
    /\ planner' = "fast" /\ stage' = "planned"
    /\ UNCHANGED <<table, result, context, said, reply>>

Defer ==
    /\ stage = "asked"
    /\ \E q \in Questions : FastPlans(q) = {}
    /\ planner' = "ai" /\ stage' = "deferred"
    /\ UNCHANGED <<plan, table, result, context, said, reply>>

\* No key for the provider, or a call that fails.
ModelFails ==
    /\ stage = "deferred"
    /\ \E status \in {500, 503} : Reject(status)

ModelRefuses ==
    /\ stage = "deferred"
    /\ \E provider \in Provider, a \in Answers :
          \/ ~Accepts(provider, a)
          \/ a.status = "invalid"
          \/ a.status = "success" /\ ~Adaptable(a.plan)
    /\ Reject(400)

ModelAsksBack ==
    /\ stage = "deferred"
    /\ \E provider \in Provider, a \in Answers :
          Accepts(provider, a) /\ a.status = "clarification"
    /\ Reject(422)

ModelPlans ==
    /\ stage = "deferred"
    /\ \E provider \in Provider, a \in Answers :
          /\ Accepts(provider, a) /\ a.status = "success" /\ Adaptable(a.plan)
          /\ plan' = Adapted(a.plan)
    /\ stage' = "planned"
    /\ UNCHANGED <<planner, table, result, context, said, reply>>

Validate ==
    /\ stage = "planned" /\ Valid(plan)
    /\ stage' = "validated"
    /\ UNCHANGED <<planner, plan, table, result, context, said, reply>>

Invalidate ==
    /\ stage = "planned" /\ ~Valid(plan)
    /\ Reject(400)

Execute ==
    /\ stage = "validated" /\ Executable(plan)
    /\ \E t \in Tables : table' = t /\ result' \in Results(t, plan)
    /\ stage' = "executed"
    /\ UNCHANGED <<planner, plan, context, said, reply>>

ExecuteFails ==
    /\ stage = "validated" /\ ~Executable(plan)
    /\ Reject(400)

\* The dataset was deleted meanwhile: StorageClosedError.
ExecuteTooLate ==
    /\ stage = "validated"
    /\ Reject(404)

BuildContext ==
    /\ stage = "executed"
    /\ context' \in Contexts(plan, result, LimitReached(plan, result))
    /\ stage' = "described"
    /\ UNCHANGED <<planner, plan, table, result, said, reply>>

\* One insight that does not pass, or a failing label, and none is sent.
Answer ==
    LET insights == Insights(result, context)
    IN  /\ stage = "described"
        /\ said' = IF \/ LabelFails(plan, context)
                      \/ \E i \in insights : ~Verified(i, result, context)
                   THEN {} ELSE {insights}
        /\ stage' = "done" /\ reply' = 200
        /\ UNCHANGED <<planner, plan, table, result, context>>

Next ==
    \/ PlanFast \/ Defer
    \/ ModelFails \/ ModelRefuses \/ ModelAsksBack \/ ModelPlans
    \/ Validate \/ Invalidate
    \/ Execute \/ ExecuteFails \/ ExecuteTooLate
    \/ BuildContext \/ Answer

Spec == Init /\ [][Next]_vars

-----------------------------------------------------------------------------
(* Properties.                                                             *)

\* The planner that never guesses does not err either: what it plans passes
\* validation and runs, unless the question ranks more rows than there may be.
FastPlansRun ==
    planner = "fast" /\ reply = 400 => plan.limit # None /\ plan.limit > MaxRows

\* The months of column c among the rows the plan looks at.
MonthsSeen(c) ==
    {Month(d) : d \in {table[i][c] : i \in Selected(table, plan)} \ {Null}}

TrendHolds(direction, groups, c) ==
    LET rises == \E g, h \in groups : g.key[c] < h.key[c] /\ g.amount < h.amount
        falls == \E g, h \in groups : g.key[c] < h.key[c] /\ g.amount > h.amount
    IN  /\ direction \in {"increasing", "mixed"} <=> rises
        /\ direction \in {"decreasing", "mixed"} <=> falls

\* i is true of these groups.
Holds(i, groups) ==
    LET amounts == {g.amount : g \in groups} \ {Null}
    IN  CASE i.type = "highest"    -> i.rows \subseteq groups /\ i.claim = Max(amounts)
          [] i.type = "lowest"     -> i.rows \subseteq groups /\ i.claim = Min(amounts)
          [] i.type = "difference" -> i.claim = Max(amounts) - Min(amounts)
          [] i.type = "trend"      ->
                \A c \in plan.group_by : TrendHolds(i.claim, Known(groups), c)
          [] i.type = "coverage"   ->
                LET seen == MonthsSeen(i.claim.column)
                IN  /\ i.claim.missing = (Min(seen) .. Max(seen)) \ seen
                    /\ i.claim.observed = Cardinality(seen)

\* Whatever the answer says of the data is true of all of the data the plan
\* is about, though the result it was computed from may be cut at a limit,
\* sorted either way, and hold NULLs; and an answer that does not warn of
\* more groups has them all.
ClaimsAreTrue ==
    LET groups == Groups(table, plan)
    IN  reply = 200 =>
           /\ \A insights \in said : \A i \in insights : Holds(i, groups)
           /\ "more" \in Limitations(plan, LimitReached(plan, result))
                 \/ result = groups

\* The check before sending withholds nothing that was computed right: an
\* answer goes without insights only when a group to be named has no date.
InsightsAreKept ==
    reply = 200 /\ said = {} => \E g \in result : Unlabelled(plan, g)
=============================================================================
