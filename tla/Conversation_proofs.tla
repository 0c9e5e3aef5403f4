------------------------ MODULE Conversation_proofs ------------------------
(***************************************************************************)
(* Proofs about AnalysisPlans and Conversation.  Two facts about plans come *)
(* first (a validated plan runs, an edit of a valid plan is valid); the     *)
(* inductive invariant then ties each request to the panel it came from and *)
(* each answer to the plan it was made of.                                  *)
(***************************************************************************)
EXTENDS Conversation, TLAPS

-----------------------------------------------------------------------------
(* Plans.                                                                  *)

\* Every edit of a plan is a plan.
LEMMA EditsArePlans == ASSUME NEW p \in Plan PROVE Edits(p) \subseteq Plan
<1>1. ASSUME NEW e \in Ranked(p) PROVE e \in Plan
  <2>1. PICK s \in {"asc", "desc"}, n \in Count : e = Rank(p, s, n)
    BY <1>1 DEF Ranked
  <2>2. n \in Nat
    BY NumberAssumption
  <2> QED BY <2>1, <2>2 DEF Rank, Plan
<1>2. ASSUME NEW e \in BrokenDown(p) PROVE e \in Plan
  BY <1>2 DEF BrokenDown, Plan, Column
<1>3. ASSUME NEW e \in Regrouped(p) PROVE e \in Plan
  <2>1. PICK c \in Dimension \cup Time : e = Regroup(p, c)
    BY <1>3 DEF Regrouped
  <2>2. c \in Column
    BY DEF Column
  <2> QED BY <2>1, <2>2 DEF Regroup, Plan
<1>4. ASSUME NEW e \in Filtered(p) PROVE e \in Plan
  <2>1. Askable \subseteq Filter
    BY DEF Askable, Filter, Column
  <2> QED BY <1>4, <2>1 DEF Filtered, Plan
<1>5. ASSUME NEW e \in Replaced(p) PROVE e \in Plan
  <2>1. PICK f \in p.filters, v \in Value : e = Replace(p, f, v)
    BY <1>5 DEF Replaced, Replaceable
  <2>2. [f EXCEPT !.value = v] \in Filter
    BY DEF Filter, Plan
  <2> QED BY <2>1, <2>2 DEF Replace, Plan
<1> QED BY <1>1, <1>2, <1>3, <1>4, <1>5 DEF Edits

\* A plan that passes validate_plan and has a metric meets none of the
\* ValueErrors of execute_plan_duckdb, whatever its dataset.
THEOREM ValidatedRuns ==
    ASSUME NEW p \in Plan, Valid(p), p.metric # None
    PROVE  Executable(p)
<1>1. p.time_column # None => p.time_column \in Column
  BY DEF Valid, Column
<1>2. p.limit # None => p.limit > 0
  BY NumberAssumption DEF Valid, Plan
<1>3. p.metric \in Column
  BY DEF Valid
<1> QED BY <1>1, <1>2, <1>3 DEF Valid, Executable

\* An edit of a valid plan is valid, unless it ranks more groups than a result
\* may have: replacing the grouping never leaves a sort by time behind.
THEOREM EditsStayValid ==
    ASSUME NEW p \in Plan, Valid(p), NEW e \in Edits(p)
    PROVE  Valid(e) \/ (e.limit # None /\ e.limit > MaxRows)
<1>1. CASE e \in Ranked(p)
  <2>1. PICK s \in {"asc", "desc"}, n \in Count : e = Rank(p, s, n)
    BY <1>1 DEF Ranked
  <2>2. n \in Nat \ {0} /\ MaxRows \in Nat /\ n # None
    BY NumberAssumption
  <2>3. e.limit = n /\ e.sort_by = "metric" /\ e.group_by = p.group_by
          /\ e.metric = p.metric /\ e.filters = p.filters
          /\ e.granularity = p.granularity /\ e.time_column = p.time_column
    BY <2>1 DEF Rank, Plan
  <2> QED BY <2>2, <2>3 DEF Valid
<1>2. CASE e \in BrokenDown(p)
  BY <1>2 DEF BrokenDown, Valid, Plan, Column
<1>3. CASE e \in Regrouped(p)
  <2>1. PICK c \in Dimension \cup Time : e = Regroup(p, c)
    BY <1>3 DEF Regrouped
  <2>2. /\ e.group_by = {c} /\ {c} \subseteq Column
        /\ e.metric = p.metric /\ e.filters = p.filters /\ e.limit = p.limit
        /\ e.time_column = (IF p.time_column = c THEN p.time_column ELSE None)
        /\ e.granularity = (IF p.time_column = c THEN p.granularity ELSE None)
        /\ e.sort_by = (IF p.time_column = c THEN p.sort_by ELSE "metric")
    BY <2>1 DEF Regroup, Plan, Column
  <2> QED BY <2>2 DEF Valid
<1>4. CASE e \in Filtered(p)
  <2>1. \A f \in Askable : f.column \in Column
    BY DEF Askable, Column
  <2> QED BY <1>4, <2>1 DEF Filtered, Valid, Plan
<1>5. CASE e \in Replaced(p)
  <2>1. PICK f \in p.filters, v \in Value : e = Replace(p, f, v)
    BY <1>5 DEF Replaced, Replaceable
  <2>2. [f EXCEPT !.value = v].column = f.column
    BY DEF Filter, Plan
  <2> QED BY <2>1, <2>2 DEF Replace, Valid, Plan
<1> QED BY <1>1, <1>2, <1>3, <1>4, <1>5 DEF Edits

-----------------------------------------------------------------------------
(* The invariant.                                                          *)

\* What an answer says of the plan it was made of.
GoodAnswer(q, a) ==
    /\ a \in Answer
    /\ a.outcome = "ok" => a.plan # None
    /\ a.followUp => q.context # None /\ a.plan \in Edits(q.context.plan)
    /\ a.outcome = "execution" => a.plan.metric = None
    /\ a.outcome = "invalid" /\ a.followUp =>
          a.plan.limit # None /\ a.plan.limit > MaxRows

GoodAnswers == \A q \in requests : q.answer # None => GoodAnswer(q, q.answer)

\* Each request has a number of its own, and the one the panel waits for was
\* sent with the context the panel still has.
Numbered ==
    /\ \A q \in requests : q.seq <= seq
    /\ \A q, r \in requests : q.seq = r.seq => q = r

SentFromScreen ==
    \A q \in requests : Current(q) /\ q.context # None => q.context = context

IInv ==
    /\ TypeOK
    /\ ContextMatchesScreen
    /\ BusyMeansWaiting
    /\ Numbered
    /\ SentFromScreen
    /\ GoodAnswers

LEMMA InitInv == Init => IInv
<1> SUFFICES ASSUME Init PROVE IInv
  OBVIOUS
<1>1. TypeOK
  <2>1. 0 \in 0 .. MaxSeq
    BY DatasetAssumption
  <2>2. loading \in BOOLEAN /\ enabled \in BOOLEAN /\ kept \in BOOLEAN
    BY Zenon DEF Init
  <2> QED BY <2>1, <2>2 DEF Init, TypeOK
<1>2. ContextMatchesScreen /\ BusyMeansWaiting
  BY DEF Init, ContextMatchesScreen, BusyMeansWaiting
<1>3. Numbered /\ SentFromScreen /\ GoodAnswers
  BY DEF Init, Numbered, SentFromScreen, GoodAnswers
<1> QED BY <1>1, <1>2, <1>3 DEF IInv

-----------------------------------------------------------------------------
(* The server's steps.                                                     *)

Answers(q, a) ==
    requests' = (requests \ {q}) \cup {[q EXCEPT !.answer = a]}

LEMMA RefuseAnswers ==
    ASSUME NEW q, NEW outcome \in Outcome \ {"ok", "execution"}, Refuse(q, outcome)
    PROVE  \E a : GoodAnswer(q, a) /\ Answers(q, a)
<1> DEFINE a == [outcome |-> outcome, plan |-> None, followUp |-> FALSE]
<1>1. GoodAnswer(q, a)
  BY DEF GoodAnswer, Answer
<1>2. Answers(q, a)
  BY DEF Refuse, Reply, Answers
<1> QED BY <1>1, <1>2

LEMMA RunPlanAnswers ==
    ASSUME NEW q, NEW plan \in Plan, NEW followUp \in BOOLEAN,
           followUp => /\ q.context # None
                       /\ q.context.plan \in Plan
                       /\ Valid(q.context.plan)
                       /\ plan \in Edits(q.context.plan),
           RunPlan(q, plan, followUp)
    PROVE  \E a : GoodAnswer(q, a) /\ Answers(q, a)
<1> DEFINE a(outcome) == [outcome |-> outcome, plan |-> plan, followUp |-> followUp]
<1>1. \A outcome : a(outcome).outcome = outcome /\ a(outcome).plan = plan
                     /\ a(outcome).followUp = followUp
  OBVIOUS
<1>2. \A outcome \in Outcome : a(outcome) \in Answer
  BY DEF Answer
<1>3. plan # None
  BY PlanAssumption
<1>4. \A outcome : Reply(q, outcome, plan, followUp) => Answers(q, a(outcome))
  BY DEF Reply, Answers
<1> HIDE DEF a
<1>5. CASE ~Valid(plan)
  <2>1. followUp => plan.limit # None /\ plan.limit > MaxRows
    BY <1>5, EditsStayValid
  <2>2. GoodAnswer(q, a("invalid"))
    BY <1>1, <1>2, <2>1 DEF GoodAnswer, Outcome
  <2> QED BY <1>4, <1>5, <2>2 DEF RunPlan
<1>6. CASE Valid(plan) /\ ~Executable(plan)
  <2>1. plan.metric = None
    BY <1>6, ValidatedRuns
  <2>2. GoodAnswer(q, a("execution"))
    BY <1>1, <1>2, <2>1 DEF GoodAnswer, Outcome
  <2> QED BY <1>4, <1>6, <2>2 DEF RunPlan
<1>7. CASE Valid(plan) /\ Executable(plan)
  <2>1. GoodAnswer(q, a("ok")) /\ GoodAnswer(q, a("failed"))
    BY <1>1, <1>2, <1>3 DEF GoodAnswer, Outcome
  <2> QED BY <1>4, <1>7, <2>1 DEF RunPlan
<1> QED BY <1>5, <1>6, <1>7

LEMMA ServeAnswers ==
    ASSUME NEW q \in Request, Serve(q)
    PROVE  \E a : GoodAnswer(q, a) /\ Answers(q, a)
<1>1. CASE \E outcome \in {"contract", "gone", "context", "refused", "clarify",
                           "unplanned"} : Refuse(q, outcome)
  BY <1>1, RefuseAnswers DEF Outcome
<1>2. CASE ~(q.context # None /\ ~Valid(q.context.plan)) /\ AnswerPlanned(q)
  <2>1. q.context # None => q.context.plan \in Plan /\ Valid(q.context.plan)
    BY <1>2 DEF Request, Context
  <2>2. PICK fast \in Fresh \cup {None}, refersBack \in BOOLEAN,
              edit \in (IF q.context = None THEN {} ELSE Edits(q.context.plan))
                           \cup {None} :
           IF edit # None /\ (fast = None \/ refersBack)
           THEN RunPlan(q, edit, TRUE)
           ELSE IF fast # None THEN RunPlan(q, fast, FALSE)
           ELSE IF q.context # None /\ refersBack THEN Refuse(q, "refused")
           ELSE PlanWithAI(q)
    BY <1>2 DEF AnswerPlanned
  <2>3. CASE RunPlan(q, edit, TRUE) /\ edit # None
    <3>1. q.context # None /\ edit \in Edits(q.context.plan)
      BY <2>3
    <3>2. edit \in Plan
      BY <2>1, <3>1, EditsArePlans
    <3> QED BY <2>1, <2>3, <3>1, <3>2, RunPlanAnswers
  <2>4. CASE \E plan \in Fresh : RunPlan(q, plan, FALSE)
    BY <2>4, FreshAssumption, RunPlanAnswers
  <2> QED BY <1>1, <2>2, <2>3, <2>4 DEF PlanWithAI
<1> QED BY <1>1, <1>2 DEF Serve

\* An answer, good in itself, changes nothing for the panel.
LEMMA AnsweredInv ==
    ASSUME IInv, NEW q \in requests, NEW a, GoodAnswer(q, a), Answers(q, a),
           UNCHANGED <<exists, selected, seq, panelVars>>
    PROVE  IInv'
<1> DEFINE r == [q EXCEPT !.answer = a]
<1>1. q \in Request
  BY DEF IInv, TypeOK
<1>2. r \in Request /\ r.seq = q.seq /\ r.dataset = q.dataset
        /\ r.context = q.context /\ r.answer = a
  BY <1>1 DEF Request, GoodAnswer
<1>3. requests' = (requests \ {q}) \cup {r}
  BY DEF Answers
<1> HIDE DEF r
<1> USE <1>2, <1>3 DEF IInv, panelVars
<1>4. TypeOK'
  BY DEF TypeOK
<1>5. ContextMatchesScreen'
  BY DEF ContextMatchesScreen
<1>6. BusyMeansWaiting'
  BY DEF BusyMeansWaiting, Current
<1>7. Numbered'
  BY DEF Numbered
<1>8. SentFromScreen'
  BY DEF SentFromScreen, Current
<1>9. GoodAnswers'
  <2>1. GoodAnswer(r, a)
    BY DEF GoodAnswer
  <2>2. \A p \in requests : p.answer # None => GoodAnswer(p, p.answer)
    BY DEF GoodAnswers
  <2>3. \A p \in requests' : p.answer # None => GoodAnswer(p, p.answer)
    BY <2>1, <2>2
  <2> QED BY <2>3 DEF GoodAnswers, GoodAnswer
<1> QED BY <1>4, <1>5, <1>6, <1>7, <1>8, <1>9

-----------------------------------------------------------------------------
(* The panel's steps.                                                      *)

LEMMA AnalyzeInv == ASSUME IInv, Analyze PROVE IInv'
<1> DEFINE q == [seq |-> seq + 1, dataset |-> selected,
                 context |-> FollowUpContext, answer |-> None]
<1>1. /\ seq \in Nat /\ seq + 1 \in 1 .. MaxSeq
      /\ selected \in Dataset
      /\ context \in Context \cup {None}
  BY DatasetAssumption DEF IInv, TypeOK, Analyze
<1>2. FollowUpContext \in {context, None}
  BY DEF FollowUpContext
<1>3. q \in Request
  BY <1>1, <1>2 DEF Request
<1>4. q.seq = seq + 1 /\ q.dataset = selected /\ q.context \in {context, None}
        /\ q.answer = None
  BY <1>2
<1>5. requests' = requests \cup {q} /\ seq' = seq + 1 /\ selected' = selected
        /\ context' = context /\ result' = result
  BY DEF Analyze
<1>6. \A r \in requests : r.seq \in Nat /\ r.seq <= seq /\ r.seq # seq + 1
  BY <1>1 DEF IInv, Numbered, TypeOK, Request
<1> HIDE DEF q
<1>7. TypeOK'
  <2>1. loading' \in BOOLEAN /\ kept' \in BOOLEAN /\ enabled' \in BOOLEAN
    BY Zenon DEF Analyze, IInv, TypeOK
  <2> QED BY <1>1, <1>3, <1>5, <2>1 DEF IInv, TypeOK, Analyze
<1>8. ContextMatchesScreen'
  BY <1>5 DEF IInv, ContextMatchesScreen
<1>9. BusyMeansWaiting'
  BY <1>4, <1>5 DEF BusyMeansWaiting, Current, Analyze
<1>10. Numbered'
  BY <1>1, <1>4, <1>5, <1>6 DEF IInv, Numbered
<1>11. SentFromScreen'
  BY <1>4, <1>5, <1>6 DEF SentFromScreen, Current
<1>12. GoodAnswers'
  BY <1>4, <1>5 DEF IInv, GoodAnswers, GoodAnswer
<1> QED BY <1>7, <1>8, <1>9, <1>10, <1>11, <1>12 DEF IInv

\* Steps that blank the panel and, unless nothing was awaited, count up; they
\* may settle requests.
LEMMA BlankInv ==
    ASSUME IInv, Blank, requests' \subseteq requests, exists' \subseteq Dataset,
           loading' = FALSE,
           enabled' \in BOOLEAN, kept' \in BOOLEAN,
           selected' \in Dataset \cup {None},
           \/ UNCHANGED <<seq, selected>> /\ ~loading
           \/ seq' = seq + 1 /\ seq < MaxSeq
    PROVE  IInv'
<1>1. seq \in Nat /\ seq' \in 0 .. MaxSeq
  BY DatasetAssumption DEF IInv, TypeOK
<1>2. \A q \in requests : q.seq \in Nat /\ q.seq <= seq
  BY DEF IInv, Numbered, TypeOK, Request
<1>3. \A q \in requests : ~(q.seq = seq' /\ q.dataset = selected')
  BY <1>1, <1>2 DEF IInv, BusyMeansWaiting, Current
<1>4. TypeOK'
  BY <1>1 DEF IInv, TypeOK, Blank
<1>5. ContextMatchesScreen'
  BY DEF ContextMatchesScreen, Blank
<1>6. BusyMeansWaiting'
  BY <1>3 DEF BusyMeansWaiting, Current
<1>7. Numbered'
  BY <1>1, <1>2 DEF IInv, Numbered
<1>8. SentFromScreen'
  BY <1>3 DEF SentFromScreen, Current
<1>9. GoodAnswers'
  BY DEF IInv, GoodAnswers, GoodAnswer
<1> QED BY <1>4, <1>5, <1>6, <1>7, <1>8, <1>9 DEF IInv

\* Steps that change neither the conversation nor its requests.
LEMMA QuietInv ==
    ASSUME IInv, exists' \subseteq Dataset, enabled' \in BOOLEAN,
           UNCHANGED <<selected, seq, loading, result, context, kept, requests>>
    PROVE  IInv'
<1>1. TypeOK'
  BY DEF IInv, TypeOK
<1>2. ContextMatchesScreen' /\ BusyMeansWaiting' /\ Numbered' /\ SentFromScreen'
  BY DEF IInv, ContextMatchesScreen, BusyMeansWaiting, Numbered, SentFromScreen,
         Current
<1>3. GoodAnswers'
  BY DEF IInv, GoodAnswers, GoodAnswer
<1> QED BY <1>1, <1>2, <1>3 DEF IInv

\* A request that settles with nothing to show for it.
LEMMA SettledInv ==
    ASSUME IInv, NEW q \in requests, Settle(q),
           UNCHANGED <<exists, selected, seq, enabled>>,
           kept' \in BOOLEAN,
           \/ UNCHANGED <<result, context>>
           \/ Blank,
           \/ ~Current(q) /\ UNCHANGED <<loading, result, context>>
           \/ Current(q) /\ loading' = FALSE
    PROVE  IInv'
<1>1. requests' \subseteq requests /\ \A r \in requests' : r # q
  BY DEF Settle
<1>2. Current(q) => \A r \in requests' : ~Current(r)
  BY <1>1 DEF IInv, Numbered, Current
<1>3. loading' \in BOOLEAN
  BY Zenon DEF IInv, TypeOK
<1>4. TypeOK'
  BY <1>1, <1>3 DEF IInv, TypeOK, Blank
<1>5. ContextMatchesScreen'
  BY DEF IInv, ContextMatchesScreen, Blank
<1>6. BusyMeansWaiting'
  <2>1. CASE Current(q)
    BY <1>2, <2>1 DEF BusyMeansWaiting, Current
  <2>2. CASE ~Current(q)
    <3>1. requests' = requests \ {q}
      BY DEF Settle
    <3> QED BY <2>2, <3>1 DEF IInv, BusyMeansWaiting, Current
  <2> QED BY <2>1, <2>2
<1>7. Numbered'
  BY <1>1 DEF IInv, Numbered
<1>8. SentFromScreen'
  BY <1>1, <1>2 DEF IInv, SentFromScreen, Current
<1>9. GoodAnswers'
  BY <1>1 DEF IInv, GoodAnswers, GoodAnswer
<1> QED BY <1>4, <1>5, <1>6, <1>7, <1>8, <1>9 DEF IInv

\* The answer that is shown becomes the context of the next question.
LEMMA ShowInv ==
    ASSUME IInv, NEW q \in requests, q.answer # None, Show(q)
    PROVE  IInv'
<1>1. /\ q \in Request /\ q.answer \in Answer
      /\ q.answer.plan \in Plan /\ q.answer.followUp \in BOOLEAN
      /\ q.seq \in 1 .. MaxSeq /\ q.dataset \in Dataset
      /\ q.seq = seq /\ q.dataset = selected
  <2>1. q \in Request /\ GoodAnswer(q, q.answer)
    BY DEF IInv, TypeOK, GoodAnswers
  <2>2. q.answer \in Answer /\ q.answer.plan # None
    BY <2>1 DEF GoodAnswer, Show
  <2> QED BY <2>1, <2>2 DEF Answer, Request, Show, Current
<1>2. requests' = requests \ {q}
  BY DEF Show, Settle
<1>3. \A r \in requests' : ~(r.seq = seq /\ r.dataset = selected)
  BY <1>1, <1>2 DEF IInv, Numbered
<1>4. UNCHANGED <<exists, selected, seq, kept>> /\ loading' = FALSE
        /\ enabled' = TRUE /\ context' = ContextOf(q)
  BY DEF Show
<1>5. result' \in Result /\ result'.plan = q.answer.plan
        /\ result'.dataset = q.dataset /\ result' # None
  <2>1. result' = [dataset |-> q.dataset, plan |-> q.answer.plan,
                   followUp |-> q.answer.followUp, seq |-> q.seq]
    BY DEF Show
  <2>2. result' \in Result /\ result'.plan = q.answer.plan
          /\ result'.dataset = q.dataset
    BY <1>1, <2>1 DEF Result
  <2> QED BY <2>2, ResultAssumption
<1>6. ContextOf(q) # None =>
          ContextOf(q) = [dataset |-> q.dataset, plan |-> q.answer.plan]
  BY DEF ContextOf
<1>7. TypeOK'
  <2>1. ContextOf(q) \in Context \cup {None}
    BY <1>1, <1>6 DEF Context
  <2>2. kept' \in BOOLEAN
    BY <1>4, Zenon DEF IInv, TypeOK
  <2> QED BY <1>2, <1>4, <1>5, <2>1, <2>2 DEF IInv, TypeOK
<1>8. ContextMatchesScreen'
  BY <1>1, <1>4, <1>5, <1>6 DEF ContextMatchesScreen
<1>9. BusyMeansWaiting' /\ SentFromScreen'
  BY <1>3, <1>4 DEF BusyMeansWaiting, SentFromScreen, Current
<1>10. Numbered'
  BY <1>2, <1>4 DEF IInv, Numbered
<1>11. GoodAnswers'
  BY <1>2 DEF IInv, GoodAnswers, GoodAnswer
<1> QED BY <1>7, <1>8, <1>9, <1>10, <1>11 DEF IInv

LEMMA DeliverInv ==
    ASSUME IInv, NEW q \in requests, Deliver(q)
    PROVE  IInv'
<1>1. loading \in BOOLEAN /\ kept \in BOOLEAN /\ enabled \in BOOLEAN
  BY Zenon DEF IInv, TypeOK
<1>2. CASE Show(q)
  BY <1>2, ShowInv DEF Deliver
<1>3. CASE ShowError(q)
  <2>1. UNCHANGED <<exists, selected, seq, enabled>> /\ Settle(q)
          /\ Current(q) /\ loading' = FALSE
    BY <1>3 DEF ShowError
  <2>2. UNCHANGED <<result, context>> \/ Blank
    BY <1>3 DEF ShowError
  <2>3. kept' \in BOOLEAN
    <3>1. kept' = kept \/ kept' = (result # None)
      BY <1>3, Zenon DEF ShowError
    <3> QED BY <1>1, <3>1, Zenon
  <2> QED BY <2>1, <2>2, <2>3, SettledInv
<1>4. CASE DropDataset(q) /\ q.dataset = selected
  <2>1. PICK d \in Dataset \cup {None} :
           seq < MaxSeq /\ Remount(d) /\ Settle(q) /\ exists' = exists
    BY <1>4 DEF DropDataset
  <2>2. requests' \subseteq requests
    BY <2>1 DEF Settle
  <2> QED BY <2>1, <2>2, BlankInv DEF Remount, IInv, TypeOK
<1>5. CASE DropDataset(q) /\ q.dataset # selected
  <2>1. UNCHANGED <<exists, selected, seq, panelVars>> /\ Settle(q)
          /\ ~Current(q)
    BY <1>5 DEF DropDataset, Current
  <2> QED BY <1>1, <2>1, SettledInv DEF panelVars
<1> QED BY <1>2, <1>3, <1>4, <1>5 DEF Deliver

LEMMA NextInv == IInv /\ [Next]_vars => IInv'
<1> SUFFICES ASSUME IInv, [Next]_vars PROVE IInv'
  OBVIOUS
<1>1. /\ exists \subseteq Dataset /\ selected \in Dataset \cup {None}
      /\ requests \subseteq Request
  BY DEF IInv, TypeOK
<1>2. loading \in BOOLEAN /\ kept \in BOOLEAN /\ enabled \in BOOLEAN
  BY Zenon DEF IInv, TypeOK
<1>3. CASE Analyze
  BY <1>3, AnalyzeInv
<1>4. CASE UseExample
  <2>1. loading' = FALSE
    BY <1>2, <1>4, Zenon DEF UseExample
  <2> QED BY <1>1, <1>2, <1>4, <2>1, BlankInv DEF UseExample
<1>5. CASE Suggest
  BY <1>1, <1>2, <1>5, BlankInv DEF Suggest
<1>6. CASE Toggle
  <2>1. enabled' \in BOOLEAN
    BY <1>6, Zenon DEF Toggle
  <2> QED BY <1>1, <1>6, <2>1, QuietInv DEF Toggle
<1>7. ASSUME NEW d \in Dataset, Select(d) PROVE IInv'
  BY <1>1, <1>7, BlankInv DEF Select, Remount
<1>8. ASSUME NEW d \in Dataset, Delete(d) PROVE IInv'
  BY <1>1, <1>2, <1>8, QuietInv DEF Delete, panelVars
<1>9. ASSUME NEW q \in requests, Serve(q) PROVE IInv'
  <2>1. PICK a : GoodAnswer(q, a) /\ Answers(q, a)
    BY <1>1, <1>9, ServeAnswers
  <2>2. UNCHANGED <<exists, selected, seq, panelVars>>
    BY <1>9 DEF Serve
  <2> QED BY <2>1, <2>2, AnsweredInv
<1>10. ASSUME NEW q \in requests, Lose(q) PROVE IInv'
  <2>1. PICK a : GoodAnswer(q, a) /\ Answers(q, a)
    BY <1>10, RefuseAnswers DEF Lose, Outcome
  <2>2. UNCHANGED <<exists, selected, seq, panelVars>>
    BY <1>10 DEF Lose
  <2> QED BY <2>1, <2>2, AnsweredInv
<1>11. ASSUME NEW q \in requests, Deliver(q) PROVE IInv'
  BY <1>11, DeliverInv
<1>12. ASSUME NEW q \in requests, Discard(q) PROVE IInv'
  BY <1>2, <1>12, SettledInv DEF Discard, panelVars
<1>13. CASE UNCHANGED vars
  BY <1>1, <1>2, <1>13, QuietInv DEF vars
<1> QED
  BY <1>3, <1>4, <1>5, <1>6, <1>7, <1>8, <1>9, <1>10, <1>11, <1>12, <1>13
     DEF Next, User

\* The inductive invariant holds throughout.
THEOREM Invariance == Spec => []IInv
BY InitInv, NextInv, PTL DEF Spec

-----------------------------------------------------------------------------
(* What follows from it.                                                   *)

\* Type correctness: among other things, no question is ever sent without a
\* dataset, and no context without a plan.
THEOREM TypeCorrect == Spec => []TypeOK
<1>1. IInv => TypeOK
  BY DEF IInv
<1> QED BY <1>1, Invariance, PTL

\* The context a follow-up would send is the plan of the result on screen, for
\* any datasets, plans and numbers of questions.
THEOREM ContextAlwaysMatches == Spec => []ContextMatchesScreen
<1>1. IInv => ContextMatchesScreen
  BY DEF IInv
<1> QED BY <1>1, Invariance, PTL

\* The panel is busy exactly while its request is on its way.
THEOREM BusyCorrect == Spec => []BusyMeansWaiting
<1>1. IInv => BusyMeansWaiting
  BY DEF IInv
<1> QED BY <1>1, Invariance, PTL

\* Execution refuses no plan that validation let through, save one without a
\* metric.
THEOREM ValidationSuffices == Spec => []ValidatedPlansRun
<1>1. IInv => ValidatedPlansRun
  BY DEF IInv, GoodAnswers, GoodAnswer, ValidatedPlansRun, Answered
<1> QED BY <1>1, Invariance, PTL

\* However long the chain of follow-ups, an edited plan is refused for nothing
\* but ranking more groups than a result may have.
THEOREM FollowUpChainsStayValid == Spec => []FollowUpsStayValid
<1>1. IInv => FollowUpsStayValid
  BY DEF IInv, GoodAnswers, GoodAnswer, FollowUpsStayValid, Answered
<1> QED BY <1>1, Invariance, PTL

\* Only the answer to a question shows a new result.
LEMMA OnlyShow ==
    ASSUME [Next]_vars, result' # result, result' # None
    PROVE  \E q \in requests : q.answer # None /\ Show(q)
<1> USE DEF panelVars
<1>1. ~UNCHANGED vars
  BY DEF vars
<1>2. ~User
  BY DEF User, Analyze, UseExample, Suggest, Toggle, Select, Remount, Blank
<1>3. \A d \in Dataset : ~Delete(d)
  BY DEF Delete
<1>4. \A q \in requests : ~Serve(q) /\ ~Lose(q) /\ ~Discard(q)
  BY DEF Serve, Lose, Discard
<1>5. \A q \in requests : ~ShowError(q) /\ ~DropDataset(q)
  BY DEF ShowError, DropDataset, Remount, Blank
<1> QED BY <1>1, <1>2, <1>3, <1>4, <1>5 DEF Next, Deliver

\* The answer to a follow-up edits the result that it replaces.
THEOREM FollowUpsEditTheScreen == Spec => FollowUpEditsTheScreen
<1>1. IInv /\ [Next]_vars =>
          [result' # result /\ result' # None /\ result'.followUp =>
              result # None /\ result'.plan \in Edits(result.plan)]_vars
  <2> SUFFICES ASSUME IInv, [Next]_vars, result' # result, result' # None,
                      result'.followUp
               PROVE  result # None /\ result'.plan \in Edits(result.plan)
    OBVIOUS
  <2>1. PICK q \in requests : q.answer # None /\ Show(q)
    BY OnlyShow
  <2>2. GoodAnswer(q, q.answer)
    BY <2>1 DEF IInv, GoodAnswers
  <2>3. q.answer.followUp /\ result'.plan = q.answer.plan
    BY <2>1 DEF Show
  <2>4. q.context # None /\ q.answer.plan \in Edits(q.context.plan)
    BY <2>2, <2>3 DEF GoodAnswer
  <2>5. q.context = context
    BY <2>1, <2>4 DEF IInv, SentFromScreen, Show
  <2>6. result # None /\ context.plan = result.plan
    BY <2>4, <2>5 DEF IInv, ContextMatchesScreen
  <2> QED BY <2>3, <2>4, <2>5, <2>6
<1> QED BY <1>1, Invariance, PTL DEF Spec, FollowUpEditsTheScreen
=============================================================================
