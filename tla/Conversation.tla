---------------------------- MODULE Conversation ----------------------------
(***************************************************************************)
(* One user asking questions and follow-ups about the selected dataset:    *)
(*                                                                         *)
(*   frontend/src/components/AnalyticsBuilder.vue    the panel             *)
(*   frontend/src/services/followUpContext.js        the context it echoes *)
(*   frontend/src/components/Dashboard.vue           selection, remounting *)
(*   backend/routes/analysis.py                      analyze_dataset       *)
(*                                                                         *)
(* The panel's handlers run on one thread but every answer comes back      *)
(* later, when the panel may have been cleared, refilled or remounted; a   *)
(* request that was aborted may still have an answer on its way.  The      *)
(* server keeps nothing between two questions.  What a planner makes of a  *)
(* text is any plan of Fresh, or nothing.                                  *)
(***************************************************************************)
EXTENDS AnalysisPlans

CONSTANTS
    Dataset,
    Fresh,          \* plans the fast and the AI planner may return
    MaxSeq          \* bound on analysisSeq

ASSUME FreshAssumption == Fresh \subseteq Plan

ASSUME DatasetAssumption == None \notin Dataset /\ MaxSeq \in Nat

VARIABLES
    exists,         \* the datasets the server has
    selected,       \* props.datasetId, or None
    seq,            \* analysisSeq; a remounted panel goes on counting
    loading, result, context, enabled, kept,    \* the panel's refs
    requests        \* analyses whose promise has not settled

vars == <<exists, selected, seq, loading, result, context, enabled, kept, requests>>

\* How the server's answer came about; "lost" is no answer at all.
Outcome == {"ok", "contract", "context", "refused", "clarify", "unplanned",
            "invalid", "execution", "gone", "failed", "lost"}

Unprocessable == {"contract", "refused", "clarify"}     \* the 422s

Answer  == [outcome : Outcome, plan : Plan \cup {None}, followUp : BOOLEAN]
Context == [dataset : Dataset, plan : Plan]
Result  == [dataset : Dataset, plan : Plan, followUp : BOOLEAN, seq : 1 .. MaxSeq]

Request == [seq : 1 .. MaxSeq, dataset : Dataset, context : Context \cup {None},
            answer : Answer \cup {None}]

ASSUME ResultAssumption == None \notin Result

TypeOK ==
    /\ exists \subseteq Dataset
    /\ selected \in Dataset \cup {None}
    /\ seq \in 0 .. MaxSeq
    /\ loading \in BOOLEAN /\ enabled \in BOOLEAN /\ kept \in BOOLEAN
    /\ result  \in Result \cup {None}
    /\ context \in Context \cup {None}
    /\ requests \subseteq Request

Init ==
    /\ exists = Dataset
    /\ selected \in Dataset
    /\ seq = 0
    /\ loading = FALSE
    /\ result = None
    /\ context = None
    /\ enabled = TRUE
    /\ kept = FALSE
    /\ requests = {}

-----------------------------------------------------------------------------
(* The panel.                                                              *)

panelVars == <<loading, result, context, enabled, kept>>

\* selectFollowUpContext
FollowUpContext ==
    IF enabled /\ context # None /\ selected = context.dataset
    THEN context ELSE None

\* Mutant: analyze() does not ask whether a dataset is selected.
AnalyzeNothing ==
    /\ ~loading
    /\ seq < MaxSeq
    /\ seq' = seq + 1
    /\ requests' = requests \cup
          {[seq |-> seq + 1, dataset |-> selected, context |-> FollowUpContext,
            answer |-> None]}
    /\ loading' = TRUE
    /\ kept' = FALSE
    /\ UNCHANGED <<exists, selected, result, context, enabled>>

\* analyze(), up to the await.  The panel keeps what it shows.
Analyze ==
    /\ ~loading
    /\ selected # None
    /\ seq < MaxSeq
    /\ seq' = seq + 1
    /\ requests' = requests \cup
          {[seq |-> seq + 1, dataset |-> selected, context |-> FollowUpContext,
            answer |-> None]}
    /\ loading' = TRUE
    /\ kept' = FALSE
    /\ UNCHANGED <<exists, selected, result, context, enabled>>

Blank == result' = None /\ context' = None

\* Mutant: an example may be picked while an analysis runs.
UseExampleAnytime ==
    /\ Blank
    /\ UNCHANGED <<exists, selected, seq, loading, enabled, kept, requests>>

\* useExample(); clearAnalysis(), whose button is disabled as long, does this
\* and invalidates nothing that is running.
UseExample ==
    /\ ~loading
    /\ Blank
    /\ UNCHANGED <<exists, selected, seq, loading, enabled, kept, requests>>

\* Mutant: the answer of the abandoned question stays current.
SuggestWithoutInvalidating ==
    /\ loading' = FALSE
    /\ Blank
    /\ UNCHANGED <<exists, selected, seq, enabled, kept, requests>>

\* A suggested question comes in from the dashboard, at any time:
\* invalidateAnalysis(), then the panel is blanked.
Suggest ==
    /\ seq < MaxSeq
    /\ seq' = seq + 1
    /\ loading' = FALSE
    /\ Blank
    /\ UNCHANGED <<exists, selected, enabled, kept, requests>>

\* The follow-up checkbox.
Toggle ==
    /\ ~loading
    /\ context # None
    /\ enabled' = ~enabled
    /\ UNCHANGED <<exists, selected, seq, loading, result, context, kept, requests>>

\* The old panel is unmounted (invalidateAnalysis), a new one mounted.
Remount(d) ==
    /\ selected' = d
    /\ seq' = seq + 1
    /\ loading' = FALSE
    /\ Blank
    /\ enabled' = TRUE
    /\ kept' = FALSE

\* Another dataset, possibly one deleted meanwhile, is selected or uploaded.
Select(d) ==
    /\ seq < MaxSeq
    /\ d # selected
    /\ Remount(d)
    /\ UNCHANGED <<exists, requests>>

\* The dataset is deleted from another window.
Delete(d) ==
    /\ exists' = exists \ {d}
    /\ exists' # exists
    /\ UNCHANGED <<selected, seq, panelVars, requests>>

-----------------------------------------------------------------------------
(* The server: analyze_dataset.                                            *)

Reply(q, outcome, plan, followUp) ==
    requests' = (requests \ {q}) \cup
        {[q EXCEPT !.answer = [outcome |-> outcome, plan |-> plan,
                               followUp |-> followUp]]}

Refuse(q, outcome) == Reply(q, outcome, None, FALSE)

\* Validation, execution and everything after it.
RunPlan(q, plan, followUp) ==
    IF ~Valid(plan) THEN Reply(q, "invalid", plan, followUp)
    ELSE IF ~Executable(plan) THEN Reply(q, "execution", plan, followUp)
    ELSE \E outcome \in {"ok", "failed"} : Reply(q, outcome, plan, followUp)

\* The AI planner: a clarification, an error, or a plan.
PlanWithAI(q) ==
    \/ \E outcome \in {"clarify", "unplanned"} : Refuse(q, outcome)
    \/ \E plan \in Fresh : RunPlan(q, plan, FALSE)

\* The fast planner first, then an edit of the previous plan when the question
\* cannot stand alone or refers back, then the AI planner.
AnswerPlanned(q) ==
    \E fast \in Fresh \cup {None}, refersBack \in BOOLEAN :
    \E edit \in (IF q.context = None THEN {} ELSE Edits(q.context.plan)) \cup {None} :
        IF edit # None /\ (fast = None \/ refersBack)
        THEN RunPlan(q, edit, TRUE)
        ELSE IF fast # None THEN RunPlan(q, fast, FALSE)
        ELSE IF q.context # None /\ refersBack THEN Refuse(q, "refused")
        ELSE PlanWithAI(q)

\* The request contract, authorization (or a close under it), the context's
\* dataset and plan, in that order.
Serve(q) ==
    /\ q.answer = None
    /\ IF q.context # None /\ ~Accepted(q.context.plan) THEN Refuse(q, "contract")
       ELSE IF q.dataset \notin exists THEN Refuse(q, "gone")
       ELSE IF q.context # None /\ (q.context.dataset # q.dataset
                                    \/ ~Valid(q.context.plan))
       THEN Refuse(q, "context")
       ELSE AnswerPlanned(q)
    /\ UNCHANGED <<exists, selected, seq, panelVars>>

\* The connection breaks, or the request's own timeout ends it.
Lose(q) ==
    /\ q.answer = None
    /\ Refuse(q, "lost")
    /\ UNCHANGED <<exists, selected, seq, panelVars>>

-----------------------------------------------------------------------------
(* The answer reaches the panel.                                           *)

\* The guards of analyze() after its await.
Current(q) == q.seq = seq /\ q.dataset = selected

Settle(q) == requests' = requests \ {q}

\* buildFollowUpContext
ContextOf(q) ==
    LET plan == q.answer.plan IN
    IF plan.metric # None /\ \A f \in plan.filters : f.value # Opaque
    THEN [dataset |-> q.dataset, plan |-> plan] ELSE None

\* Mutant: the context is only replaced by a usable one.
ShowKeepingContext(q) ==
    /\ q.answer.outcome = "ok"
    /\ Current(q)
    /\ Settle(q)
    /\ result' = [dataset |-> q.dataset, plan |-> q.answer.plan,
                  followUp |-> q.answer.followUp, seq |-> q.seq]
    /\ context' = IF ContextOf(q) = None THEN context ELSE ContextOf(q)
    /\ enabled' = TRUE
    /\ loading' = FALSE
    /\ UNCHANGED <<exists, selected, seq, kept>>

Show(q) ==
    /\ q.answer.outcome = "ok"
    /\ Current(q)
    /\ Settle(q)
    /\ result' = [dataset |-> q.dataset, plan |-> q.answer.plan,
                  followUp |-> q.answer.followUp, seq |-> q.seq]
    /\ context' = ContextOf(q)
    /\ enabled' = TRUE
    /\ loading' = FALSE
    /\ UNCHANGED <<exists, selected, seq, kept>>

\* A rejected follow-up (422) leaves the result and its context, anything else
\* clears both (keepsPreviousAfterError).
ShowError(q) ==
    /\ q.answer.outcome \notin {"ok", "gone"}
    /\ Current(q)
    /\ Settle(q)
    /\ IF q.context # None /\ q.answer.outcome \in Unprocessable
       THEN kept' = (result # None) /\ UNCHANGED <<result, context>>
       ELSE Blank /\ kept' = kept
    /\ loading' = FALSE
    /\ UNCHANGED <<exists, selected, seq, enabled>>

\* A 404, current or not: the dashboard drops the dataset, and selects another
\* one it was compared with, or none.
DropDataset(q) ==
    /\ q.answer.outcome = "gone"
    /\ Settle(q)
    /\ IF q.dataset = selected
       THEN /\ seq < MaxSeq
            /\ \E d \in (Dataset \ {q.dataset}) \cup {None} : Remount(d)
       ELSE UNCHANGED <<selected, seq, panelVars>>
    /\ UNCHANGED exists

\* An answer nobody waits for, or the cancellation of an aborted request.
Discard(q) ==
    /\ ~Current(q)
    /\ Settle(q)
    /\ UNCHANGED <<exists, selected, seq, panelVars>>

Deliver(q) ==
    /\ q.answer # None
    /\ Show(q) \/ ShowError(q) \/ DropDataset(q)

-----------------------------------------------------------------------------
User == Analyze \/ UseExample \/ Suggest \/ Toggle \/ \E d \in Dataset : Select(d)

Next ==
    \/ User
    \/ \E d \in Dataset : Delete(d)
    \/ \E q \in requests : Serve(q) \/ Lose(q) \/ Deliver(q) \/ Discard(q)

Spec == Init /\ [][Next]_vars

-----------------------------------------------------------------------------
(* Properties.                                                             *)

\* "the follow-up context always matches the result on screen": whatever is
\* cleared, replaced, refused or answered late, the context a follow-up would
\* send is the plan of the result that is shown, of the selected dataset.
ContextMatchesScreen ==
    context # None =>
        /\ result # None
        /\ context.plan = result.plan
        /\ context.dataset = result.dataset /\ result.dataset = selected

\* A follow-up's answer is one edit away from the result it replaces: it was
\* applied to what the user was looking at, not to an earlier result.
FollowUpEditsTheScreen ==
    [][result' # result /\ result' # None /\ result'.followUp =>
          result # None /\ result'.plan \in Edits(result.plan)]_vars

\* The panel is busy exactly while the request it waits for is on its way: it
\* never stays busy for nothing, nor lets a second question overtake.
BusyMeansWaiting == loading <=> \E q \in requests : Current(q)

Answered(outcome) ==
    {q \in requests : q.answer # None /\ q.answer.outcome = outcome}

\* What validation lets through, execution does not refuse, save a plan without
\* a metric, which only execution asks for.
ValidatedPlansRun ==
    \A q \in Answered("execution") : q.answer.plan.metric = None

\* A follow-up edits a valid plan into a valid one, through any chain of edits:
\* only a ranking of more groups than a result may have is refused.
FollowUpsStayValid ==
    \A q \in Answered("invalid") : q.answer.followUp =>
        q.answer.plan.limit # None /\ q.answer.plan.limit > MaxRows

\* followUpContext.js: "null when the response cannot be a follow-up base" - so
\* the server takes every other one.
ContextIsAccepted == Answered("contract") = {}
=============================================================================
