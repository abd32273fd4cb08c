---------------------------- MODULE GraphWorkflow ----------------------------
(***************************************************************************)
(* One thread of graph/workflow.py: the flow of the four roles as a graph  *)
(* whose nodes run one after another.  What a node returns is checkpointed *)
(* when it ends, so a node that raises or dies with its process has        *)
(* changed nothing and is run again.  interrupt() in ask and await_review  *)
(* stops the thread until it is resumed with the user's answer.            *)
(***************************************************************************)
EXTENDS Integers, Sequences, FiniteSets

CONSTANTS
    Item,           \* work items
    MaxAttempts,    \* GraphDeps.max_attempts
    MaxGraphStages, \* bound: stages of the thread's plan
    MaxStarts,      \* bound: requests started on the thread
    MaxAnswers,     \* bound: questions answered and stages sent back
    MaxGraphFaults  \* bound: nodes that fail or are cut off

\* Contracts are sets of items, and {"none"} stands for having none.
ASSUME ItemAssumption == "none" \notin Item

ASSUME GraphBounds ==
    /\ MaxAttempts \in Nat \ {0} /\ MaxGraphStages \in Nat \ {0}
    /\ MaxStarts \in Nat /\ MaxAnswers \in Nat /\ MaxGraphFaults \in Nat

VARIABLES
    plan,     \* GraphState.plan
    thread,   \* the rest of GraphState that edges and nodes read, and the next node
    running,  \* an ainvoke of the thread is in progress
    counts,   \* the bounded counters: starts, answers, faults
    owed      \* history: stages sent back whose contract is not rewritten yet

graphVars == <<plan, thread, running, counts, owed>>

\* A ref names the work item it is for, or none.
GraphRef == Item \cup {"unasked"}

GraphPlan == INSTANCE Plan WITH
    doc <- plan, Contract <- SUBSET Item, NoContract <- {"none"}, Ref <- GraphRef,
    Question <- {}, MaxStages <- MaxGraphStages, MaxRevision <- 0

NodeName ==
    {"route", "direct", "plan", "ask", "present_review", "await_review", "execute", "finish", "END"}

\* deps.submit or a node body raises, the process dies, or the run is cut off.
NodeFails ==
    /\ counts.faults < MaxGraphFaults
    /\ running /\ running' = FALSE
    /\ counts' = [counts EXCEPT !.faults = @ + 1]
    /\ UNCHANGED <<plan, thread, owed>>

\* The thread is invoked again where it stopped.
Rerun ==
    /\ ~running /\ thread.node \notin {"ask", "await_review", "END"}
    /\ running' = TRUE
    /\ UNCHANGED <<plan, thread, counts, owed>>

\* start_thread: from START, with whatever state an earlier request left.
StartThread ==
    /\ ~running /\ counts.starts < MaxStarts
    /\ running' = TRUE
    /\ thread' = [thread EXCEPT !.node = "route"]
    /\ counts' = [counts EXCEPT !.starts = @ + 1]
    /\ UNCHANGED <<plan, owed>>

-----------------------------------------------------------------------------
(* The nodes, each with its outgoing edges.                                 *)

At(n) == running /\ thread.node = n

Goes(n) == thread' = [thread EXCEPT !.node = n]

Route ==
    /\ At("route")
    /\ \E n \in {"direct", "plan"} : Goes(n)
    /\ UNCHANGED <<plan, running, counts, owed>>

Direct ==
    /\ At("direct") /\ Goes("END") /\ running' = FALSE
    /\ UNCHANGED <<plan, counts, owed>>

Revising == thread.review # 0 /\ thread.feedback

FeedbackWhileAsking_Cleared == FALSE

\* The Planner's questions leave everything else of the state as it is.
FeedbackWhileAsking == thread.feedback

PlanAsks ==
    /\ At("plan")
    /\ thread' = [thread EXCEPT !.node = "ask", !.feedback = FeedbackWhileAsking]
    /\ UNCHANGED <<plan, running, counts, owed>>

DraftStage(o, items) ==
    [order |-> o, state |-> "pending", contract |-> items, refs |-> {},
     review_kind |-> GraphPlan!NoKind, questions |-> {}, approved |-> FALSE, attempts |-> 0]

Drafts == UNION {[1 .. n -> SUBSET Item] : n \in 0 .. MaxGraphStages - Len(plan.stages)}

\* A revision rewrites the stage under review (and raises if the submission
\* has no stage: NodeFails); otherwise the stages are added.
PlanNode ==
    /\ At("plan")
    /\ thread' = [thread EXCEPT !.node = "present_review", !.feedback = FALSE]
    /\ IF Revising
       THEN /\ \E items \in SUBSET Item :
                  plan' = [plan EXCEPT !.stages[thread.review].contract = items]
            /\ owed' = owed \ {thread.review}
       ELSE /\ \E drafts \in Drafts :
                  plan' = [plan EXCEPT !.stages = @ \o
                             [i \in DOMAIN drafts |-> DraftStage(Len(@) + i, drafts[i])]]
            /\ UNCHANGED owed
    /\ UNCHANGED <<running, counts>>

\* interrupt(): the thread waits, and resume_thread goes on from the node.
Interrupt ==
    /\ running /\ thread.node \in {"ask", "await_review"}
    /\ running' = FALSE
    /\ UNCHANGED <<plan, thread, counts, owed>>

Resumed(n) == ~running /\ thread.node = n /\ running' = TRUE

Ask ==
    /\ Resumed("ask") /\ counts.answers < MaxAnswers
    /\ Goes("plan")
    /\ counts' = [counts EXCEPT !.answers = @ + 1]
    /\ UNCHANGED <<plan, owed>>

Reviewable ==
    {s \in DOMAIN plan.stages :
        \/ plan.stages[s].state = "pending"
        \/ plan.stages[s].state = "waiting_user" /\ plan.stages[s].review_kind = "plan_review"}

\* The first stage to review is presented; without one the thread finishes.
PresentReview ==
    /\ At("present_review")
    /\ \/ /\ Reviewable = {}
          /\ thread' = [thread EXCEPT !.node = "finish", !.review = 0]
          /\ UNCHANGED plan
       \/ \E s \in Reviewable :
            /\ \A t \in Reviewable : GraphPlan!Precedes(plan, s, t)
            /\ thread' = [thread EXCEPT !.node = "await_review", !.review = s]
            /\ plan' = [plan EXCEPT !.stages[s].state = "waiting_user",
                                    !.stages[s].review_kind = "plan_review"]
    /\ UNCHANGED <<running, counts, owed>>

SendBack ==
    /\ Resumed("await_review") /\ counts.answers < MaxAnswers
    /\ thread' = [thread EXCEPT !.node = "plan", !.feedback = TRUE]
    /\ counts' = [counts EXCEPT !.answers = @ + 1]
    /\ owed' = owed \cup {thread.review}
    /\ UNCHANGED plan

Approve ==
    LET stage == plan.stages[thread.review] IN
    /\ Resumed("await_review")
    /\ GraphPlan!CheckTransition(stage, "doing", TRUE, GraphPlan!NoKind)
    /\ plan' = [plan EXCEPT !.stages[thread.review] =
                   GraphPlan!Moved(stage, "doing", TRUE, GraphPlan!NoKind, {})]
    /\ thread' = [thread EXCEPT !.node = "execute", !.feedback = FALSE]
    /\ UNCHANGED <<counts, owed>>

Unfinished(stage) == stage.contract \ stage.refs

\* The refs the Executor submitted are added and the attempt is counted.
Attempted(stage, refs) == [stage EXCEPT !.refs = @ \cup refs, !.attempts = @ + 1]

\* Done, blocked after the last attempt, or tried again.
Outcome(stage) ==
    IF Unfinished(stage) = {} THEN "done"
    ELSE IF stage.attempts >= MaxAttempts THEN "blocked" ELSE "doing"

AfterExecute_DoneOnly(stage) ==
    IF stage.state = "doing" THEN "execute"
    ELSE IF stage.state = "done" /\ \E s \in DOMAIN plan.stages : plan.stages[s].state = "pending"
    THEN "present_review" ELSE "finish"

\* _after_execute: the stage again, the next pending one, or the end.
AfterExecute(stage) ==
    IF stage.state = "doing" THEN "execute"
    ELSE IF \E s \in DOMAIN plan.stages : plan.stages[s].state = "pending"
    THEN "present_review" ELSE "finish"

Refused_Never(stage) == FALSE

\* check_transition refuses to finish a stage that has produced nothing (its
\* contract has no work items, or they were never looked at): the node raises.
Refused(stage) == stage.state = "done" /\ stage.refs = {}

Execute ==
    /\ At("execute")
    /\ \E refs \in SUBSET GraphRef :
         LET tried == Attempted(plan.stages[thread.review], refs)
             stage == [tried EXCEPT !.state = Outcome(tried)]
         IN
         IF Refused(stage)
         THEN running' = FALSE /\ UNCHANGED <<plan, thread>>
         ELSE /\ plan' = [plan EXCEPT !.stages[thread.review] = stage]
              /\ thread' = [thread EXCEPT
                    !.node = AfterExecute(stage),
                    !.review = IF stage.state = "doing" THEN @ ELSE 0]
              /\ UNCHANGED running
    /\ UNCHANGED <<counts, owed>>

Finish ==
    /\ At("finish") /\ Goes("END") /\ running' = FALSE
    /\ UNCHANGED <<plan, counts, owed>>

-----------------------------------------------------------------------------
GraphInit ==
    /\ plan = GraphPlan!NewPlan
    /\ thread = [node |-> "END", review |-> 0, feedback |-> FALSE]
    /\ running = FALSE
    /\ counts = [starts |-> 0, answers |-> 0, faults |-> 0]
    /\ owed = {}

Node ==
    \/ Route \/ Direct \/ PlanAsks \/ PlanNode \/ PresentReview
    \/ Interrupt \/ Execute \/ Finish

GraphNext ==
    \/ Node
    \/ StartThread \/ Ask \/ SendBack \/ Approve
    \/ NodeFails \/ Rerun

\* ainvoke runs node after node until an interrupt, an exception or END.
GraphFairness == WF_graphVars(Node)

GraphSpec == GraphInit /\ [][GraphNext]_graphVars /\ GraphFairness

-----------------------------------------------------------------------------
(* What the graph promises.                                                 *)

GraphTypeOK ==
    /\ \A s \in DOMAIN plan.stages :
          /\ plan.stages[s].state \in GraphPlan!StageState
          /\ plan.stages[s].contract \in SUBSET Item
          /\ plan.stages[s].attempts \in 0 .. MaxAttempts
    /\ thread.node \in NodeName
    /\ thread.review \in 0 .. Len(plan.stages)
    /\ owed \subseteq DOMAIN plan.stages

\* "What did not move: the stage state machine": the gate, the results rule,
\* the review fields and the undisturbed execution of Plan hold of the graph's
\* plan too, with nodes that are cut off and run again and threads started anew.
GraphKeepsPlan ==
    /\ [](GraphPlan!ExecutedOnlyIfApproved /\ GraphPlan!FinishedOnlyWithResults)
    /\ []GraphPlan!ReviewFieldsMatchState
    /\ GraphPlan!ExecutionIsUndisturbed
    /\ GraphPlan!TerminalStagesAreFrozen

\* A stage sent back with feedback is not executed before the Planner has
\* rewritten it: the feedback survives the Planner's own questions, failed
\* nodes, and another request started on the thread.
SentBackIsRewritten == \A s \in owed : plan.stages[s].state = "waiting_user"

\* Every invocation ends, retries being bounded, and a first request that ends
\* leaves no stage behind: each is done, or blocked.
InvocationsEnd ==
    /\ running ~> ~running
    /\ [](thread.node = "END" /\ counts.starts = 1 =>
             \A s \in DOMAIN plan.stages : plan.stages[s].state \in {"done", "blocked"})
=============================================================================
