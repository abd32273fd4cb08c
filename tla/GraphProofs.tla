----------------------------- MODULE GraphProofs -----------------------------
(***************************************************************************)
(* Theorems of GraphWorkflow, for any work items and bounds: a thread with *)
(* nodes that fail or are cut off, questions, stages sent back and         *)
(* requests started anew.                                                  *)
(***************************************************************************)
EXTENDS GraphWorkflow, SequenceTheorems, TLAPS

-----------------------------------------------------------------------------
(* The inductive invariant.                                                 *)

GraphStage ==
    [order : Nat, state : GraphPlan!StageState, contract : SUBSET Item, refs : SUBSET GraphRef,
     review_kind : {"plan_review", GraphPlan!NoKind}, questions : {{}}, approved : BOOLEAN,
     attempts : 0 .. MaxAttempts]

GraphDocument == [revision : Nat, stages : Seq(GraphStage), open_questions : {{}}]

\* One stage: what its state says of the review, the approval and the attempts.
StageKept(stage) ==
    /\ stage.review_kind = "plan_review" <=> stage.state = "waiting_user"
    /\ stage.state \in {"pending", "waiting_user"} => stage.refs = {} /\ stage.attempts = 0
    /\ stage.state \in {"doing", "blocked", "done"} => stage.approved
    /\ stage.state = "doing" => stage.attempts < MaxAttempts
    /\ stage.state = "done" => stage.refs # {}
    /\ stage.state # "omitted"

WellKept(stage) == stage \in GraphStage /\ StageKept(stage)

\* review names a stage in this state.
UnderReview(state) == thread.review # 0 /\ plan.stages[thread.review].state = state

\* The thread: where it stands says how the stage under review is, and feedback
\* is pending only for a stage that waits, which is the one that is owed.
ThreadKept ==
    /\ thread \in [node : NodeName, review : 0 .. Len(plan.stages), feedback : BOOLEAN]
    /\ thread.node = "await_review" => UnderReview("waiting_user")
    /\ thread.node = "execute" => UnderReview("doing")
    /\ thread.feedback =>
          /\ UnderReview("waiting_user")
          /\ thread.node \in {"plan", "ask", "route", "direct", "END"}
    /\ owed = IF thread.feedback THEN {thread.review} ELSE {}

PlanKept ==
    plan \in GraphDocument /\ \A s \in DOMAIN plan.stages : StageKept(plan.stages[s])

GraphInv == PlanKept /\ ThreadKept

-----------------------------------------------------------------------------
(* Lemmas about the plan's stages.                                          *)

\* The plan with one stage written: the others are what they were.
OneWritten(s, stage) ==
    /\ PlanKept'
    /\ DOMAIN plan'.stages = DOMAIN plan.stages /\ Len(plan'.stages) = Len(plan.stages)
    /\ \A t \in DOMAIN plan.stages :
          plan'.stages[t] = IF t = s THEN stage ELSE plan.stages[t]

\* Writing one stage that is in order keeps the plan in order.
LEMMA WrittenStage ==
    ASSUME PlanKept, NEW s \in DOMAIN plan.stages, NEW stage, WellKept(stage),
           plan' = [plan EXCEPT !.stages[s] = stage]
    PROVE  OneWritten(s, stage)
  <1>1. plan \in GraphDocument /\ plan.stages \in Seq(GraphStage) /\ stage \in GraphStage
    BY DEF PlanKept, GraphDocument, WellKept
  <1> DEFINE q == [plan.stages EXCEPT ![s] = stage]
  <1>2. /\ q \in Seq(GraphStage) /\ DOMAIN q = DOMAIN plan.stages /\ Len(q) = Len(plan.stages)
        /\ \A t \in DOMAIN plan.stages : q[t] = IF t = s THEN stage ELSE plan.stages[t]
    BY <1>1
  <1>3. plan' = [plan EXCEPT !.stages = q]
    BY <1>1 DEF GraphDocument
  <1> HIDE DEF q
  <1>4. plan' \in GraphDocument /\ plan'.stages = q
    BY <1>1, <1>2, <1>3 DEF GraphDocument
  <1>5. \A t \in DOMAIN q : StageKept(q[t])
    BY <1>2 DEF PlanKept, WellKept
  <1> QED
    BY <1>2, <1>4, <1>5 DEF OneWritten, PlanKept

\* A stage of the plan.
LEMMA StageOfPlan ==
    ASSUME PlanKept, NEW s \in DOMAIN plan.stages
    PROVE  WellKept(plan.stages[s])
  BY DEF PlanKept, GraphDocument, WellKept

\* The position under review is one of the plan.
LEMMA ReviewInPlan ==
    ASSUME PlanKept, thread.review \in 0 .. Len(plan.stages), thread.review # 0
    PROVE  thread.review \in DOMAIN plan.stages
  BY DEF PlanKept, GraphDocument

\* A rewritten contract.
LEMMA RewrittenKept ==
    ASSUME NEW stage, WellKept(stage), NEW items \in SUBSET Item
    PROVE  WellKept([stage EXCEPT !.contract = items])
  BY DEF WellKept, StageKept, GraphStage

\* A stage presented for its plan review.
LEMMA PresentedKept ==
    ASSUME NEW stage, WellKept(stage), stage.state \in {"pending", "waiting_user"}
    PROVE  WellKept([stage EXCEPT !.state = "waiting_user", !.review_kind = "plan_review"])
  <1> DEFINE s1 == [stage EXCEPT !.state = "waiting_user"]
             s2 == [s1 EXCEPT !.review_kind = "plan_review"]
  <1>1. s1 \in GraphStage
    BY DEF WellKept, GraphStage, GraphPlan!StageState
  <1>2. /\ s1.state = "waiting_user" /\ s1.refs = stage.refs /\ s1.attempts = stage.attempts
    BY DEF WellKept, GraphStage
  <1> HIDE DEF s1
  <1>3. s2 \in GraphStage
    BY <1>1 DEF GraphStage
  <1>4. /\ s2.state = "waiting_user" /\ s2.refs = stage.refs /\ s2.attempts = stage.attempts
        /\ s2.review_kind = "plan_review"
    BY <1>1, <1>2 DEF GraphStage
  <1> HIDE DEF s2
  <1>5. WellKept(s2)
    BY <1>3, <1>4 DEF WellKept, StageKept
  <1> QED
    BY <1>5 DEF s1, s2

\* The stage that an approval starts.
ApprovedStage(stage) == GraphPlan!Moved(stage, "doing", TRUE, GraphPlan!NoKind, {})

\* An approval of a stage that waits for its plan review starts it.
LEMMA ApprovedKept ==
    ASSUME NEW stage, WellKept(stage), stage.state = "waiting_user"
    PROVE  /\ WellKept(ApprovedStage(stage))
           /\ ApprovedStage(stage).state = "doing"
           /\ ApprovedStage(stage).contract = stage.contract
           /\ ApprovedStage(stage).refs = stage.refs
  <1> DEFINE s2 == ApprovedStage(stage)
  <1>1. /\ stage \in GraphStage /\ stage.review_kind = "plan_review" /\ stage.attempts = 0
        /\ stage.refs = {} /\ 0 < MaxAttempts
    BY GraphBounds DEF WellKept, StageKept
  <1>2. s2 = [stage EXCEPT !.state = "doing", !.review_kind = GraphPlan!NoKind,
                           !.questions = {}, !.approved = TRUE]
    BY <1>1 DEF ApprovedStage, GraphPlan!Moved, GraphStage
  <1>3. s2 = [order |-> stage.order, state |-> "doing", contract |-> stage.contract,
              refs |-> stage.refs, review_kind |-> GraphPlan!NoKind, questions |-> {},
              approved |-> TRUE, attempts |-> stage.attempts]
    BY <1>1, <1>2 DEF GraphStage
  <1> HIDE DEF s2
  <1>4. s2 \in GraphStage
    BY <1>1, <1>3 DEF GraphStage, GraphPlan!StageState
  <1>5. StageKept(s2)
    BY <1>1, <1>3 DEF StageKept, GraphPlan!NoKind
  <1> QED
    BY <1>3, <1>4, <1>5 DEF s2, WellKept

\* The stage after an attempt of the Executor.
AttemptedStage(stage, refs) ==
    [Attempted(stage, refs) EXCEPT !.state = Outcome(Attempted(stage, refs))]

\* An attempt that check_transition does not refuse.
LEMMA AttemptedKept ==
    ASSUME NEW stage, WellKept(stage), stage.state = "doing", NEW refs \in SUBSET GraphRef,
           ~Refused(AttemptedStage(stage, refs))
    PROVE  /\ WellKept(AttemptedStage(stage, refs))
           /\ AttemptedStage(stage, refs).contract = stage.contract
           /\ stage.refs \subseteq AttemptedStage(stage, refs).refs
           /\ AttemptedStage(stage, refs).state # "waiting_user"
  <1> DEFINE tried == Attempted(stage, refs)
             s2 == AttemptedStage(stage, refs)
             r == stage.refs \cup refs
             n == stage.attempts + 1
             o == Outcome(tried)
  <1>1. /\ stage \in GraphStage /\ StageKept(stage) /\ stage.approved = TRUE
        /\ stage.review_kind = GraphPlan!NoKind
        /\ stage.attempts < MaxAttempts /\ n \in 0 .. MaxAttempts
    BY GraphBounds DEF WellKept, StageKept, GraphStage
  <1>2. tried = [order |-> stage.order, state |-> stage.state, contract |-> stage.contract,
                 refs |-> r, review_kind |-> stage.review_kind, questions |-> stage.questions,
                 approved |-> stage.approved, attempts |-> n]
    <2> DEFINE t1 == [stage EXCEPT !.refs = r]
    <2>1. tried = [t1 EXCEPT !.attempts = n]
      BY <1>1 DEF Attempted, GraphStage
    <2> HIDE DEF tried, r, n
    <2>2. t1 = [order |-> stage.order, state |-> stage.state, contract |-> stage.contract,
                refs |-> r, review_kind |-> stage.review_kind, questions |-> stage.questions,
                approved |-> stage.approved, attempts |-> stage.attempts]
      BY <1>1 DEF GraphStage
    <2> HIDE DEF t1
    <2> QED
      BY <2>1, <2>2
  <1>3. /\ o \in {"done", "blocked", "doing"}
        /\ o = "doing" => n < MaxAttempts
    <2>1. tried.attempts = n
      BY <1>2
    <2> HIDE DEF tried, n
    <2> QED
      BY <1>1, <2>1, GraphBounds DEF Outcome
  <1>4. s2 = [tried EXCEPT !.state = o]
    BY DEF AttemptedStage
  <1> HIDE DEF tried, o, s2
  <1>5. s2 = [order |-> stage.order, state |-> o, contract |-> stage.contract,
              refs |-> r, review_kind |-> stage.review_kind, questions |-> stage.questions,
              approved |-> stage.approved, attempts |-> n]
    BY <1>2, <1>4
  <1>6. o = "done" => r # {}
    BY <1>5 DEF Refused, s2
  <1> HIDE DEF r, n
  <1>7. s2 \in GraphStage
    <2>1. r \in SUBSET GraphRef
      BY <1>1 DEF r, GraphStage
    <2> QED
      BY <1>1, <1>3, <1>5, <2>1 DEF GraphStage, GraphPlan!StageState
  <1>8. StageKept(s2)
    BY <1>1, <1>3, <1>5, <1>6 DEF StageKept, GraphPlan!NoKind
  <1> QED
    BY <1>3, <1>5, <1>7, <1>8 DEF s2, WellKept, r

-----------------------------------------------------------------------------
(* The invariant is kept by every step.                                     *)

\* The plan as it was.
SamePlan == plan' = plan

\* A step that leaves the plan alone keeps it in order.
LEMMA SamePlanKept ==
    ASSUME PlanKept, SamePlan
    PROVE  PlanKept'
  BY DEF PlanKept, SamePlan

\* A request starts on the thread, from wherever it stands.
LEMMA StartThreadStep ==
    ASSUME GraphInv, StartThread
    PROVE  GraphInv'
  <1>1. PlanKept'
    BY SamePlanKept DEF GraphInv, StartThread, SamePlan
  <1>2. ThreadKept'
    BY DEF GraphInv, ThreadKept, StartThread, NodeName, UnderReview
  <1> QED
    BY <1>1, <1>2 DEF GraphInv

\* The nodes and the answers that leave the plan alone.
LEMMA SamePlanStep ==
    ASSUME GraphInv,
           Route \/ Direct \/ PlanAsks \/ Interrupt \/ Finish \/ Ask \/ NodeFails \/ Rerun
    PROVE  GraphInv'
  <1>1. plan' = plan /\ owed' = owed
    BY DEF Route, Direct, PlanAsks, Interrupt, Finish, Ask, NodeFails, Rerun
  <1>2. thread \in [node : NodeName, review : 0 .. Len(plan.stages), feedback : BOOLEAN]
    BY DEF GraphInv, ThreadKept
  <1>3. \/ thread' = thread
        \/ /\ thread.node \in {"route", "plan", "ask"}
           /\ \E n \in {"direct", "plan", "ask"} : thread' = [thread EXCEPT !.node = n]
        \/ /\ thread.node \in {"direct", "finish"}
           /\ thread' = [thread EXCEPT !.node = "END"]
    <2>1. CASE PlanAsks
      <3>1. thread' = [thread EXCEPT !.node = "ask"] /\ thread.node = "plan"
        BY <1>2, <2>1 DEF PlanAsks, FeedbackWhileAsking, At
      <3> QED
        BY <3>1
    <2>2. CASE Route \/ Direct \/ Finish \/ Ask
      BY <2>2 DEF Route, Direct, Finish, Ask, At, Goes, Resumed
    <2>3. CASE Interrupt \/ NodeFails \/ Rerun
      BY <2>3 DEF Interrupt, NodeFails, Rerun
    <2> QED
      BY <2>1, <2>2, <2>3
  <1>4. ThreadKept'
    BY <1>1, <1>2, <1>3 DEF GraphInv, ThreadKept, UnderReview, NodeName
  <1> QED
    BY <1>1, <1>4, SamePlanKept DEF GraphInv, SamePlan

\* The stages that the Planner adds.
DraftStages(n, drafts) == [i \in DOMAIN drafts |-> DraftStage(n + i, drafts[i])]

\* A plan with the Planner's stages added: those that were there are what they were.
LEMMA DraftedPlan ==
    ASSUME PlanKept, NEW k \in Nat, NEW drafts \in [1 .. k -> SUBSET Item],
           plan' = [plan EXCEPT !.stages = @ \o DraftStages(Len(@), drafts)]
    PROVE  /\ PlanKept'
           /\ DOMAIN plan.stages \subseteq DOMAIN plan'.stages
           /\ Len(plan.stages) \in Nat /\ Len(plan'.stages) \in Nat
           /\ Len(plan.stages) <= Len(plan'.stages)
           /\ \A t \in DOMAIN plan.stages : plan'.stages[t] = plan.stages[t]
  <1> DEFINE old == plan.stages
             new == DraftStages(Len(old), drafts)
             q == old \o new
  <1>1. plan \in GraphDocument /\ old \in Seq(GraphStage) /\ Len(old) \in Nat
    BY DEF PlanKept, GraphDocument
  <1>2. ASSUME NEW i \in 1 .. k PROVE WellKept(new[i])
    <2>1. new[i] = DraftStage(Len(old) + i, drafts[i])
      BY DEF DraftStages
    <2>2. DraftStage(Len(old) + i, drafts[i]) \in GraphStage
      BY <1>1, GraphBounds DEF DraftStage, GraphStage, GraphPlan!StageState, GraphPlan!NoKind
    <2>3. StageKept(DraftStage(Len(old) + i, drafts[i]))
      BY DEF DraftStage, StageKept, GraphPlan!NoKind
    <2> QED
      BY <2>1, <2>2, <2>3 DEF WellKept
  <1>3. new \in [1 .. k -> GraphStage]
    BY <1>2 DEF DraftStages, WellKept
  <1> HIDE DEF new
  <1>4. new \in Seq(GraphStage) /\ Len(new) = k
    BY <1>3
  <1> HIDE DEF old
  <1>5. /\ q \in Seq(GraphStage) /\ Len(q) = Len(old) + k
        /\ DOMAIN old = 1 .. Len(old) /\ DOMAIN q = 1 .. Len(q)
        /\ \A t \in 1 .. Len(q) : q[t] = IF t <= Len(old) THEN old[t] ELSE new[t - Len(old)]
    BY <1>1, <1>4, ConcatProperties
  <1>6. \A t \in DOMAIN old : t \in DOMAIN q /\ q[t] = old[t]
    BY <1>1, <1>5
  <1>7. \A t \in DOMAIN q : StageKept(q[t])
    <2> TAKE t \in DOMAIN q
    <2>1. CASE t <= Len(old)
      <3>1. t \in DOMAIN old /\ q[t] = old[t]
        BY <1>1, <1>5, <2>1
      <3> QED
        BY <3>1 DEF PlanKept, old
    <2>2. CASE ~(t <= Len(old))
      <3>1. t - Len(old) \in 1 .. k /\ q[t] = new[t - Len(old)]
        BY <1>1, <1>5, <2>2
      <3> QED
        BY <1>2, <3>1 DEF WellKept
    <2> QED
      BY <2>1, <2>2
  <1>8. plan' = [plan EXCEPT !.stages = q]
    BY <1>1 DEF old, new
  <1> HIDE DEF q
  <1>9. plan' \in GraphDocument /\ plan'.stages = q
    BY <1>1, <1>5, <1>8 DEF GraphDocument
  <1>10. PlanKept'
    BY <1>7, <1>9 DEF PlanKept
  <1>11. Len(q) \in Nat /\ Len(old) <= Len(q)
    BY <1>1, <1>5
  <1> QED
    BY <1>1, <1>6, <1>9, <1>10, <1>11 DEF old

\* The Planner revises the stage under review, which waits.
Revises(items) ==
    /\ thread.feedback /\ thread.review \in DOMAIN plan.stages
    /\ plan.stages[thread.review].state = "waiting_user"
    /\ OneWritten(thread.review, [plan.stages[thread.review] EXCEPT !.contract = items])

\* The Planner's submission rewrites the stage that waits, or adds stages.
LEMMA PlanNodeWrites ==
    ASSUME GraphInv, PlanNode
    PROVE  \/ /\ owed' = owed \ {thread.review}
              /\ \E items \in SUBSET Item : Revises(items)
           \/ /\ owed' = owed /\ ~thread.feedback
              /\ \E k \in Nat : \E drafts \in [1 .. k -> SUBSET Item] :
                    plan' = [plan EXCEPT !.stages = @ \o DraftStages(Len(@), drafts)]
  <1>1. /\ PlanKept /\ thread.review \in 0 .. Len(plan.stages) /\ thread.feedback \in BOOLEAN
        /\ thread.feedback => UnderReview("waiting_user")
    BY DEF GraphInv, ThreadKept
  <1>2. CASE Revising
    <2>1. PICK items \in SUBSET Item : plan' = [plan EXCEPT !.stages[thread.review].contract = items]
      BY <1>2 DEF PlanNode
    <2>2. /\ thread.review \in DOMAIN plan.stages /\ thread.feedback
          /\ plan.stages[thread.review].state = "waiting_user"
      BY <1>1, <1>2, ReviewInPlan DEF Revising, UnderReview
    <2> DEFINE stage == [plan.stages[thread.review] EXCEPT !.contract = items]
    <2>3. WellKept(stage)
      BY <1>1, <2>2, StageOfPlan, RewrittenKept
    <2>4. plan' = [plan EXCEPT !.stages[thread.review] = stage]
      BY <1>1, <2>1, <2>2
    <2>5. OneWritten(thread.review, stage)
      <3> HIDE DEF stage
      <3> QED
        BY <1>1, <2>2, <2>3, <2>4, WrittenStage
    <2> QED
      BY <1>2, <2>2, <2>5 DEF PlanNode, Revises
  <1>3. CASE ~Revising
    <2>1. ~thread.feedback
      BY <1>1, <1>3 DEF Revising, UnderReview
    <2>2. PICK drafts \in Drafts :
             plan' = [plan EXCEPT !.stages = @ \o
                        [i \in DOMAIN drafts |-> DraftStage(Len(@) + i, drafts[i])]]
      BY <1>3 DEF PlanNode
    <2>3. PICK k \in Nat : drafts \in [1 .. k -> SUBSET Item]
      <3>1. PICK n \in 0 .. MaxGraphStages - Len(plan.stages) : drafts \in [1 .. n -> SUBSET Item]
        BY DEF Drafts
      <3>2. n \in Nat
        OBVIOUS
      <3> QED
        BY <3>1, <3>2
    <2>4. plan' = [plan EXCEPT !.stages = @ \o DraftStages(Len(@), drafts)]
      BY <2>2 DEF DraftStages
    <2> QED
      BY <1>3, <2>1, <2>3, <2>4 DEF PlanNode
  <1> QED
    BY <1>2, <1>3

\* The Planner's submission.
LEMMA PlanNodeStep ==
    ASSUME GraphInv, PlanNode
    PROVE  GraphInv'
  <1>1. /\ thread \in [node : NodeName, review : 0 .. Len(plan.stages), feedback : BOOLEAN]
        /\ owed = IF thread.feedback THEN {thread.review} ELSE {}
        /\ PlanKept
    BY DEF GraphInv, ThreadKept
  <1>2. thread' = [thread EXCEPT !.node = "present_review", !.feedback = FALSE]
    BY DEF PlanNode
  <1>3. CASE owed' = owed \ {thread.review} /\ \E items \in SUBSET Item : Revises(items)
    <2>1. PICK items \in SUBSET Item : Revises(items)
      BY <1>3
    <2>2. PlanKept' /\ Len(plan'.stages) = Len(plan.stages) /\ owed' = {}
      BY <1>1, <1>3, <2>1 DEF Revises, OneWritten
    <2> QED
      BY <1>1, <1>2, <2>2 DEF GraphInv, ThreadKept, NodeName
  <1>4. CASE /\ owed' = owed /\ ~thread.feedback
             /\ \E k \in Nat : \E drafts \in [1 .. k -> SUBSET Item] :
                   plan' = [plan EXCEPT !.stages = @ \o DraftStages(Len(@), drafts)]
    <2>1. /\ PlanKept' /\ Len(plan.stages) \in Nat /\ Len(plan'.stages) \in Nat
          /\ Len(plan.stages) <= Len(plan'.stages) /\ owed' = {}
      BY <1>1, <1>4, DraftedPlan
    <2>2. thread.review \in 0 .. Len(plan'.stages)
      BY <1>1, <2>1
    <2>3. thread' \in [node : NodeName, review : 0 .. Len(plan'.stages), feedback : BOOLEAN]
      BY <1>1, <1>2, <2>2 DEF NodeName
    <2> QED
      BY <1>1, <1>2, <2>1, <2>3 DEF GraphInv, ThreadKept
  <1> QED
    BY <1>3, <1>4, PlanNodeWrites

\* The stage that is presented, which was pending or waited already.
Presented(s) ==
    /\ s \in DOMAIN plan.stages
    /\ plan.stages[s].state \in {"pending", "waiting_user"}
    /\ OneWritten(s, [plan.stages[s] EXCEPT !.state = "waiting_user", !.review_kind = "plan_review"])

\* The thread with another node and another stage under review.
LEMMA ThreadMoved ==
    ASSUME NEW N, thread \in [node : NodeName, review : N, feedback : BOOLEAN], NEW n, NEW r,
           thread' = [thread EXCEPT !.node = n, !.review = r]
    PROVE  thread' = [node |-> n, review |-> r, feedback |-> thread.feedback]
  <1> DEFINE t1 == [thread EXCEPT !.node = n]
  <1>1. thread' = [t1 EXCEPT !.review = r]
    OBVIOUS
  <1>2. t1 = [node |-> n, review |-> thread.review, feedback |-> thread.feedback]
    OBVIOUS
  <1> HIDE DEF t1
  <1> QED
    BY <1>1, <1>2

\* present_review writes one stage, or leaves the plan alone.
LEMMA PresentWrites ==
    ASSUME GraphInv, PresentReview
    PROVE  \/ /\ plan' = plan
              /\ thread' = [thread EXCEPT !.node = "finish", !.review = 0]
           \/ \E s \in DOMAIN plan.stages :
                 /\ Presented(s)
                 /\ thread' = [thread EXCEPT !.node = "await_review", !.review = s]
  <1> SUFFICES ASSUME NEW s \in Reviewable,
                      thread' = [thread EXCEPT !.node = "await_review", !.review = s],
                      plan' = [plan EXCEPT !.stages[s].state = "waiting_user",
                                           !.stages[s].review_kind = "plan_review"]
               PROVE  s \in DOMAIN plan.stages /\ Presented(s)
    BY DEF PresentReview
  <1>1. /\ PlanKept /\ s \in DOMAIN plan.stages
        /\ plan.stages[s].state \in {"pending", "waiting_user"}
        /\ plan.stages \in Seq(GraphStage)
    BY DEF GraphInv, Reviewable, PlanKept, GraphDocument
  <1> DEFINE stage == [plan.stages[s] EXCEPT !.state = "waiting_user", !.review_kind = "plan_review"]
  <1>2. WellKept(stage)
    BY <1>1, StageOfPlan, PresentedKept
  <1>3. plan' = [plan EXCEPT !.stages[s] = stage]
    <2> DEFINE s1 == [plan.stages[s] EXCEPT !.state = "waiting_user"]
               p1 == [plan EXCEPT !.stages[s] = s1]
    <2>1. p1.stages = [plan.stages EXCEPT ![s] = s1] /\ p1.stages[s] = s1
      BY <1>1 DEF PlanKept, GraphDocument
    <2>2. plan' = [p1 EXCEPT !.stages[s].review_kind = "plan_review"]
      BY <1>1 DEF PlanKept, GraphDocument
    <2>3. plan' = [p1 EXCEPT !.stages[s] = stage]
      BY <2>1, <2>2
    <2>4. [p1 EXCEPT !.stages[s] = stage] = [plan EXCEPT !.stages[s] = stage]
      <3> HIDE DEF stage, s1
      <3> QED
        BY <1>1, <2>1 DEF PlanKept, GraphDocument
    <2> QED
      BY <2>3, <2>4
  <1>4. OneWritten(s, stage)
    <2> HIDE DEF stage
    <2> QED
      BY <1>1, <1>2, <1>3, WrittenStage
  <1> QED
    BY <1>1, <1>4 DEF Presented

\* The first stage to review is presented, or the thread finishes.
LEMMA PresentReviewStep ==
    ASSUME GraphInv, PresentReview
    PROVE  GraphInv'
  <1>1. /\ thread \in [node : NodeName, review : 0 .. Len(plan.stages), feedback : BOOLEAN]
        /\ ~thread.feedback /\ owed = {} /\ owed' = {}
        /\ PlanKept
    BY DEF GraphInv, ThreadKept, PresentReview, At
  <1>2. CASE plan' = plan /\ thread' = [thread EXCEPT !.node = "finish", !.review = 0]
    <2>1. Len(plan.stages) \in Nat
      BY <1>1 DEF PlanKept, GraphDocument
    <2>2. thread' = [node |-> "finish", review |-> 0, feedback |-> FALSE]
      BY <1>1, <1>2, ThreadMoved
    <2>3. thread' \in [node : NodeName, review : 0 .. Len(plan'.stages), feedback : BOOLEAN]
      <3>1. 0 \in 0 .. Len(plan'.stages)
        BY <1>2, <2>1
      <3> QED
        BY <2>2, <3>1 DEF NodeName
    <2> QED
      BY <1>1, <1>2, <2>2, <2>3, SamePlanKept DEF GraphInv, ThreadKept, SamePlan
  <1>3. CASE \E s \in DOMAIN plan.stages :
                Presented(s) /\ thread' = [thread EXCEPT !.node = "await_review", !.review = s]
    <2>1. PICK s \in DOMAIN plan.stages :
                Presented(s) /\ thread' = [thread EXCEPT !.node = "await_review", !.review = s]
      BY <1>3
    <2>2. /\ PlanKept' /\ Len(plan'.stages) = Len(plan.stages) /\ Len(plan.stages) \in Nat
          /\ s \in 1 .. Len(plan.stages)
          /\ plan'.stages[s].state = "waiting_user"
      <3>1. /\ PlanKept' /\ Len(plan'.stages) = Len(plan.stages) /\ s \in DOMAIN plan.stages
            /\ plan'.stages[s] =
                 [plan.stages[s] EXCEPT !.state = "waiting_user", !.review_kind = "plan_review"]
        BY <2>1 DEF Presented, OneWritten
      <3>2. plan.stages \in Seq(GraphStage) /\ plan.stages[s] \in GraphStage
        BY <1>1 DEF PlanKept, GraphDocument
      <3> QED
        BY <3>1, <3>2 DEF GraphStage
    <2>3. thread' = [node |-> "await_review", review |-> s, feedback |-> FALSE]
      BY <1>1, <2>1, ThreadMoved
    <2>4. thread' \in [node : NodeName, review : 0 .. Len(plan'.stages), feedback : BOOLEAN]
      BY <2>2, <2>3 DEF NodeName
    <2>5. UnderReview("waiting_user")'
      BY <2>2, <2>3 DEF UnderReview
    <2> QED
      BY <1>1, <2>2, <2>3, <2>4, <2>5 DEF GraphInv, ThreadKept
  <1> QED
    BY <1>2, <1>3, PresentWrites

\* The stage is sent back with feedback.
LEMMA SendBackStep ==
    ASSUME GraphInv, SendBack
    PROVE  GraphInv'
  <1>1. /\ thread \in [node : NodeName, review : 0 .. Len(plan.stages), feedback : BOOLEAN]
        /\ ~thread.feedback /\ owed = {} /\ UnderReview("waiting_user")
        /\ PlanKept
    BY DEF GraphInv, ThreadKept, SendBack, Resumed
  <1>2. /\ thread' = [thread EXCEPT !.node = "plan", !.feedback = TRUE] /\ plan' = plan
        /\ owed' = {thread.review}
    BY <1>1 DEF SendBack
  <1>3. /\ thread' \in [node : NodeName, review : 0 .. Len(plan'.stages), feedback : BOOLEAN]
        /\ thread'.node = "plan" /\ thread'.review = thread.review /\ thread'.feedback
    BY <1>1, <1>2 DEF NodeName
  <1>4. UnderReview("waiting_user")'
    BY <1>1, <1>2, <1>3 DEF UnderReview
  <1> QED
    BY <1>1, <1>2, <1>3, <1>4, SamePlanKept DEF GraphInv, ThreadKept, SamePlan

\* The approval starts the stage under review.
LEMMA ApproveWrites ==
    ASSUME GraphInv, Approve
    PROVE  /\ thread.review \in DOMAIN plan.stages
           /\ plan.stages[thread.review].state = "waiting_user"
           /\ OneWritten(thread.review, ApprovedStage(plan.stages[thread.review]))
  <1>1. /\ PlanKept /\ UnderReview("waiting_user") /\ thread.review \in DOMAIN plan.stages
        /\ plan' = [plan EXCEPT !.stages[thread.review] = ApprovedStage(plan.stages[thread.review])]
    BY ReviewInPlan DEF GraphInv, ThreadKept, Approve, Resumed, UnderReview, ApprovedStage
  <1>2. WellKept(ApprovedStage(plan.stages[thread.review]))
    BY <1>1, StageOfPlan, ApprovedKept DEF UnderReview
  <1> QED
    BY <1>1, <1>2, WrittenStage DEF UnderReview

\* The stage under review is approved.
LEMMA ApproveStep ==
    ASSUME GraphInv, Approve
    PROVE  GraphInv'
  <1>1. /\ thread \in [node : NodeName, review : 0 .. Len(plan.stages), feedback : BOOLEAN]
        /\ ~thread.feedback /\ owed = {} /\ owed' = {} /\ thread.review # 0
        /\ PlanKept
        /\ thread' = [thread EXCEPT !.node = "execute", !.feedback = FALSE]
    BY DEF GraphInv, ThreadKept, Approve, Resumed, UnderReview
  <1>2. /\ PlanKept' /\ Len(plan'.stages) = Len(plan.stages)
        /\ thread.review \in DOMAIN plan.stages
        /\ plan'.stages[thread.review] = ApprovedStage(plan.stages[thread.review])
        /\ WellKept(plan.stages[thread.review])
        /\ plan.stages[thread.review].state = "waiting_user"
    BY <1>1, ApproveWrites, StageOfPlan DEF OneWritten
  <1>3. plan'.stages[thread.review].state = "doing"
    BY <1>2, ApprovedKept
  <1>4. /\ thread' \in [node : NodeName, review : 0 .. Len(plan'.stages), feedback : BOOLEAN]
        /\ thread'.node = "execute" /\ thread'.review = thread.review /\ ~thread'.feedback
    BY <1>1, <1>2 DEF NodeName
  <1>5. UnderReview("doing")'
    BY <1>1, <1>3, <1>4 DEF UnderReview
  <1> QED
    BY <1>1, <1>2, <1>4, <1>5 DEF GraphInv, ThreadKept

\* What an attempt writes, with the refs of the submission.
Attempts(refs) ==
    LET stage == AttemptedStage(plan.stages[thread.review], refs) IN
    /\ ~Refused(stage)
    /\ OneWritten(thread.review, stage)
    /\ thread' = [thread EXCEPT
          !.node = AfterExecute(stage), !.review = IF stage.state = "doing" THEN @ ELSE 0]
    /\ UNCHANGED running

\* The Executor's attempt writes the stage under review, unless it is refused.
LEMMA ExecuteWrites ==
    ASSUME GraphInv, Execute
    PROVE  /\ thread.review \in DOMAIN plan.stages
           /\ plan.stages[thread.review].state = "doing"
           /\ \/ plan' = plan /\ thread' = thread
              \/ \E refs \in SUBSET GraphRef : Attempts(refs)
  <1>1. /\ PlanKept /\ UnderReview("doing") /\ thread.review \in DOMAIN plan.stages
        /\ plan.stages[thread.review].state = "doing"
    BY ReviewInPlan DEF GraphInv, ThreadKept, Execute, At, UnderReview
  <1>2. PICK refs \in SUBSET GraphRef :
           LET stage == AttemptedStage(plan.stages[thread.review], refs) IN
           IF Refused(stage)
           THEN running' = FALSE /\ UNCHANGED <<plan, thread>>
           ELSE /\ plan' = [plan EXCEPT !.stages[thread.review] = stage]
                /\ thread' = [thread EXCEPT
                      !.node = AfterExecute(stage),
                      !.review = IF stage.state = "doing" THEN @ ELSE 0]
                /\ UNCHANGED running
    BY DEF Execute, AttemptedStage
  <1> DEFINE stage == AttemptedStage(plan.stages[thread.review], refs)
  <1>3. CASE Refused(stage)
    BY <1>1, <1>2, <1>3
  <1>4. CASE ~Refused(stage)
    <2>1. WellKept(stage)
      BY <1>1, <1>4, StageOfPlan, AttemptedKept
    <2>2. plan' = [plan EXCEPT !.stages[thread.review] = stage]
      BY <1>2, <1>4
    <2>3. OneWritten(thread.review, stage)
      <3> HIDE DEF stage
      <3> QED
        BY <1>1, <2>1, <2>2, WrittenStage
    <2>4. Attempts(refs)
      BY <1>2, <1>4, <2>3 DEF Attempts
    <2> QED
      BY <1>1, <2>4
  <1> QED
    BY <1>3, <1>4

\* The Executor's attempt.
LEMMA ExecuteStep ==
    ASSUME GraphInv, Execute
    PROVE  GraphInv'
  <1>1. /\ thread \in [node : NodeName, review : 0 .. Len(plan.stages), feedback : BOOLEAN]
        /\ ~thread.feedback /\ owed = {} /\ owed' = {} /\ thread.review # 0
        /\ PlanKept
    BY DEF GraphInv, ThreadKept, Execute, At, UnderReview
  <1>2. CASE plan' = plan /\ thread' = thread
    BY <1>1, <1>2, SamePlanKept DEF GraphInv, ThreadKept, UnderReview, SamePlan
  <1>3. CASE \E refs \in SUBSET GraphRef : Attempts(refs)
    <2>1. PICK refs \in SUBSET GraphRef : Attempts(refs)
      BY <1>3
    <2> DEFINE stage == AttemptedStage(plan.stages[thread.review], refs)
    <2>2. /\ OneWritten(thread.review, stage)
          /\ thread' = [thread EXCEPT
                !.node = AfterExecute(stage), !.review = IF stage.state = "doing" THEN @ ELSE 0]
      BY <2>1 DEF Attempts
    <2> HIDE DEF stage
    <2>3. /\ PlanKept' /\ Len(plan'.stages) = Len(plan.stages) /\ Len(plan.stages) \in Nat
          /\ thread.review \in DOMAIN plan.stages
          /\ plan'.stages[thread.review] = stage
      BY <1>1, <2>2, ReviewInPlan DEF OneWritten, PlanKept, GraphDocument
    <2>4. /\ AfterExecute(stage) \in {"execute", "present_review", "finish"}
          /\ AfterExecute(stage) = "execute" => stage.state = "doing"
      BY DEF AfterExecute
    <2>5. thread' = [node |-> AfterExecute(stage),
                     review |-> IF stage.state = "doing" THEN thread.review ELSE 0,
                     feedback |-> FALSE]
      BY <1>1, <2>2, ThreadMoved
    <2>6. thread' \in [node : NodeName, review : 0 .. Len(plan'.stages), feedback : BOOLEAN]
      <3>1. (IF stage.state = "doing" THEN thread.review ELSE 0) \in 0 .. Len(plan'.stages)
        BY <1>1, <2>3
      <3>2. AfterExecute(stage) \in NodeName
        BY <2>4 DEF NodeName
      <3> QED
        BY <2>5, <3>1, <3>2
    <2>7. thread'.node = "execute" => UnderReview("doing")'
      BY <1>1, <2>3, <2>4, <2>5 DEF UnderReview
    <2> QED
      BY <1>1, <2>3, <2>4, <2>5, <2>6, <2>7 DEF GraphInv, ThreadKept
  <1> QED
    BY <1>2, <1>3, ExecuteWrites

\* The invariant holds at first and is kept.
LEMMA GraphInitKept == GraphInit => GraphInv
  BY DEF GraphInit, GraphInv, PlanKept, ThreadKept, GraphDocument, NodeName, GraphPlan!NewPlan

LEMMA GraphStepKept == GraphInv /\ [GraphNext]_graphVars => GraphInv'
  <1> SUFFICES ASSUME GraphInv, [GraphNext]_graphVars PROVE GraphInv'
    OBVIOUS
  <1>1. CASE GraphNext
    BY <1>1, SamePlanStep, PlanNodeStep, PresentReviewStep, ExecuteStep, StartThreadStep,
       SendBackStep, ApproveStep DEF GraphNext, Node
  <1>2. CASE UNCHANGED graphVars
    BY <1>2 DEF graphVars, GraphInv, PlanKept, ThreadKept, UnderReview
  <1> QED
    BY <1>1, <1>2

-----------------------------------------------------------------------------
(* The theorems.                                                            *)

\* The invariant that the theorems below rest on: where the thread stands says
\* how the stage under review is, and which stage is owed a rewrite.
THEOREM GraphInvHolds == GraphSpec => []GraphInv
  BY GraphInitKept, GraphStepKept, PTL DEF GraphSpec

\* Stages, thread and owed rewrites have the expected types.
LEMMA GraphInvTypes == GraphInv => GraphTypeOK
  <1> SUFFICES ASSUME GraphInv PROVE GraphTypeOK
    OBVIOUS
  <1>1. /\ thread \in [node : NodeName, review : 0 .. Len(plan.stages), feedback : BOOLEAN]
        /\ plan.stages \in Seq(GraphStage)
        /\ thread.feedback => thread.review # 0
        /\ owed = IF thread.feedback THEN {thread.review} ELSE {}
    BY DEF GraphInv, ThreadKept, PlanKept, GraphDocument, UnderReview
  <1>2. \A s \in DOMAIN plan.stages : plan.stages[s] \in GraphStage
    BY <1>1
  <1>3. owed \subseteq DOMAIN plan.stages
    BY <1>1
  <1> QED
    BY <1>1, <1>2, <1>3 DEF GraphTypeOK, GraphStage

\* Every reachable state of a thread has the expected types.
THEOREM GraphTypeCorrect == GraphSpec => []GraphTypeOK
  BY GraphInvTypes, GraphInvHolds, PTL

\* A stage that was sent back waits until it is rewritten.
LEMMA OwedWaits == GraphInv => SentBackIsRewritten
  BY DEF GraphInv, ThreadKept, UnderReview, SentBackIsRewritten

\* A stage sent back with feedback is not executed before the Planner has
\* rewritten it.
THEOREM SentBackHolds == GraphSpec => []SentBackIsRewritten
  BY OwedWaits, GraphInvHolds, PTL

\* What a step of the graph may do to a stage.
StageMove(a, b) ==
    \/ b = a
    \/ a.state \in {"pending", "waiting_user"} /\ b.refs = a.refs
    \/ a.state = "doing" /\ b.contract = a.contract /\ a.refs \subseteq b.refs

\* The stages of a plan after a step of the graph.
StagesMove ==
    \A t \in DOMAIN plan.stages :
        t \in DOMAIN plan'.stages /\ StageMove(plan.stages[t], plan'.stages[t])

\* One stage is written by such a move.
LEMMA OneMoves ==
    ASSUME NEW s \in DOMAIN plan.stages, NEW stage, OneWritten(s, stage),
           StageMove(plan.stages[s], stage)
    PROVE  StagesMove
  BY DEF OneWritten, StagesMove, StageMove

\* Every step of the graph moves the stages so.
LEMMA GraphStepMoves ==
    ASSUME GraphInv, [GraphNext]_graphVars
    PROVE  StagesMove
  <1>1. PlanKept
    BY DEF GraphInv
  <1>2. CASE plan' = plan
    BY <1>2 DEF StagesMove, StageMove
  <1>3. CASE PlanNode
    <2>1. ASSUME NEW items \in SUBSET Item, Revises(items) PROVE StagesMove
      <3> DEFINE s == thread.review
                 stage == [plan.stages[s] EXCEPT !.contract = items]
      <3>1. /\ s \in DOMAIN plan.stages /\ plan.stages[s].state = "waiting_user"
            /\ OneWritten(s, stage)
        BY <2>1 DEF Revises
      <3>2. stage.refs = plan.stages[s].refs
        BY <1>1, <3>1, StageOfPlan DEF WellKept, GraphStage
      <3> HIDE DEF stage
      <3> QED
        BY <3>1, <3>2, OneMoves DEF StageMove
    <2>2. ASSUME NEW k \in Nat, NEW drafts \in [1 .. k -> SUBSET Item],
                 plan' = [plan EXCEPT !.stages = @ \o DraftStages(Len(@), drafts)]
          PROVE  StagesMove
      <3>1. /\ DOMAIN plan.stages \subseteq DOMAIN plan'.stages
            /\ \A t \in DOMAIN plan.stages : plan'.stages[t] = plan.stages[t]
        BY <1>1, <2>2, DraftedPlan
      <3> QED
        BY <3>1 DEF StagesMove, StageMove
    <2> QED
      BY <1>3, <2>1, <2>2, PlanNodeWrites
  <1>4. CASE PresentReview
    <2>1. ASSUME NEW s \in DOMAIN plan.stages, Presented(s) PROVE StagesMove
      <3> DEFINE stage == [plan.stages[s] EXCEPT !.state = "waiting_user", !.review_kind = "plan_review"]
      <3>1. /\ OneWritten(s, stage) /\ stage.refs = plan.stages[s].refs
            /\ plan.stages[s].state \in {"pending", "waiting_user"}
        BY <1>1, <2>1, StageOfPlan DEF Presented, WellKept, GraphStage
      <3> HIDE DEF stage
      <3> QED
        BY <3>1, OneMoves DEF StageMove
    <2> QED
      BY <1>2, <1>4, <2>1, PresentWrites
  <1>5. CASE Approve
    <2> DEFINE s == thread.review
               stage == ApprovedStage(plan.stages[s])
    <2>1. /\ s \in DOMAIN plan.stages /\ OneWritten(s, stage)
          /\ plan.stages[s].state = "waiting_user" /\ stage.refs = plan.stages[s].refs
      BY <1>1, <1>5, ApproveWrites, StageOfPlan, ApprovedKept
    <2> HIDE DEF stage
    <2> QED
      BY <2>1, OneMoves DEF StageMove
  <1>6. CASE Execute
    <2>1. ASSUME NEW refs \in SUBSET GraphRef, Attempts(refs) PROVE StagesMove
      <3> DEFINE s == thread.review
                 stage == AttemptedStage(plan.stages[s], refs)
      <3>1. /\ s \in DOMAIN plan.stages /\ OneWritten(s, stage) /\ ~Refused(stage)
            /\ plan.stages[s].state = "doing"
        BY <1>6, <2>1, ExecuteWrites DEF Attempts
      <3>2. stage.contract = plan.stages[s].contract /\ plan.stages[s].refs \subseteq stage.refs
        BY <1>1, <3>1, StageOfPlan, AttemptedKept
      <3> HIDE DEF stage
      <3> QED
        BY <3>1, <3>2, OneMoves DEF StageMove
    <2> QED
      BY <1>2, <1>6, <2>1, ExecuteWrites
  <1> QED
    BY <1>2, <1>3, <1>4, <1>5, <1>6
       DEF GraphNext, Node, Route, Direct, PlanAsks, Interrupt, Finish, StartThread, Ask, SendBack,
           NodeFails, Rerun, graphVars

\* The gate, the results rule and the review fields of the graph's plan.
LEMMA GraphInvGate ==
    GraphInv => /\ GraphPlan!ExecutedOnlyIfApproved /\ GraphPlan!FinishedOnlyWithResults
                /\ GraphPlan!ReviewFieldsMatchState
  <1> SUFFICES ASSUME GraphInv, NEW s \in DOMAIN plan.stages
               PROVE  LET stage == plan.stages[s] IN
                      /\ GraphPlan!Executed(stage) => stage.approved /\ stage.contract # {"none"}
                      /\ stage.state = "done" \/ stage.review_kind = "result_review" => stage.refs # {}
                      /\ stage.review_kind # GraphPlan!NoKind <=> stage.state = "waiting_user"
                      /\ stage.questions # {} => stage.state = "waiting_user"
    BY DEF GraphPlan!ExecutedOnlyIfApproved, GraphPlan!FinishedOnlyWithResults,
           GraphPlan!ReviewFieldsMatchState, GraphPlan!StageIds
  <1>1. plan.stages[s] \in GraphStage /\ StageKept(plan.stages[s])
    BY StageOfPlan DEF GraphInv, WellKept
  <1>2. plan.stages[s].contract # {"none"}
    BY <1>1, ItemAssumption DEF GraphStage
  <1> QED
    BY <1>1, <1>2 DEF GraphStage, StageKept, GraphPlan!Executed, GraphPlan!NoKind, GraphPlan!StageState

\* "What did not move: the stage state machine": the gate, the results rule, the
\* review fields, the undisturbed execution and the frozen stages of Plan hold of
\* the graph's plan.
THEOREM GraphKeepsPlanHolds == GraphSpec => GraphKeepsPlan
  <1>1. GraphInv /\ [GraphNext]_graphVars =>
           [\A s \in GraphPlan!StageIds(plan) :
              /\ s \in GraphPlan!StageIds(plan')
              /\ plan.stages[s].refs \subseteq plan'.stages[s].refs
              /\ plan.stages[s].state \in {"doing", "blocked"} =>
                    plan'.stages[s].contract = plan.stages[s].contract]_plan
    BY GraphStepMoves DEF StagesMove, StageMove, GraphPlan!StageIds
  <1>2. GraphInv /\ [GraphNext]_graphVars =>
           [\A s \in GraphPlan!StageIds(plan) : plan.stages[s].state \in GraphPlan!TERMINAL =>
              s \in GraphPlan!StageIds(plan') /\ plan'.stages[s] = plan.stages[s]]_plan
    BY GraphStepMoves DEF StagesMove, StageMove, GraphPlan!StageIds, GraphPlan!TERMINAL
  <1> QED
    BY <1>1, <1>2, GraphInvGate, GraphInvHolds, PTL
       DEF GraphSpec, GraphKeepsPlan, GraphPlan!ExecutionIsUndisturbed,
           GraphPlan!TerminalStagesAreFrozen
=============================================================================
