----------------------------- MODULE PlanProofs -----------------------------
(***************************************************************************)
(* Proofs about the plan and its store, for every set of contracts, refs   *)
(* and questions, every number of processes and agents, and every bound.   *)
(* The lemmas describe the document each operation writes; the theorems go *)
(* through the operations one by one.  The store's row goes through the    *)
(* steps of the plan, so that what holds of the plan holds of the row too. *)
(***************************************************************************)
EXTENDS PlanStore, SequenceTheorems, TLAPS

USE NoContractAssumption, PlanBounds

-----------------------------------------------------------------------------
(* Documents.                                                               *)

\* A document's stages are stages.
LEMMA StageOfDocument ==
    ASSUME NEW d \in Document, NEW s \in StageIds(d)
    PROVE  d.stages[s] \in Stage
  BY DEF Document, StageIds

\* _mutate's write yields a document with the next revision.
LEMMA WrittenDocument ==
    ASSUME NEW d \in Document, NEW stages \in Seq(Stage), NEW asked \in SUBSET Question
    PROVE  /\ Written(d, stages, asked) \in Document
           /\ Written(d, stages, asked).stages = stages
           /\ Written(d, stages, asked).revision = d.revision + 1
           /\ Written(d, stages, asked).open_questions = asked
  BY DEF Document, Written

\* Writing one stage leaves the others as they are.
LEMMA WithStageDocument ==
    ASSUME NEW d \in Document, NEW s \in StageIds(d), NEW stage \in Stage
    PROVE  /\ WithStage(d, s, stage) \in Document
           /\ StageIds(WithStage(d, s, stage)) = StageIds(d)
           /\ \A t \in StageIds(d) :
                 WithStage(d, s, stage).stages[t] = IF t = s THEN stage ELSE d.stages[t]
  <1> DEFINE q == [d.stages EXCEPT ![s] = stage]
  <1>1. d.stages \in Seq(Stage) /\ d.open_questions \in SUBSET Question
    BY DEF Document
  <1>2. q \in Seq(Stage) /\ DOMAIN q = DOMAIN d.stages
    BY <1>1 DEF StageIds
  <1>3. \A t \in DOMAIN d.stages : q[t] = IF t = s THEN stage ELSE d.stages[t]
    BY <1>1 DEF StageIds
  <1>4. QED
    BY <1>1, <1>2, <1>3, WrittenDocument DEF WithStage, StageIds

\* A new contract appends one fresh stage.
LEMMA AuthoredDocument ==
    ASSUME NEW d \in Document, NEW c \in Contract, NEW o \in Nat
    PROVE  /\ Authored(d, c, o) \in Document
           /\ StageIds(d) \subseteq StageIds(Authored(d, c, o))
           /\ \A t \in StageIds(Authored(d, c, o)) :
                 Authored(d, c, o).stages[t] =
                    IF t \in StageIds(d) THEN d.stages[t] ELSE NewStage(c, o)
  <1>1. NewStage(c, o) \in Stage
    BY DEF NewStage, Stage, StageState
  <1>2. d.stages \in Seq(Stage) /\ d.open_questions \in SUBSET Question
    BY DEF Document
  <1> DEFINE q == Append(d.stages, NewStage(c, o))
  <1>3. q \in Seq(Stage) /\ DOMAIN q = 1 .. Len(d.stages) + 1 /\ DOMAIN d.stages = 1 .. Len(d.stages)
    BY <1>1, <1>2
  <1>4. \A t \in DOMAIN q : q[t] = IF t \in DOMAIN d.stages THEN d.stages[t] ELSE NewStage(c, o)
    BY <1>1, <1>2, <1>3
  <1>5. Authored(d, c, o) \in Document /\ Authored(d, c, o).stages = q
    BY <1>2, <1>3, WrittenDocument DEF Authored
  <1>6. QED
    BY <1>3, <1>4, <1>5 DEF StageIds

\* A moved stage is a stage.
LEMMA MovedStage ==
    ASSUME NEW stage \in Stage, NEW target \in StageState, NEW confirmed \in BOOLEAN,
           NEW kind \in ReviewKind \cup {NoKind}, NEW asked \in SUBSET Question
    PROVE  Moved(stage, target, confirmed, kind, asked) \in Stage
  BY DEF Moved, Stage

\* ask_user changes a stage only by moving it to waiting_user, or not at all.
LEMMA AskedDocument ==
    ASSUME NEW d \in Document, NEW asked \in SUBSET Question
    PROVE  /\ Asked(d, asked) \in Document
           /\ StageIds(Asked(d, asked)) = StageIds(d)
           /\ \A t \in StageIds(d) :
                 \/ Asked(d, asked).stages[t] = d.stages[t]
                 \/ /\ d.stages[t].state = "pending"
                    /\ d.stages[t].contract # NoContract
                    /\ Asked(d, asked).stages[t] =
                          Moved(d.stages[t], "waiting_user", FALSE, "plan_review", asked)
  <1> DEFINE q == [t \in StageIds(d) |->
                     IF t \in FirstAuthoredPending(d)
                     THEN Moved(d.stages[t], "waiting_user", FALSE, "plan_review", asked)
                     ELSE d.stages[t]]
  <1>1. d.stages \in Seq(Stage) /\ DOMAIN d.stages = 1 .. Len(d.stages) /\ Len(d.stages) \in Nat
    BY DEF Document
  <1>2. \A t \in StageIds(d) : q[t] \in Stage
    BY StageOfDocument, MovedStage DEF StageState, ReviewKind
  <1>a. StageIds(d) = 1 .. Len(d.stages)
    BY <1>1 DEF StageIds
  <1>b. q \in [1 .. Len(d.stages) -> Stage]
    BY <1>2, <1>a
  <1> HIDE DEF q
  <1>c. q \in Seq(Stage)
    BY <1>1, <1>b, SeqDef
  <1>d. DOMAIN q = StageIds(d)
    BY <1>a, <1>b
  <1> USE DEF q
  <1>3. q \in Seq(Stage) /\ DOMAIN q = StageIds(d)
    BY <1>c, <1>d
  <1>4. /\ Asked(d, asked) \in Document
        /\ Asked(d, asked).stages = q
    BY <1>3, WrittenDocument DEF Asked
  <1>5. QED
    BY <1>3, <1>4 DEF StageIds, FirstAuthoredPending, AuthoredPending

-----------------------------------------------------------------------------
(* A step of the plan is, for each stage, a step of that stage.             *)

StageStep(a, b) ==
    \/ b = a
    \/ \E c \in Contract, o \in Nat :
          a.state \in {"pending", "waiting_user"} /\ b = Rewritten(a, c, o)
    \/ \E refs \in SUBSET Ref : a.state = "doing" /\ b = Extended(a, refs)
    \/ \E target \in StageState, confirmed \in BOOLEAN, kind \in ReviewKind \cup {NoKind},
          asked \in SUBSET Question :
          /\ CheckTransition(a, target, confirmed, kind)
          /\ b = Moved(a, target, confirmed, kind, asked)

\* Document e follows document d: stages stay, each by a step of its own, and
\* a stage that d does not have is a new one.
Follows(d, e) ==
    /\ e \in Document
    /\ StageIds(d) \subseteq StageIds(e)
    /\ \A t \in StageIds(d) : StageStep(d.stages[t], e.stages[t])
    /\ \A t \in StageIds(e) \ StageIds(d) :
          \E c \in Contract, o \in Nat : e.stages[t] = NewStage(c, o)

\* A write of one stage changes the plan by one stage step.
LEMMA WithStageFollows ==
    ASSUME NEW d \in Document, NEW s \in StageIds(d), NEW stage \in Stage,
           StageStep(d.stages[s], stage)
    PROVE  Follows(d, WithStage(d, s, stage))
  <1>1. \A t \in StageIds(d) : StageStep(d.stages[t], WithStage(d, s, stage).stages[t])
    <2> TAKE t \in StageIds(d)
    <2>1. CASE t = s
      BY <2>1, WithStageDocument
    <2>2. CASE t # s
      BY <2>2, WithStageDocument DEF StageStep
    <2> QED
      BY <2>1, <2>2
  <1> QED
    BY <1>1, WithStageDocument DEF Follows

\* ask_user changes every stage by a stage step or leaves it.
LEMMA AskedFollows ==
    ASSUME NEW d \in Document, NEW asked \in SUBSET Question
    PROVE  Follows(d, Asked(d, asked))
  <1>1. \A t \in StageIds(d) : StageStep(d.stages[t], Asked(d, asked).stages[t])
    <2> TAKE t \in StageIds(d)
    <2> DEFINE a == d.stages[t]
    <2>1. CASE Asked(d, asked).stages[t] = d.stages[t]
      BY <2>1 DEF StageStep
    <2>2. CASE /\ a.state = "pending"
               /\ a.contract # NoContract
               /\ Asked(d, asked).stages[t] = Moved(a, "waiting_user", FALSE, "plan_review", asked)
      <3>1. CheckTransition(a, "waiting_user", FALSE, "plan_review")
        BY <2>2 DEF CheckTransition, TRANSITIONS, ReviewKindMatches, ContractPresent,
                    ReviewPassed, ResultsPresent
      <3>2. /\ "waiting_user" \in StageState
            /\ FALSE \in BOOLEAN
            /\ "plan_review" \in ReviewKind \cup {NoKind}
        BY DEF StageState, ReviewKind
      <3> QED
        BY <2>2, <3>1, <3>2 DEF StageStep
    <2> QED
      BY <2>1, <2>2, AskedDocument
  <1> QED
    BY <1>1, AskedDocument DEF Follows

-----------------------------------------------------------------------------
(* PlanNext as a relation between documents, so that the lemmas also speak *)
(* of the document a process is about to write.                             *)

Writes(d, e) ==
    /\ d.revision < MaxRevision
    /\ \/ \E c \in Contract, o \in Orders(d) :
             Len(d.stages) < MaxStages /\ e = Authored(d, c, o)
       \/ \E s \in StageIds(d), c \in Contract : \E o \in Orders(d) \cup {d.stages[s].order} :
             CanReauthor(d, s) /\ e = Reauthored(d, s, c, o)
       \/ \E s \in StageIds(d), refs \in SUBSET Ref :
             CanAttach(d, s) /\ e = Attached(d, s, refs)
       \/ \E s \in StageIds(d), target \in StageState, confirmed \in BOOLEAN,
             kind \in ReviewKind \cup {NoKind}, asked \in SUBSET Question :
             /\ CheckTransition(d.stages[s], target, confirmed, kind)
             /\ e = Updated(d, s, target, confirmed, kind, asked)
       \/ \E asked \in (SUBSET Question) \ {{}} : e = Asked(d, asked)
       \/ e = Cleared(d)

\* Writes, as a relation of two documents, is the plan's next-state relation.
LEMMA WritesIsPlanNext == Writes(doc, doc') <=> PlanNext
  BY DEF Writes, PlanNext, Writable, AuthorStage, RewriteContract, AttachRuntime,
         UpdateStageState, AskUser, ClearQuestions

\* Every write raises the revision by one, and so is never a stutter.
LEMMA WritesRevision ==
    ASSUME NEW d \in Document, NEW e, Writes(d, e)
    PROVE  e.revision = d.revision + 1
  <1>1. \E stages, asked : e = Written(d, stages, asked)
    BY DEF Writes, Authored, Reauthored, Attached, Updated, Asked, Cleared, WithStage
  <1> QED
    BY <1>1 DEF Written

\* All six operations change the plan stage by stage, and only append stages.
LEMMA WritesFollow ==
    ASSUME NEW d \in Document, NEW e, Writes(d, e)
    PROVE  Follows(d, e)
  <1>1. ASSUME NEW c \in Contract, NEW o \in Orders(d), e = Authored(d, c, o)
        PROVE  Follows(d, e)
    <2>1. o \in Nat
      BY DEF Orders, Document
    <2>2. \A t \in StageIds(d) : StageStep(d.stages[t], Authored(d, c, o).stages[t])
      BY <2>1, AuthoredDocument DEF StageStep
    <2> QED
      BY <1>1, <2>1, <2>2, AuthoredDocument DEF Follows
  <1>2. ASSUME NEW s \in StageIds(d), NEW c \in Contract,
               NEW o \in Orders(d) \cup {d.stages[s].order},
               CanReauthor(d, s), e = Reauthored(d, s, c, o)
        PROVE  Follows(d, e)
    <2>1. d.stages[s] \in Stage
      BY StageOfDocument
    <2>2. o \in Nat
      BY <2>1 DEF Orders, Document, Stage
    <2>3. Rewritten(d.stages[s], c, o) \in Stage
      BY <2>1, <2>2 DEF Rewritten, Stage
    <2>4. StageStep(d.stages[s], Rewritten(d.stages[s], c, o))
      BY <1>2, <2>2 DEF CanReauthor, StageStep
    <2> QED
      BY <1>2, <2>3, <2>4, WithStageFollows DEF Reauthored
  <1>3. ASSUME NEW s \in StageIds(d), NEW refs \in SUBSET Ref,
               CanAttach(d, s), e = Attached(d, s, refs)
        PROVE  Follows(d, e)
    <2>1. d.stages[s] \in Stage
      BY StageOfDocument
    <2>2. Extended(d.stages[s], refs) \in Stage
      BY <2>1 DEF Extended, Stage
    <2>3. StageStep(d.stages[s], Extended(d.stages[s], refs))
      BY <1>3 DEF CanAttach, StageStep
    <2> QED
      BY <1>3, <2>2, <2>3, WithStageFollows DEF Attached
  <1>4. ASSUME NEW s \in StageIds(d), NEW target \in StageState, NEW confirmed \in BOOLEAN,
               NEW kind \in ReviewKind \cup {NoKind}, NEW asked \in SUBSET Question,
               CheckTransition(d.stages[s], target, confirmed, kind),
               e = Updated(d, s, target, confirmed, kind, asked)
        PROVE  Follows(d, e)
    <2> DEFINE b == Moved(d.stages[s], target, confirmed, kind, asked)
    <2>1. b \in Stage
      BY StageOfDocument, MovedStage
    <2>2. StageStep(d.stages[s], b)
      BY <1>4 DEF StageStep
    <2> QED
      BY <1>4, <2>1, <2>2, WithStageFollows DEF Updated
  <1>5. ASSUME NEW asked \in SUBSET Question, e = Asked(d, asked)
        PROVE  Follows(d, e)
    BY <1>5, AskedFollows
  <1>6. CASE e = Cleared(d)
    <2>1. d.stages \in Seq(Stage)
      BY DEF Document
    <2>2. Cleared(d) \in Document /\ Cleared(d).stages = d.stages
      BY <2>1, WrittenDocument DEF Cleared
    <2> QED
      BY <1>6, <2>2 DEF Follows, StageIds, StageStep
  <1> QED
    BY <1>1, <1>2, <1>3, <1>4, <1>5, <1>6 DEF Writes

\* So does a step of the plan.
LEMMA PlanStepFollows ==
    ASSUME TypeOK, PlanNext
    PROVE  Follows(doc, doc')
  BY WritesIsPlanNext, WritesFollow DEF TypeOK

-----------------------------------------------------------------------------
(* Type correctness.                                                        *)

\* create_plan's document has its type.
LEMMA PlanInitType == PlanInit => TypeOK
  BY EmptySeq DEF PlanInit, NewPlan, TypeOK, Document

\* A step of the plan keeps the document's type.
LEMMA PlanStepType == TypeOK /\ [PlanNext]_doc => TypeOK'
  BY PlanStepFollows DEF TypeOK, Follows

\* Every reachable plan is a well-formed document, for every set of contracts,
\* refs and questions and every bound.
THEOREM PlanTypeCorrect == PlanSpec => []TypeOK
  BY PlanInitType, PlanStepType, PTL DEF PlanSpec

-----------------------------------------------------------------------------
(* The three invariants speak of one stage at a time, and only together are *)
(* they preserved by each stage's steps: the gate needs to know that a      *)
(* stage that waits has a review_kind, and that results came from doing.    *)

StageInv(stage) ==
    /\ Executed(stage) => stage.approved /\ stage.contract # NoContract
    /\ stage.state = "done" \/ stage.review_kind = "result_review" => stage.refs # {}
    /\ stage.review_kind # NoKind <=> stage.state = "waiting_user"
    /\ stage.questions # {} => stage.state = "waiting_user"

PlanInv ==
    /\ ExecutedOnlyIfApproved
    /\ FinishedOnlyWithResults
    /\ ReviewFieldsMatchState

\* The invariant says the same of each stage, whatever the others are.
LEMMA PlanInvStagewise == PlanInv <=> \A s \in StageIds(doc) : StageInv(doc.stages[s])
  BY DEF PlanInv, ExecutedOnlyIfApproved, FinishedOnlyWithResults, ReviewFieldsMatchState, StageInv

\* A newly authored stage satisfies it.
LEMMA NewStageInv ==
    ASSUME NEW c \in Contract, NEW o \in Nat
    PROVE  StageInv(NewStage(c, o))
  BY DEF StageInv, NewStage, Executed, NoKind

\* So does a stage whose contract is rewritten where that is allowed.
LEMMA RewrittenInv ==
    ASSUME NEW a \in Stage, StageInv(a), a.state \in {"pending", "waiting_user"},
           NEW c \in Contract, NEW o \in Nat
    PROVE  StageInv(Rewritten(a, c, o))
  BY DEF StageInv, Rewritten, Executed, Stage

\* So does a stage to which the Executor attaches refs.
LEMMA ExtendedInv ==
    ASSUME NEW a \in Stage, StageInv(a), a.state = "doing", NEW refs \in SUBSET Ref
    PROVE  StageInv(Extended(a, refs))
  BY DEF StageInv, Extended, Executed, Stage

\* What a transition leaves in each field.
LEMMA MovedFields ==
    ASSUME NEW a \in Stage, NEW target \in StageState, NEW confirmed \in BOOLEAN,
           NEW kind \in ReviewKind \cup {NoKind}, NEW asked \in SUBSET Question
    PROVE  LET b == Moved(a, target, confirmed, kind, asked) IN
           /\ b.state = target
           /\ b.contract = a.contract
           /\ b.refs = a.refs
           /\ b.review_kind = IF target = "waiting_user" THEN kind ELSE NoKind
           /\ b.questions = IF target = "waiting_user" THEN asked ELSE {}
           /\ b.approved <=> \/ a.approved
                             \/ confirmed /\ a.review_kind = "plan_review" /\ target = "doing"
  BY DEF Moved, Stage

\* A transition that check_transition admits keeps the stage's invariant.
LEMMA MovedInv ==
    ASSUME NEW a \in Stage, StageInv(a),
           NEW target \in StageState, NEW confirmed \in BOOLEAN,
           NEW kind \in ReviewKind \cup {NoKind}, NEW asked \in SUBSET Question,
           CheckTransition(a, target, confirmed, kind)
    PROVE  StageInv(Moved(a, target, confirmed, kind, asked))
  <1> DEFINE b == Moved(a, target, confirmed, kind, asked)
  <1>1. target = "waiting_user" => kind \in ReviewKind
    BY DEF CheckTransition, ReviewKindMatches, ReviewKind
  <1>2. (b.review_kind # NoKind <=> b.state = "waiting_user")
        /\ (b.questions # {} => b.state = "waiting_user")
    BY <1>1, MovedFields DEF ReviewKind, NoKind
  <1>3. b.state = "done" \/ b.review_kind = "result_review" => b.refs # {}
    BY MovedFields DEF CheckTransition, ResultsPresent, NoKind
  <1>4. Executed(b) => b.approved /\ b.contract # NoContract
    <2> SUFFICES ASSUME Executed(b)
                 PROVE  a.contract # NoContract
                        /\ (a.approved \/ (/\ confirmed
                                           /\ a.review_kind = "plan_review"
                                           /\ target = "doing"))
      BY MovedFields
    <2>1. CASE Executed(a)
      BY <2>1 DEF StageInv
    <2>2. CASE ~Executed(a)
      <3>1. a.state \in {"pending", "waiting_user", "omitted"} /\ a.refs = {}
        BY <2>2 DEF Executed, Stage, StageState
      <3>2. target \in {"doing", "blocked", "done"} \/ (target = "waiting_user" /\ kind = "result_review")
        BY <3>1, MovedFields DEF Executed, NoKind
      <3>3. a.state = "waiting_user" /\ target = "doing" /\ confirmed
        BY <3>1, <3>2 DEF CheckTransition, TRANSITIONS, ReviewKindMatches, ReviewPassed,
                          ResultsPresent
      <3>4. a.review_kind = "plan_review"
        BY <2>2, <3>3 DEF StageInv, Executed, Stage, ReviewKind
      <3> QED
        BY <3>3, <3>4 DEF CheckTransition, ContractPresent
    <2> QED
      BY <2>1, <2>2
  <1> QED
    BY <1>2, <1>3, <1>4 DEF StageInv

\* Every stage step keeps the stage's invariant.
LEMMA StageStepInv ==
    ASSUME NEW a \in Stage, NEW b, StageStep(a, b), StageInv(a)
    PROVE  StageInv(b)
  BY RewrittenInv, ExtendedInv, MovedInv DEF StageStep

\* Every step of the plan keeps the invariant.
LEMMA PlanStepInv == TypeOK /\ PlanInv /\ [PlanNext]_doc => PlanInv'
  <1> SUFFICES ASSUME TypeOK, PlanInv, [PlanNext]_doc
               PROVE  PlanInv'
    OBVIOUS
  <1>1. CASE UNCHANGED doc
    BY <1>1 DEF PlanInv, ExecutedOnlyIfApproved, FinishedOnlyWithResults,
                ReviewFieldsMatchState, StageIds
  <1>2. CASE PlanNext
    <2>1. Follows(doc, doc') /\ doc \in Document
      BY <1>2, PlanStepFollows DEF TypeOK
    <2>2. ASSUME NEW s \in StageIds(doc')
          PROVE  StageInv(doc'.stages[s])
      <3>1. CASE s \in StageIds(doc)
        BY <2>1, <3>1, PlanInvStagewise, StageStepInv, StageOfDocument DEF Follows
      <3>2. CASE s \notin StageIds(doc)
        BY <2>1, <2>2, <3>2, NewStageInv DEF Follows
      <3> QED
        BY <3>1, <3>2
    <2>3. (\A s \in StageIds(doc) : StageInv(doc.stages[s]))'
      BY <2>2 DEF StageIds, StageInv, Executed
    <2> QED
      BY <2>3 DEF PlanInv, ExecutedOnlyIfApproved, FinishedOnlyWithResults,
                  ReviewFieldsMatchState, StageInv
  <1> QED
    BY <1>1, <1>2

\* An empty plan satisfies the invariant.
LEMMA PlanInitInv == PlanInit => PlanInv
  BY DEF PlanInit, NewPlan, StageIds, PlanInv, ExecutedOnlyIfApproved,
         FinishedOnlyWithResults, ReviewFieldsMatchState

\* The gate, the results and the review fields, which need each other, hold together
\* in every reachable plan.
THEOREM PlanInvariant == PlanSpec => []PlanInv
  BY PlanInitInv, PlanStepInv, PlanTypeCorrect, PTL DEF PlanSpec

\* No stage is executed, or has produced anything, without a contract and a
\* confirmed plan review, in any plan.
THEOREM GateHolds == PlanSpec => []ExecutedOnlyIfApproved
  <1>1. PlanInv => ExecutedOnlyIfApproved
    BY DEF PlanInv
  <1> QED
    BY <1>1, PlanInvariant, PTL

\* No stage is done or under result review with nothing produced.
THEOREM ResultsHold == PlanSpec => []FinishedOnlyWithResults
  <1>1. PlanInv => FinishedOnlyWithResults
    BY DEF PlanInv
  <1> QED
    BY <1>1, PlanInvariant, PTL

\* review_kind and questions are set only while the stage waits.
THEOREM ReviewFieldsHold == PlanSpec => []ReviewFieldsMatchState
  <1>1. PlanInv => ReviewFieldsMatchState
    BY DEF PlanInv
  <1> QED
    BY <1>1, PlanInvariant, PTL

-----------------------------------------------------------------------------
(* The action properties.                                                   *)

\* No stage step changes a finished stage.
LEMMA StageStepTerminal ==
    ASSUME NEW a, NEW b, StageStep(a, b), a.state \in TERMINAL
    PROVE  b = a
  BY DEF StageStep, TERMINAL, CheckTransition, TRANSITIONS

\* No stage step loses results, or rewrites the contract of work under way.
LEMMA StageStepUndisturbed ==
    ASSUME NEW a \in Stage, NEW b, StageStep(a, b)
    PROVE  /\ a.refs \subseteq b.refs
           /\ a.state \in {"doing", "blocked"} => b.contract = a.contract
  <1>1. ASSUME NEW c \in Contract, NEW o \in Nat,
               a.state \in {"pending", "waiting_user"}, b = Rewritten(a, c, o)
        PROVE  b.refs = a.refs /\ a.state \notin {"doing", "blocked"}
    BY <1>1 DEF Rewritten, Stage
  <1>2. ASSUME NEW refs \in SUBSET Ref, b = Extended(a, refs)
        PROVE  a.refs \subseteq b.refs /\ b.contract = a.contract
    BY <1>2 DEF Extended, Stage
  <1>3. ASSUME NEW target \in StageState, NEW confirmed \in BOOLEAN,
               NEW kind \in ReviewKind \cup {NoKind}, NEW asked \in SUBSET Question,
               b = Moved(a, target, confirmed, kind, asked)
        PROVE  b.refs = a.refs /\ b.contract = a.contract
    BY <1>3, MovedFields
  <1> QED
    BY <1>1, <1>2, <1>3 DEF StageStep

\* A done or omitted stage never changes again.
THEOREM TerminalHolds == PlanSpec => TerminalStagesAreFrozen
  <1>1. TypeOK /\ [PlanNext]_doc =>
           [\A s \in StageIds(doc) : doc.stages[s].state \in TERMINAL =>
               s \in StageIds(doc') /\ doc'.stages[s] = doc.stages[s]]_doc
    BY PlanStepFollows, StageStepTerminal DEF Follows
  <1> QED
    BY <1>1, PlanTypeCorrect, PTL DEF PlanSpec, TerminalStagesAreFrozen

\* What is being executed keeps its contract, and results are never lost.
THEOREM ExecutionHolds == PlanSpec => ExecutionIsUndisturbed
  <1>1. ASSUME TypeOK, PlanNext
        PROVE  \A s \in StageIds(doc) :
                  /\ s \in StageIds(doc')
                  /\ doc.stages[s].refs \subseteq doc'.stages[s].refs
                  /\ doc.stages[s].state \in {"doing", "blocked"} =>
                        doc'.stages[s].contract = doc.stages[s].contract
    BY <1>1, PlanStepFollows, StageStepUndisturbed, StageOfDocument DEF Follows, TypeOK
  <1>2. TypeOK /\ [PlanNext]_doc =>
           [\A s \in StageIds(doc) :
               /\ s \in StageIds(doc')
               /\ doc.stages[s].refs \subseteq doc'.stages[s].refs
               /\ doc.stages[s].state \in {"doing", "blocked"} =>
                     doc'.stages[s].contract = doc.stages[s].contract]_doc
    BY <1>1
  <1> QED
    BY <1>2, PlanTypeCorrect, PTL DEF PlanSpec, ExecutionIsUndisturbed

-----------------------------------------------------------------------------
(* The store's inductive invariant.  A revision names one document: a plan   *)
(* that is remembered anywhere and has the row's revision is the row.  And a *)
(* process whose row was not overwritten since it read it holds a document   *)
(* the plan may step to.                                                     *)

USE IdleAssumption

Remembered(d) == d.revision <= doc.revision /\ (d.revision = doc.revision => d = doc)

TransactionInv(t) ==
    /\ t.read_revision <= doc.revision
    /\ t.read_revision = doc.revision => Writes(doc, t.after)
    /\ \A d \in t.decided : d.revision = t.read_revision /\ Remembered(d)

StoreInv ==
    /\ StoreTypeOK
    /\ \A a \in Agent : Remembered(seen[a])
    /\ \A p \in Process : txn[p] # Idle => TransactionInv(txn[p])

\* The store starts with the plan everybody remembers.
LEMMA StoreInitInv == Init => StoreInv
  <1> SUFFICES ASSUME Init PROVE StoreInv
    OBVIOUS
  <1>1. TypeOK
    BY PlanInitType DEF Init
  <1>2. NewPlan \in Document /\ doc = NewPlan
    BY <1>1 DEF Init, PlanInit, TypeOK
  <1>3. StoreTypeOK
    BY <1>1, <1>2 DEF Init, StoreTypeOK
  <1>4. \A a \in Agent : Remembered(seen[a])
    BY <1>2 DEF Init, Remembered, Document
  <1> QED
    BY <1>3, <1>4 DEF Init, StoreInv

\* What every call that starts a write has in common.
LEMMA BeginMutates ==
    ASSUME StoreInv, NEW p \in Process, NEW a \in Agent,
           \/ \E pinned \in BOOLEAN : Write(p, a, pinned)
           \/ \E asked \in (SUBSET Question) \ {{}} : BeginAsk(p, a, asked)
           \/ BeginClear(p, a)
    PROVE  \E pinned \in BOOLEAN, after \in Document :
              Writes(doc, after) /\ Mutate(p, a, pinned, after)
  <1> DEFINE Goal(pinned, after) == Writes(doc, after) /\ Mutate(p, a, pinned, after)
  <1>1. ASSUME NEW after, Writes(doc, after)
        PROVE  after \in Document
    <2>1. TypeOK
      BY DEF StoreInv, StoreTypeOK
    <2> QED
      BY <1>1, <2>1, WritesFollow DEF TypeOK, Follows
  <1>2. \E pinned \in BOOLEAN : \E after : Goal(pinned, after)
    <2>1. ASSUME NEW pinned \in BOOLEAN, Write(p, a, pinned)
          PROVE  \E after : Goal(pinned, after)
      BY <2>1 DEF Write, BeginAuthor, BeginRewrite, BeginAttach, BeginUpdate, Writes, Mutate, Writable
    <2>2. ASSUME NEW asked \in (SUBSET Question) \ {{}}, BeginAsk(p, a, asked)
          PROVE  Goal(FALSE, Asked(doc, asked))
      BY <2>2 DEF BeginAsk, Writes, Mutate, Writable
    <2>3. CASE BeginClear(p, a)
      <3>1. Goal(FALSE, Cleared(doc))
        BY <2>3 DEF BeginClear, Writes, Mutate, Writable
      <3> QED
        BY <3>1
    <2> QED
      BY <2>1, <2>2, <2>3
  <1> QED
    BY <1>1, <1>2

\* A read of the plan keeps the invariant.
LEMMA GetPlanInv == ASSUME StoreInv, NEW a \in Agent, GetPlan(a) PROVE StoreInv'
  <1>1. doc \in Document /\ doc' = doc /\ txn' = txn
    BY DEF StoreInv, StoreTypeOK, TypeOK, GetPlan
  <1>2. StoreTypeOK'
    BY <1>1 DEF StoreInv, StoreTypeOK, TypeOK, GetPlan
  <1>3. \A b \in Agent : Remembered(seen[b])'
    BY <1>1 DEF StoreInv, StoreTypeOK, GetPlan, Remembered, Document
  <1>4. \A p \in Process : txn'[p] # Idle => TransactionInv(txn[p])'
    BY <1>1 DEF StoreInv, TransactionInv, Remembered
  <1> QED
    BY <1>2, <1>3, <1>4 DEF StoreInv

\* The first half of _mutate: what it computed from the row is a legal write of it.
LEMMA MutateInv ==
    ASSUME StoreInv, NEW p \in Process, NEW a \in Agent, NEW pinned \in BOOLEAN,
           NEW after \in Document, Writes(doc, after), Mutate(p, a, pinned, after)
    PROVE  StoreInv'
  <1> DEFINE t == [agent |-> a, read_revision |-> doc.revision, after |-> after,
                   decided |-> IF pinned THEN {seen[a]} ELSE {}]
  <1>1. /\ doc \in Document /\ doc.revision \in Nat
        /\ doc' = doc /\ seen' = seen
        /\ txn' = [txn EXCEPT ![p] = t]
        /\ seen[a] \in Document
    BY DEF StoreInv, StoreTypeOK, TypeOK, Mutate, Document
  <1>2. t \in Transaction
    BY <1>1 DEF Transaction
  <1>3. StoreTypeOK'
    BY <1>1, <1>2 DEF StoreInv, StoreTypeOK, TypeOK
  <1>4. \A b \in Agent : Remembered(seen[b])'
    BY <1>1 DEF StoreInv, Remembered
  <1>5. TransactionInv(t)
    <2>1. pinned => seen[a].revision = doc.revision /\ Remembered(seen[a])
      BY DEF Mutate, RevisionExpected, StoreInv
    <2> QED
      BY <1>1, <2>1 DEF TransactionInv
  <1>6. \A q \in Process : txn'[q] # Idle => TransactionInv(txn[q])'
    <2> TAKE q \in Process
    <2> HAVE txn'[q] # Idle
    <2>1. txn'[q] = IF q = p THEN t ELSE txn[q]
      BY <1>1 DEF StoreInv, StoreTypeOK
    <2>2. TransactionInv(txn'[q])
      BY <2>1, <1>5 DEF StoreInv
    <2> QED
      BY <1>1, <2>2 DEF TransactionInv, Remembered
  <1> QED
    BY <1>3, <1>4, <1>6 DEF StoreInv

\* The row a process overwrites is the one it read, so it writes a plan the
\* row may step to.
LEMMA CommitWrites ==
    ASSUME StoreInv, NEW p \in Process, Commit(p)
    PROVE  /\ txn[p] \in Transaction
           /\ doc \in Document
           /\ Writes(doc, doc')
           /\ doc' = txn[p].after
           /\ doc' \in Document
           /\ doc'.revision = doc.revision + 1
           /\ \A d \in txn[p].decided : doc = d
  <1>1. txn[p] \in Transaction /\ doc \in Document
    BY DEF StoreInv, StoreTypeOK, TypeOK, Commit
  <1>2. TransactionInv(txn[p]) /\ doc.revision = txn[p].read_revision
    BY DEF StoreInv, Commit, RowStillRead
  <1>3. Writes(doc, doc') /\ doc' = txn[p].after
    BY <1>2 DEF TransactionInv, Commit
  <1>4. doc' \in Document /\ doc'.revision = doc.revision + 1
    BY <1>1, <1>3, WritesFollow, WritesRevision DEF Follows
  <1>5. \A d \in txn[p].decided : doc = d
    BY <1>2 DEF TransactionInv, Remembered
  <1> QED
    BY <1>1, <1>3, <1>4, <1>5

\* The UPDATE that finds its revision makes every older transaction unable to succeed.
LEMMA CommitInv == ASSUME StoreInv, NEW p \in Process, Commit(p) PROVE StoreInv'
  <1>1. /\ txn[p].agent \in Agent
        /\ doc'.revision = doc.revision + 1 /\ doc' \in Document /\ doc \in Document
        /\ doc.revision \in Nat
        /\ seen' = [seen EXCEPT ![txn[p].agent] = doc']
        /\ txn' = [txn EXCEPT ![p] = Idle]
    BY CommitWrites DEF Commit, Transaction, Document
  <1>2. StoreTypeOK'
    BY <1>1 DEF StoreInv, StoreTypeOK, TypeOK
  <1>3. \A d \in Document : Remembered(d) => d.revision < doc'.revision
    BY <1>1 DEF Remembered, Document
  <1>4. \A b \in Agent : Remembered(seen[b])'
    <2> TAKE b \in Agent
    <2>1. CASE b = txn[p].agent
      BY <1>1, <2>1 DEF StoreInv, StoreTypeOK, Remembered, Document
    <2>2. CASE b # txn[p].agent
      <3>1. seen'[b] = seen[b] /\ seen[b] \in Document /\ Remembered(seen[b])
        BY <1>1, <2>2 DEF StoreInv, StoreTypeOK
      <3>2. seen'[b].revision < doc'.revision
        BY <1>3, <3>1
      <3> QED
        BY <1>1, <3>1, <3>2 DEF Remembered, Document
    <2> QED
      BY <2>1, <2>2
  <1>5. \A q \in Process : txn'[q] # Idle => TransactionInv(txn[q])'
    <2> TAKE q \in Process
    <2> HAVE txn'[q] # Idle
    <2>1. txn'[q] = txn[q] /\ txn[q] # Idle /\ txn[q] \in Transaction
      BY <1>1 DEF StoreInv, StoreTypeOK
    <2>2. TransactionInv(txn[q])
      BY <2>1 DEF StoreInv
    <2>3. txn[q].read_revision \in Nat /\ txn[q].read_revision < doc'.revision
      BY <1>1, <2>1, <2>2 DEF TransactionInv, Transaction
    <2>4. \A d \in txn[q].decided : d.revision = txn[q].read_revision /\ d.revision < doc'.revision
      BY <2>2, <2>3 DEF TransactionInv
    <2>5. /\ txn'[q].read_revision < doc'.revision
          /\ \A d \in txn'[q].decided : d.revision = txn'[q].read_revision
      BY <2>1, <2>3, <2>4
    <2>6. doc'.revision \in Nat /\ txn'[q].read_revision \in Nat
      BY <1>1, <2>1, <2>3
    <2> QED
      BY <2>5, <2>6 DEF TransactionInv, Remembered
  <1> QED
    BY <1>2, <1>4, <1>5 DEF StoreInv

\* A transaction that conflicts or dies leaves nothing.
LEMMA DropInv ==
    ASSUME StoreInv, NEW p \in Process, txn' = [txn EXCEPT ![p] = Idle], UNCHANGED <<doc, seen>>
    PROVE  StoreInv'
  <1>1. StoreTypeOK'
    BY DEF StoreInv, StoreTypeOK, TypeOK
  <1>2. \A q \in Process : txn'[q] # Idle => txn'[q] = txn[q]
    BY DEF StoreInv, StoreTypeOK
  <1>3. \A q \in Process : txn'[q] # Idle => TransactionInv(txn[q])'
    BY <1>2 DEF StoreInv, TransactionInv, Remembered
  <1> QED
    BY <1>1, <1>3 DEF StoreInv, Remembered

\* Every step of the store keeps the invariant.
LEMMA StoreStepInv == StoreInv /\ [Next]_vars => StoreInv'
  <1> SUFFICES ASSUME StoreInv, [Next]_vars PROVE StoreInv'
    OBVIOUS
  <1>1. ASSUME NEW a \in Agent, GetPlan(a) PROVE StoreInv'
    BY <1>1, GetPlanInv
  <1>2. ASSUME NEW p \in Process, NEW a \in Agent,
               \/ \E pinned \in BOOLEAN : Write(p, a, pinned)
               \/ \E asked \in (SUBSET Question) \ {{}} : BeginAsk(p, a, asked)
               \/ BeginClear(p, a)
        PROVE  StoreInv'
    BY <1>2, BeginMutates, MutateInv
  <1>3. ASSUME NEW p \in Process, Commit(p) PROVE StoreInv'
    BY <1>3, CommitInv
  <1>4. ASSUME NEW p \in Process, RevisionConflict(p) \/ Abort(p) PROVE StoreInv'
    BY <1>4, DropInv DEF RevisionConflict, Abort
  <1>5. CASE UNCHANGED vars
    BY <1>5 DEF vars, StoreInv, StoreTypeOK, TypeOK, Remembered, TransactionInv
  <1> QED
    BY <1>1, <1>2, <1>3, <1>4, <1>5 DEF Next

\* Every remembered plan with the row's revision is the row, and every write
\* under way that can still succeed is a legal one.
THEOREM StoreInvariant == Spec => []StoreInv
  BY StoreInitInv, StoreStepInv, PTL DEF Spec

\* The row, the transactions and what agents remember have their types.
THEOREM StoreTypeCorrect == Spec => []StoreTypeOK
  <1>1. StoreInv => StoreTypeOK
    BY DEF StoreInv
  <1> QED
    BY <1>1, StoreInvariant, PTL

-----------------------------------------------------------------------------
(* Refinement.                                                              *)

\* Under the invariant a commit is a step of the plan; all else leaves it alone.
LEMMA StoreStepRefines == StoreInv /\ [Next]_vars => [PlanNext]_doc
  <1> SUFFICES ASSUME StoreInv, [Next]_vars PROVE [PlanNext]_doc
    OBVIOUS
  <1>1. ASSUME NEW p \in Process, Commit(p) PROVE PlanNext
    BY <1>1, CommitWrites, WritesIsPlanNext
  <1>2. ASSUME NEW p \in Process, NEW a \in Agent,
               \/ \E pinned \in BOOLEAN : Write(p, a, pinned)
               \/ \E asked \in (SUBSET Question) \ {{}} : BeginAsk(p, a, asked)
               \/ BeginClear(p, a)
        PROVE  doc' = doc
    BY <1>2, BeginMutates DEF Mutate
  <1> QED
    BY <1>1, <1>2 DEF Next, GetPlan, RevisionConflict, Abort, vars

\* The row of the file goes through the steps of the abstract plan: the
\* conditional UPDATE makes concurrent _mutates atomic.
THEOREM StoreImplementsPlan == Spec => ImplementsPlan
  <1>1. Init => PlanInit
    BY DEF Init
  <1> QED
    BY <1>1, StoreInvariant, StoreStepRefines, PTL DEF Spec, ImplementsPlan, PlanSpec

\* So the gate, the results rule and the review fields hold in the store.
THEOREM StoreKeepsPlanInv == Spec => []PlanInv
  BY StoreImplementsPlan, PlanInvariant, PTL DEF ImplementsPlan

\* A write pinned to a revision replaces the very plan its caller decided on.
THEOREM PinnedWritesHold == Spec => PinnedWriteReplacesWhatWasRead
  <1>1. StoreInv /\ [Next]_vars =>
           [\A p \in Process : Commit(p) => \A d \in txn[p].decided : doc = d]_vars
    BY CommitWrites
  <1> QED
    BY <1>1, StoreInvariant, PTL DEF Spec, PinnedWriteReplacesWhatWasRead
=============================================================================
