-------------------------------- MODULE Plan --------------------------------
(***************************************************************************)
(* What the Plan Store promises: one plan document, changed by one whole   *)
(* operation at a time.  Each operation below is a closure that            *)
(* plan/store.py hands to _mutate, applied to the current document; the    *)
(* module PlanStore shows how reading, checking and the conditional UPDATE *)
(* of several processes implement it.                                      *)
(***************************************************************************)
EXTENDS StageMachine, Sequences

CONSTANTS
    MaxStages,    \* bound: stages a Planner authors
    MaxRevision   \* bound: writes to the plan

ASSUME PlanBounds == MaxStages \in Nat /\ MaxRevision \in Nat

VARIABLE doc

Document == [revision : Nat, stages : Seq(Stage), open_questions : SUBSET Question]

NewPlan == [revision |-> 0, stages |-> <<>>, open_questions |-> {}]

StageIds(d) == DOMAIN d.stages

\* An order given by the Planner, or the default: after every existing stage.
Orders(d) == 1 .. Len(d.stages) + 1

-----------------------------------------------------------------------------
(* The documents the operations write.  A definition with an underscore is *)
(* a mutant of the next one: the code with a bug in it.                     *)

\* _mutate adds one to the revision it read.
Written(d, stages, asked) ==
    [revision |-> d.revision + 1, stages |-> stages, open_questions |-> asked]

WithStage(d, s, stage) == Written(d, [d.stages EXCEPT ![s] = stage], d.open_questions)

NewStage(c, o) ==
    [order |-> o, state |-> "pending", contract |-> c, refs |-> {},
     review_kind |-> NoKind, questions |-> {}, approved |-> FALSE]

Authored(d, c, o) == Written(d, Append(d.stages, NewStage(c, o)), d.open_questions)

Rewritten(stage, c, o) == [stage EXCEPT !.contract = c, !.questions = {}, !.order = o]

Reauthored(d, s, c, o) == WithStage(d, s, Rewritten(d.stages[s], c, o))

Extended_AppendsTheList(stage, refs) == [stage EXCEPT !.refs = @ \cup {refs}]

Extended_Overwrites(stage, refs) == [stage EXCEPT !.refs = refs]

\* Extending with the refs whose id is not known yet: as a set, the union.
Extended(stage, refs) == [stage EXCEPT !.refs = @ \cup refs]

Attached(d, s, refs) == WithStage(d, s, Extended(d.stages[s], refs))

Updated(d, s, target, confirmed, kind, asked) ==
    WithStage(d, s, Moved(d.stages[s], target, confirmed, kind, asked))

\* Python's sorted() is stable: equal orders keep the order of authoring.
Precedes(d, s, t) ==
    \/ d.stages[s].order < d.stages[t].order
    \/ d.stages[s].order = d.stages[t].order /\ s <= t

AuthoredPending(d) ==
    {s \in StageIds(d) : d.stages[s].state = "pending" /\ d.stages[s].contract # NoContract}

\* The stage ask_user moves into plan review: none, or the first one in order.
FirstAuthoredPending(d) ==
    {s \in AuthoredPending(d) : \A t \in AuthoredPending(d) : Precedes(d, s, t)}

Asked(d, asked) ==
    Written(d,
            [s \in StageIds(d) |->
                IF s \in FirstAuthoredPending(d)
                THEN Moved(d.stages[s], "waiting_user", FALSE, "plan_review", asked)
                ELSE d.stages[s]],
            asked)

Cleared(d) == Written(d, d.stages, {})

-----------------------------------------------------------------------------
(* When the closures raise instead of writing.                              *)

CanReauthor_NotRunning(d, s) == d.stages[s].state \notin {"doing", "blocked"}

CanReauthor(d, s) == d.stages[s].state \in {"pending", "waiting_user"}

CanAttach(d, s) == d.stages[s].state = "doing"

-----------------------------------------------------------------------------
(* The operations.                                                          *)

PlanInit == doc = NewPlan

Writable == doc.revision < MaxRevision

AuthorStage(c, o) ==
    /\ Writable
    /\ Len(doc.stages) < MaxStages
    /\ doc' = Authored(doc, c, o)

RewriteContract(s, c, o) ==
    /\ Writable
    /\ CanReauthor(doc, s)
    /\ doc' = Reauthored(doc, s, c, o)

AttachRuntime(s, refs) ==
    /\ Writable
    /\ CanAttach(doc, s)
    /\ doc' = Attached(doc, s, refs)

UpdateStageState(s, target, confirmed, kind, asked) ==
    /\ Writable
    /\ CheckTransition(doc.stages[s], target, confirmed, kind)
    /\ doc' = Updated(doc, s, target, confirmed, kind, asked)

AskUser(asked) == Writable /\ doc' = Asked(doc, asked)

ClearQuestions == Writable /\ doc' = Cleared(doc)

PlanNext ==
    \/ \E c \in Contract : \E o \in Orders(doc) : AuthorStage(c, o)
    \/ \E c \in Contract : \E s \in StageIds(doc) : \E o \in Orders(doc) \cup {doc.stages[s].order} :
          RewriteContract(s, c, o)
    \/ \E s \in StageIds(doc), refs \in SUBSET Ref : AttachRuntime(s, refs)
    \/ \E s \in StageIds(doc), target \in StageState, confirmed \in BOOLEAN,
          kind \in ReviewKind \cup {NoKind}, asked \in SUBSET Question :
          UpdateStageState(s, target, confirmed, kind, asked)
    \/ \E asked \in (SUBSET Question) \ {{}} : AskUser(asked)
    \/ ClearQuestions

PlanSpec == PlanInit /\ [][PlanNext]_doc

-----------------------------------------------------------------------------
(* What the plan promises.                                                  *)

TypeOK == doc \in Document

Executed(stage) ==
    \/ stage.state \in {"doing", "blocked", "done"}
    \/ stage.review_kind = "result_review"
    \/ stage.refs # {}

\* The gate: a stage is being executed, was executed or has produced
\* something only if it has a contract and a confirmation of the user took it
\* out of plan review, whatever sequence of blocks, reviews, rewrites and
\* questions it went through since.
ExecutedOnlyIfApproved ==
    \A s \in StageIds(doc) : Executed(doc.stages[s]) =>
        doc.stages[s].approved /\ doc.stages[s].contract # NoContract

\* A stage is done, or presented for result review, only with something
\* produced: a model that finishes by saying so is refused.
FinishedOnlyWithResults ==
    \A s \in StageIds(doc) :
        \/ doc.stages[s].state = "done"
        \/ doc.stages[s].review_kind = "result_review"
        => doc.stages[s].refs # {}

\* review_kind says why a stage waits for the user exactly while it waits, and
\* a stage shows questions only then, whichever of the three operations that
\* write these fields ran last.
ReviewFieldsMatchState ==
    \A s \in StageIds(doc) :
        /\ doc.stages[s].review_kind # NoKind <=> doc.stages[s].state = "waiting_user"
        /\ doc.stages[s].questions # {} => doc.stages[s].state = "waiting_user"

\* done and omitted accept nothing: no later operation, a replayed or a
\* confused one, changes any field of such a stage, or removes it.
TerminalStagesAreFrozen ==
    [][\A s \in StageIds(doc) : doc.stages[s].state \in TERMINAL =>
          s \in StageIds(doc') /\ doc'.stages[s] = doc.stages[s]]_doc

\* While a stage is doing or blocked, the contract its Executor works from is
\* not rewritten under it, and what a stage has produced is never taken away.
ExecutionIsUndisturbed ==
    [][\A s \in StageIds(doc) :
          /\ s \in StageIds(doc')
          /\ doc.stages[s].refs \subseteq doc'.stages[s].refs
          /\ doc.stages[s].state \in {"doing", "blocked"} =>
                doc'.stages[s].contract = doc.stages[s].contract]_doc

\* What README.md and state_machine.py say of the review: a stage does not
\* leave waiting_user without a confirmation of the user.  (A confirmation of a
\* plan review shows as "approved".)
ReviewLeftOnlyByConfirmation ==
    [][\A s \in StageIds(doc) :
          doc.stages[s].review_kind = "plan_review" =>
              \/ doc'.stages[s].state = "waiting_user"
              \/ doc'.stages[s].approved]_doc

\* What ask_user's docstring says: the stage that carries the Planner's
\* questions is not started while the Planner waits for the answers.
NotStartedWhileAuthorWaits ==
    [][\A s \in StageIds(doc) :
          doc.open_questions # {} /\ doc.stages[s].questions # {} =>
              doc'.stages[s].state # "doing"]_doc
=============================================================================
