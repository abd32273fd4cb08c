---------------------------- MODULE StageMachine ----------------------------
(***************************************************************************)
(* The stage state machine: plan/state_machine.py, over the stage of       *)
(* plan/model.py.  A constant-level module: every definition is about one  *)
(* stage record and is used both by the abstract plan (Plan) and by the    *)
(* store that keeps it (PlanStore).                                        *)
(***************************************************************************)
EXTENDS Naturals

CONSTANTS
    Contract,    \* the contracts a Planner may write (goal, inputs, items...)
    NoContract,  \* a stage nobody has authored
    Ref,         \* pointers to produced artefacts, each with its ref_id
    Question     \* the questions a Planner may ask the user

ASSUME NoContractAssumption == NoContract \notin Contract

StageState == {"pending", "waiting_user", "doing", "blocked", "done", "omitted"}

ReviewKind == {"plan_review", "result_review"}

NoKind == "none"

\* Of the stage's fields: goal is the contract's, blocked_reason, notes and
\* attempts only word a message.  "approved" is a history field, not in the
\* code: a user confirmation has taken the stage out of plan review.
Stage ==
    [order       : Nat,
     state       : StageState,
     contract    : Contract \cup {NoContract},
     refs        : SUBSET Ref,
     review_kind : ReviewKind \cup {NoKind},
     questions   : SUBSET Question,
     approved    : BOOLEAN]

\* The edges of the machine; there is none from pending to doing.
TRANSITIONS ==
    {<<"pending", "waiting_user">>, <<"pending", "omitted">>,
     <<"waiting_user", "doing">>, <<"waiting_user", "done">>, <<"waiting_user", "omitted">>,
     <<"doing", "done">>, <<"doing", "blocked">>, <<"doing", "waiting_user">>,
     <<"blocked", "doing">>, <<"blocked", "omitted">>}

TERMINAL == {"done", "omitted"}

-----------------------------------------------------------------------------
(* The rules of check_transition, one operator each.  A definition with an *)
(* underscore is a mutant of the next one: the code with a bug in it.       *)

ReviewKindMatches(stage, target, kind) ==
    target = "waiting_user" =>
        kind = IF stage.state = "pending" THEN "plan_review" ELSE "result_review"

ContractPresent(stage, target) ==
    target \in {"waiting_user", "doing"} => stage.contract # NoContract

ReviewPassed_OnlyForDone(stage, target, confirmed) ==
    stage.state = "waiting_user" /\ target = "done" =>
        stage.review_kind = "result_review" /\ confirmed

ReviewPassed(stage, target, confirmed) ==
    stage.state = "waiting_user" /\ target \in {"doing", "done"} =>
        /\ target = "done" => stage.review_kind = "result_review"
        /\ confirmed

ResultsPresent_OnlyForDone(stage, target, kind) ==
    target = "done" => stage.refs # {}

ResultsPresent(stage, target, kind) ==
    target = "done" \/ (target = "waiting_user" /\ kind = "result_review") =>
        stage.refs # {}

\* check_transition: the move is allowed (it raises a PlanError otherwise).
CheckTransition(stage, target, confirmed, kind) ==
    /\ <<stage.state, target>> \in TRANSITIONS
    /\ ReviewKindMatches(stage, target, kind)
    /\ ContractPresent(stage, target)
    /\ ReviewPassed(stage, target, confirmed)
    /\ ResultsPresent(stage, target, kind)

Moved_KeepsReview(stage, target, confirmed, kind, asked) ==
    [stage EXCEPT
        !.state       = target,
        !.review_kind = IF kind = NoKind THEN @ ELSE kind,
        !.questions   = asked,
        !.approved    = @ \/ (/\ confirmed
                              /\ stage.review_kind = "plan_review"
                              /\ target = "doing")]

\* The record update_stage_state writes for a move check_transition allowed.
Moved(stage, target, confirmed, kind, asked) ==
    [stage EXCEPT
        !.state       = target,
        !.review_kind = IF target = "waiting_user" THEN kind ELSE NoKind,
        !.questions   = IF target = "waiting_user" THEN asked ELSE {},
        !.approved    = @ \/ (/\ confirmed
                              /\ stage.review_kind = "plan_review"
                              /\ target = "doing")]
=============================================================================
