----------------------------- MODULE MCServices -----------------------------
(***************************************************************************)
(* What serves the agents: the stored conversation, the profile of a topic, *)
(* the assets, the events of a turn and the evaluation suite.  They share   *)
(* no state here, so a behaviour is one of one of them, chosen once by part. *)
(***************************************************************************)
EXTENDS SessionMemory, LongTermMemory, AssetPool, TurnEvents, EvalSuite
LOCAL INSTANCE SequencesExt

VARIABLE part

-----------------------------------------------------------------------------
(* The cases of the evaluation suite and what the agents may do in a turn.  *)

EvalTools ==
    [orchestrator |-> {"dispatch_router", "dispatch_planner", "dispatch_executor"},
     planner |-> {"plan_create"}, executor |-> {"write_draft"}]

Called(role, name, arguments) ==
    [role |-> role, name |-> name, arguments |-> arguments, ok |-> TRUE, route |-> "workflow",
     interrupt |-> name = "dispatch_planner", plan_id |-> "plan_0001"]

Planned(revision, state) ==
    {[id |-> "plan_0001", revision |-> revision, open_questions |-> FALSE,
      stages |-> <<[id |-> "stage_01", state |-> state, inputs |-> {}, sources |-> {}]>>]}

NoArguments == [none \in {} |-> none]

Turned(output, outcome, subs, own, plan, workspace) ==
    [user |-> {}, output |-> output, outcome |-> outcome, calls |-> subs, own |-> own,
     plan |-> plan, workspace |-> workspace]

Routing == Called("orchestrator", "dispatch_router", NoArguments)
Planning == Called("orchestrator", "dispatch_planner", NoArguments)
Creating == Called("planner", "plan_create", NoArguments)
Drafting(tone) ==
    Called("executor", "write_draft", [tone |-> [terms |-> {tone}, number |-> {}]])
Executing ==
    Called("orchestrator", "dispatch_executor",
           [stage_id |-> [terms |-> {"stage_01"}, number |-> {}]])
Draft(tone) == {[id |-> "draft_0001", kind |-> "draft", attribute |-> tone]}

\* Turns of the agents: a plan to be approved, one made before the router was
\* asked, an answer, a draft in the right or the wrong tone, an invented id, a
\* Planner run that made the plan and failed, a crash.
EvalBehaviour ==
    {Turned({"?"}, "ok", <<Creating>>, <<Routing, Planning>>, Planned(1, "waiting_user"), {}),
     Turned({"?"}, "ok", <<Creating>>, <<Planning, Routing>>, Planned(1, "waiting_user"), {}),
     Turned({"?"}, "ok", <<>>, <<Routing, Planning>>, Planned(1, "waiting_user"), {}),
     Turned({"hello"}, "ok", <<>>, <<Routing>>, {}, {}),
     Turned({"plan_0002"}, "ok", <<Creating>>, <<Routing, Planning>>, Planned(1, "waiting_user"), {}),
     Turned({"draft_0001"}, "ok", <<Drafting("formal")>>, <<Executing>>, Planned(2, "done"), Draft("formal")),
     Turned({"stage_01"}, "ok", <<Drafting("neutral")>>, <<Executing>>, Planned(2, "done"), Draft("neutral")),
     Turned({}, "agents_error", <<>>, <<Routing>>, {}, {}),
     Turned({}, "crashed", <<>>, <<Routing, Planning>>, Planned(1, "waiting_user"), {})}

PlansFirst == [Expect EXCEPT
    !.route = {"workflow"}, !.interrupted = {TRUE},
    !.calls["orchestrator"] = [NoCalls EXCEPT
        !.ordered = <<"dispatch_router", "dispatch_planner">>,
        !.counts = {[name |-> "dispatch_planner", range |-> [min |-> {1}, max |-> {1}]]}],
    !.plan = [NoPlanClaim EXCEPT !.exists = {TRUE}, !.any_in = {"waiting_user"},
                                 !.open_questions = {FALSE}],
    !.output = [NoOutput EXCEPT !.asks_question = {TRUE}]]

ThenDrafts == [Expect EXCEPT
    !.calls["executor"] = [NoCalls EXCEPT
        !.includes = {"write_draft"},
        !.args = {[tool |-> "write_draft", every |-> TRUE,
                   match |-> {[key |-> "tone", op |-> "contains", operand |-> "formal"]}]}],
    !.plan = [NoPlanClaim EXCEPT !.all_in = {"done"}],
    !.counts = {[kind |-> "draft", range |-> [min |-> {1}, max |-> {}]]},
    !.draft_tones = {"formal"}]

EvalCase ==
    [j1 |-> [turns |-> <<PlansFirst>>, approve |-> 2, final |-> {ThenDrafts}, judge |-> TRUE, grounded |-> TRUE],
     j2 |-> [turns |-> <<PlansFirst>>, approve |-> 0, final |-> {}, judge |-> FALSE, grounded |-> FALSE]]

-----------------------------------------------------------------------------
(* The wanted names "x", "x (2)" and "a_0002", the id of the second asset.   *)

NamesWanted == {[base |-> "x", suffix |-> <<>>], [base |-> "x", suffix |-> <<2>>], IdOf(2)}

ServicesInit ==
    /\ part \in {"memory", "profile", "assets", "events", "evals"}
    /\ MemoryInit /\ LongTermInit /\ AssetInit /\ TurnEventsInit /\ EvalInit
    /\ part # "evals" => free = 1

ServicesNext ==
    \/ /\ part = "memory" /\ MemoryNext
       /\ UNCHANGED <<longTermVars, assetVars, turnEventVars, evalVars>>
    \/ /\ part = "profile" /\ LongTermNext
       /\ UNCHANGED <<memoryVars, assetVars, turnEventVars, evalVars>>
    \/ /\ part = "assets" /\ AssetNext
       /\ UNCHANGED <<memoryVars, longTermVars, turnEventVars, evalVars>>
    \/ /\ part = "events" /\ TurnEventsNext
       /\ UNCHANGED <<memoryVars, longTermVars, assetVars, evalVars>>
    \/ /\ part = "evals" /\ EvalNext
       /\ UNCHANGED <<memoryVars, longTermVars, assetVars, turnEventVars>>

servicesVars == <<part, memoryVars, longTermVars, assetVars, turnEventVars, evalVars>>

ServicesSpec == ServicesInit /\ [][ServicesNext /\ UNCHANGED part]_servicesVars

\* The type invariants of all of them.
ServicesTypeOK ==
    MemoryTypeOK /\ LongTermTypeOK /\ AssetTypeOK /\ TurnEventsTypeOK /\ EvalTypeOK
=============================================================================
