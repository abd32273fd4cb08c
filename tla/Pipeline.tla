------------------------------ MODULE Pipeline ------------------------------
(***************************************************************************)
(* One chat of the four-role flow, as agents/demo_model.py drives it: an   *)
(* orchestrator that decides its next tool call from the user's message,   *)
(* the last result and the plan it is shown, and the Planner and Executor  *)
(* it dispatches.  agents/dispatch.py, agents/submit.py, the plan tools    *)
(* and the content tools are the calls.                                    *)
(*                                                                         *)
(* A turn runs in one process and the plans are in the shared file; the    *)
(* artefacts are in the workspace of the process that made them.  Only one *)
(* turn of a chat runs at a time, unless its lease lapses (Leases), and a  *)
(* process may crash, or a model, a tool or a sub-agent fail, anywhere.    *)
(***************************************************************************)
EXTENDS Integers, Sequences, FiniteSets

CONSTANTS
    Process,     \* the processes a turn of the chat may run in
    MaxTurns,    \* bound: messages the user sends
    MaxPlans,    \* bound: plans created in the chat
    MaxFaults,   \* bound: crashes, failures and lapsed leases, together
    MaxStages,   \* bound: stages of one plan
    MaxRevision  \* bound: writes to one plan

ASSUME PipelineBounds ==
    /\ IsFiniteSet(Process)
    /\ MaxTurns \in Nat /\ MaxPlans \in Nat \ {0} /\ MaxFaults \in Nat
    /\ MaxStages \in Nat /\ MaxRevision \in Nat

VARIABLES
    plans,       \* the plan rows of the chat, by number; the last is the latest
    turn,        \* per process: the turn it runs
    workspace,   \* per process: how many artefacts of each kind it has made
    sent,        \* messages sent
    faults,      \* faults so far
    shown        \* history: the stages presented to the user, as <<plan, stage>>

pipelineVars == <<plans, turn, workspace, sent, faults, shown>>

-----------------------------------------------------------------------------
(* The data.                                                                *)

Kind == {"brief", "outline", "draft", "render"}

\* Of a user's text the rules read only whether it approves, skips, asks for
\* new work, asks for staged work, and names an audience.
Message == {"approve", "skip", "chat", "piece", "series", "series_for"}

NewWork(m) == m \in {"piece", "series", "series_for"}

Staged(m) == m \in {"series", "series_for"}

\* The kinds the Planner's three stages produce, one per work item.
STAGE_SPECS == <<<<"brief", "outline">>, <<"draft">>, <<"render">>>>

\* What a content tool works from, by the kind it makes.
MadeFrom == [outline |-> "brief", draft |-> "outline", render |-> "draft"]

\* A contract, as far as the rules read it: which spec, and the stage whose
\* outputs it consumes (0: none).
Contract == [spec : DOMAIN STAGE_SPECS, input : 0 .. MaxStages]

NoContract == [spec |-> 0, input |-> 0]

Ref == [kind : Kind, n : Nat \ {0}]

\* A stage, its refs reduced to their kinds.
ByKind(stage) == [stage EXCEPT !.refs = {ref.kind : ref \in @}]

\* The plan of number i, its refs reduced to their kinds.
Abstract(i) ==
    IF i \notin DOMAIN plans
    THEN [revision |-> 0, stages |-> <<>>, open_questions |-> {}]
    ELSE [plans[i] EXCEPT !.stages = [s \in DOMAIN @ |-> ByKind(@[s])]]

\* The chat's first and second plan, as the abstract plan sees them.
First == INSTANCE Plan WITH doc <- Abstract(1), Ref <- Kind, Question <- {"audience"}

Second == INSTANCE Plan WITH doc <- Abstract(2), Ref <- Kind, Question <- {"audience"}

Items(stage) == STAGE_SPECS[stage.contract.spec]

PendingItems_AnyRef(stage) ==
    IF stage.refs # {} THEN {} ELSE {Items(stage)[i] : i \in DOMAIN Items(stage)}

\* Work items with no ref yet: what a retry should target.
PendingItems(stage) ==
    {Items(stage)[i] : i \in DOMAIN Items(stage)} \ {ref.kind : ref \in stage.refs}

\* What the Turn Context shows: the chat's latest plan.
Latest == Len(plans)

Stages == IF plans = <<>> THEN <<>> ELSE plans[Latest].stages

Questions == IF plans = <<>> THEN {} ELSE plans[Latest].open_questions

InState(state) == {s \in DOMAIN Stages : Stages[s].state = state}

\* PlanRows.first: the first stage in that state, in order.
FirstIn(state) ==
    CHOOSE s \in InState(state) : \A t \in InState(state) : First!Precedes(plans[Latest], s, t)

-----------------------------------------------------------------------------
(* The turn.  at is what happens next: the orchestrator opens the turn or  *)
(* goes on from its last result (out), its call is performed, or the       *)
(* sub-agent that the call dispatched is running (run).                    *)

Idle == [at |-> "idle"]

Turn(m) == [at |-> "open", say |-> m, call |-> Idle, out |-> Idle, run |-> Idle, tries |-> 0]

Calls(p, call) == turn' = [turn EXCEPT ![p].at = "call", ![p].call = call]

Returns(p, out) ==
    turn' = [turn EXCEPT ![p].at = "next", ![p].out = out, ![p].call = Idle, ![p].run = Idle]

Fails(p) == Returns(p, [tool |-> "error"])

Replies(p) == turn' = [turn EXCEPT ![p] = Idle]

Move(i, s, target, confirmed, kind) ==
    [tool |-> "plan_update_stage_state", plan |-> i, stage |-> s, target |-> target,
     user_confirmed |-> confirmed, review_kind |-> kind]

Present(i, s) == Move(i, s, "waiting_user", FALSE, "plan_review")

ExecuteStage(i, s, retry) == [tool |-> "dispatch_executor", plan |-> i, stage |-> s, retry |-> retry]

Plan(i, answers) == [tool |-> "dispatch_planner", plan |-> i, answers |-> answers]

-----------------------------------------------------------------------------
(* The orchestrator's rules.  Each is one case of _open_turn.               *)

Opening(p, m) == turn[p].at = "open" /\ turn[p].say = m

OpenAnswers(p, m) ==
    /\ Opening(p, m) /\ Questions # {}
    /\ Calls(p, Plan(Latest, TRUE))

Reviewing(m) == Questions = {} /\ InState("waiting_user") # {} /\ ~NewWork(m)

OpenReview(p, m) ==
    /\ Opening(p, m) /\ Reviewing(m)
    /\ LET s == FirstIn("waiting_user") IN
       \/ m = "skip" /\ Calls(p, Move(Latest, s, "omitted", FALSE, "none"))
       \/ m = "approve" /\ Calls(p, Move(Latest, s, "doing", TRUE, "none"))
       \/ m = "chat" /\ Replies(p)

\* Nothing is waiting: a blocked stage may be skipped, or taken up again, and a
\* stage left in doing by an interrupted turn is executed.
OpenResume(p, m) ==
    /\ Opening(p, m) /\ Questions = {} /\ InState("waiting_user") = {}
    /\ \/ /\ m = "skip" /\ InState("blocked") # {}
          /\ Calls(p, Move(Latest, FirstIn("blocked"), "omitted", FALSE, "none"))
       \/ /\ m = "approve" /\ InState("doing") # {}
          /\ Calls(p, ExecuteStage(Latest, FirstIn("doing"), {}))
       \/ /\ m = "approve" /\ InState("doing") = {} /\ InState("blocked") # {}
          /\ Calls(p, Move(Latest, FirstIn("blocked"), "doing", FALSE, "none"))
       \/ /\ m = "approve" /\ InState("doing") = {} /\ InState("blocked") = {}
          /\ Replies(p)

\* Anything else goes to dispatch_router: the Router submits its route, staged
\* work being what mentions it.
OpenRequest(p, m) ==
    /\ Opening(p, m) /\ Questions = {} /\ ~Reviewing(m)
    /\ m # "approve" /\ ~(m = "skip" /\ InState("blocked") # {})
    /\ Returns(p, [tool |-> "dispatch_router",
                   route |-> IF Staged(m) THEN "workflow" ELSE "direct"])

OpenTurn(p) ==
    /\ \E m \in Message :
          OpenAnswers(p, m) \/ OpenReview(p, m) \/ OpenResume(p, m) \/ OpenRequest(p, m)
    /\ UNCHANGED <<plans, workspace, sent, faults, shown>>

-----------------------------------------------------------------------------
(* What follows each result (_AFTER).                                       *)

After(p, tool) == turn[p].at = "next" /\ turn[p].out.tool = tool

AfterError(p) == After(p, "error") /\ Replies(p)

AfterRouter(p) ==
    /\ After(p, "dispatch_router") /\ turn[p].out.route = "workflow"
    /\ Calls(p, [tool |-> "plan_create"])

Made(p, kind) == [workspace EXCEPT ![p][kind] = @ + 1]

\* A direct piece: fetch_brief, write_outline, write_draft, render_output, each
\* on the id the one before it returned, then the reply.
AfterRouterOrContent(p) ==
    LET next == IF After(p, "dispatch_router") THEN {"brief"}
                ELSE {k \in DOMAIN MadeFrom : MadeFrom[k] = turn[p].out.kind}
    IN
    /\ After(p, "content") \/ (After(p, "dispatch_router") /\ turn[p].out.route = "direct")
    /\ \/ \E k \in next : workspace' = Made(p, k) /\ Returns(p, [tool |-> "content", kind |-> k])
       \/ next = {} /\ Replies(p) /\ UNCHANGED workspace
    /\ UNCHANGED <<plans, sent, faults, shown>>

AfterPlanCreate(p) == After(p, "plan_create") /\ Calls(p, Plan(turn[p].out.plan, FALSE))

AfterPlanner(p) ==
    /\ After(p, "dispatch_planner")
    /\ IF InState("pending") = {}
       THEN Replies(p)
       ELSE Calls(p, Present(Latest, FirstIn("pending")))

\* plan_get_stage_detail, and the reply that shows the stage's goal and work
\* items and asks for approval.
Presents(p, i, s) == shown' = shown \cup {<<i, s>>} /\ Replies(p)

MovesOn_AfterDone(out) == out.state = "done" /\ InState("pending") # {}

\* After a stage is finished or skipped the next pending one is presented.
MovesOn(out) == out.state \in {"done", "omitted"} /\ InState("pending") # {}

ShowsReview_Never(out) == FALSE

ShowsReview(out) == out.state = "waiting_user"

AfterState(p) ==
    LET out == turn[p].out
        starts == out.state = "doing" /\ out.stage \in DOMAIN Stages
    IN
    /\ After(p, "plan_update_stage_state")
    /\ \/ ShowsReview(out) /\ Presents(p, out.plan, out.stage)
       \/ starts /\ Calls(p, ExecuteStage(out.plan, out.stage, {})) /\ UNCHANGED shown
       \/ MovesOn(out) /\ Calls(p, Present(out.plan, FirstIn("pending"))) /\ UNCHANGED shown
       \/ ~(ShowsReview(out) \/ starts \/ MovesOn(out)) /\ Replies(p) /\ UNCHANGED shown
    /\ UNCHANGED <<plans, workspace, sent, faults>>

Retries_Always(p) == turn[p].out.stage \in DOMAIN Stages

Retries(p) == turn[p].tries < 2 /\ turn[p].out.stage \in DOMAIN Stages

\* Finish the stage, retry what is pending once, or block.
AfterExecutor(p) ==
    LET out == turn[p].out IN
    /\ After(p, "dispatch_executor")
    /\ \/ out.pending = {} /\ Calls(p, Move(out.plan, out.stage, "done", FALSE, "none"))
       \/ /\ out.pending # {} /\ Retries(p)
          /\ Calls(p, ExecuteStage(out.plan, out.stage, out.pending))
       \/ /\ out.pending # {} /\ ~Retries(p)
          /\ Calls(p, Move(out.plan, out.stage, "blocked", FALSE, "none"))

Decide(p) ==
    /\ AfterError(p) \/ AfterRouter(p) \/ AfterPlanCreate(p) \/ AfterPlanner(p) \/ AfterExecutor(p)
    /\ UNCHANGED <<plans, workspace, sent, faults, shown>>

-----------------------------------------------------------------------------
(* The tools the orchestrator calls.                                        *)

Performing(p, tool) == turn[p].at = "call" /\ turn[p].call.tool = tool

Writes(i, d) == plans[i].revision < MaxRevision /\ plans' = [plans EXCEPT ![i] = d]

\* create_plan counts the rows, then inserts the next number; between the two
\* another process may take it, and the primary key refuses the second.
CountPlans(p) ==
    /\ Performing(p, "plan_create")
    /\ turn' = [turn EXCEPT ![p].at = "insert",
                            ![p].call = [tool |-> "plan_create", plan |-> Latest + 1]]
    /\ UNCHANGED <<plans, workspace, sent, faults, shown>>

InsertPlan_OrReplace(p) ==
    LET i == turn[p].call.plan IN
    /\ turn[p].at = "insert"
    /\ plans' = [j \in DOMAIN plans \cup {i} |->
                    IF j = i THEN First!NewPlan ELSE plans[j]]
    /\ Returns(p, [tool |-> "plan_create", plan |-> i])
    /\ UNCHANGED <<workspace, sent, faults, shown>>

InsertPlan(p) ==
    LET i == turn[p].call.plan IN
    /\ turn[p].at = "insert"
    /\ \/ /\ i \notin DOMAIN plans
          /\ plans' = Append(plans, First!NewPlan)
          /\ Returns(p, [tool |-> "plan_create", plan |-> i])
       \/ i \in DOMAIN plans /\ Fails(p) /\ UNCHANGED plans
    /\ UNCHANGED <<workspace, sent, faults, shown>>

Allowed(call) ==
    LET d == plans[call.plan] IN
    IF call.stage \in DOMAIN d.stages
    THEN First!CheckTransition(d.stages[call.stage], call.target, call.user_confirmed, call.review_kind)
    ELSE FALSE

\* An illegal move is refused; the orchestrator reports it and the turn ends.
PlanUpdateStageState(p) ==
    LET call == turn[p].call IN
    /\ Performing(p, "plan_update_stage_state")
    /\ \/ /\ Allowed(call)
          /\ Writes(call.plan, First!Updated(plans[call.plan], call.stage, call.target,
                                             call.user_confirmed, call.review_kind, {}))
          /\ Returns(p, [tool |-> "plan_update_stage_state", plan |-> call.plan,
                         stage |-> call.stage, state |-> call.target])
       \/ ~Allowed(call) /\ Fails(p) /\ UNCHANGED plans
    /\ UNCHANGED <<workspace, sent, faults, shown>>

-----------------------------------------------------------------------------
(* dispatch_planner: answers clear the open questions, then the Planner    *)
(* runs; its questions end the turn (stop_on_interrupt).                    *)

DispatchPlanner(p) ==
    LET call == turn[p].call IN
    /\ Performing(p, "dispatch_planner")
    /\ IF call.answers THEN Writes(call.plan, First!Cleared(plans[call.plan])) ELSE UNCHANGED plans
    /\ turn' = [turn EXCEPT ![p].at = "planner", ![p].run = [written |-> <<>>]]
    /\ UNCHANGED <<workspace, sent, faults, shown>>

\* The audience is named by the request or is whatever an answer says, unless
\* the answer only approves.
AudienceKnown(p) ==
    IF turn[p].call.answers THEN turn[p].say # "approve" ELSE turn[p].say = "series_for"

PlannerAsks(p) ==
    /\ turn[p].at = "planner" /\ ~AudienceKnown(p)
    /\ Writes(turn[p].call.plan, First!Asked(plans[turn[p].call.plan], {"audience"}))
    /\ Replies(p)
    /\ UNCHANGED <<workspace, sent, faults, shown>>

Consumes_Itself(written) == Len(written) + 1

\* A stage consumes what the one written before it produces.
Consumes(written) == IF written = <<>> THEN 0 ELSE written[Len(written)]

\* search_references and plan_write_stage_contract, for the next stage.
PlannerWrites(p) ==
    LET i == turn[p].call.plan
        written == turn[p].run.written
        contract == [spec |-> Len(written) + 1, input |-> Consumes(written)]
    IN
    /\ turn[p].at = "planner" /\ AudienceKnown(p)
    /\ Len(written) < Len(STAGE_SPECS)
    /\ Len(plans[i].stages) < MaxStages
    /\ Writes(i, First!Authored(plans[i], contract, Len(plans[i].stages) + 1))
    /\ turn' = [turn EXCEPT ![p].run.written = Append(@, Len(plans[i].stages) + 1)]
    /\ UNCHANGED <<workspace, sent, faults, shown>>

PlannerSubmits(p) ==
    /\ turn[p].at = "planner" /\ AudienceKnown(p)
    /\ Len(turn[p].run.written) = Len(STAGE_SPECS)
    /\ Returns(p, [tool |-> "dispatch_planner"])
    /\ UNCHANGED <<plans, workspace, sent, faults, shown>>

\* A search fails: the Planner submits what it has written.
PlannerStops(p) ==
    /\ turn[p].at = "planner" /\ AudienceKnown(p)
    /\ Len(turn[p].run.written) < Len(STAGE_SPECS)
    /\ Returns(p, [tool |-> "dispatch_planner"])
    /\ UNCHANGED <<plans, workspace, sent, shown>>

-----------------------------------------------------------------------------
(* dispatch_executor: the stage is checked to be in doing, the Executor    *)
(* reads its detail, calls one content tool per item, attaches what was    *)
(* made and submits; the stage is read again for what is still pending.    *)

Stage(p) == plans[turn[p].call.plan].stages[turn[p].call.stage]

\* upstream_refs of stage_detail: what the stage's input has produced.
Upstream(i, stage) ==
    IF stage.contract.input = 0 THEN {} ELSE plans[i].stages[stage.contract.input].refs

\* The Executor's plan_get_stage_detail is read with the check: the items, which
\* of them are to do, and the refs it may build on.
DispatchExecutor(p) ==
    LET call == turn[p].call IN
    /\ Performing(p, "dispatch_executor")
    /\ IF call.stage \in DOMAIN plans[call.plan].stages /\ Stage(p).state = "doing"
       THEN turn' = [turn EXCEPT
               ![p].at = "executor",
               ![p].run = [items |-> Items(Stage(p)),
                           todo  |-> {n \in DOMAIN Items(Stage(p)) :
                                         call.retry = {} \/ Items(Stage(p))[n] \in call.retry},
                           refs  |-> Upstream(call.plan, Stage(p)) \cup Stage(p).refs,
                           made  |-> {}]]
       ELSE Fails(p)
    /\ UNCHANGED <<plans, workspace, sent, faults, shown>>

\* FakeWorkspace.require: the id is one this process has issued.
Found(p, ref) == ref.n <= workspace[p][ref.kind]

\* Item n is the next one to do.
IsNext(p, n) == n \in turn[p].run.todo /\ \A m \in turn[p].run.todo : n <= m

\* The refs that a tool may work from: any of the kind it needs (the latest, in
\* the code, refs being a set here).
Known(run, kind) ==
    {ref \in run.refs \cup run.made : kind # "brief" /\ ref.kind = MadeFrom[kind]}

\* The next item's tool makes it, from a ref that the workspace has, if it needs one.
ExecutorMakes(p) ==
    LET run == turn[p].run IN
    /\ turn[p].at = "executor"
    /\ \E n \in run.todo :
          LET kind == run.items[n] IN
          /\ IsNext(p, n)
          /\ kind = "brief" \/ \E ref \in Known(run, kind) : Found(p, ref)
          /\ workspace' = Made(p, kind)
          /\ turn' = [turn EXCEPT ![p].run = [run EXCEPT
                !.todo = @ \ {n},
                !.made = @ \cup {[kind |-> kind, n |-> workspace[p][kind] + 1]}]]
    /\ UNCHANGED <<plans, sent, faults, shown>>

LeavesOut(p, n) == turn' = [turn EXCEPT ![p].run.todo = @ \ {n}]

\* There is nothing to work from, or the tool does not find it: the item is left out.
ExecutorMisses(p) ==
    LET run == turn[p].run IN
    /\ turn[p].at = "executor"
    /\ \E n \in run.todo :
          LET kind == run.items[n] IN
          /\ IsNext(p, n) /\ kind # "brief"
          /\ Known(run, kind) = {} \/ \E ref \in Known(run, kind) : ~Found(p, ref)
          /\ LeavesOut(p, n)
    /\ UNCHANGED <<plans, workspace, sent, faults, shown>>

\* plan_attach_runtime, if anything was made; a refusal changes nothing.
ExecutorAttaches(p) ==
    LET call == turn[p].call
        run  == turn[p].run
    IN
    /\ turn[p].at = "executor" /\ run.todo = {}
    /\ turn' = [turn EXCEPT ![p].at = "submit"]
    /\ IF run.made # {} /\ First!CanAttach(plans[call.plan], call.stage)
       THEN Writes(call.plan, First!Attached(plans[call.plan], call.stage, run.made))
       ELSE UNCHANGED plans
    /\ UNCHANGED <<workspace, sent, faults, shown>>

\* submit_execution ends the run; pending_items is the stage's, read again.
ExecutorSubmits(p) ==
    /\ turn[p].at = "submit"
    /\ turn' = [turn EXCEPT
          ![p].at = "next", ![p].call = Idle, ![p].run = Idle, ![p].tries = IF @ < 2 THEN @ + 1 ELSE @,
          ![p].out = [tool |-> "dispatch_executor", plan |-> turn[p].call.plan,
                      stage |-> turn[p].call.stage, pending |-> PendingItems(Stage(p))]]
    /\ UNCHANGED <<plans, workspace, sent, faults, shown>>

-----------------------------------------------------------------------------
(* The user and the faults.                                                 *)

Running == {p \in Process : turn[p].at # "idle"}

\* A staged request may create a plan; the bound keeps room for it.  Processes
\* are interchangeable: the one that runs the first turn is fixed.
Send(p, m) ==
    /\ sent < MaxTurns /\ turn[p] = Idle
    /\ sent = 0 => p = CHOOSE q \in Process : TRUE
    /\ Staged(m) => Latest + Cardinality({q \in Running : Staged(turn[q].say)}) < MaxPlans
    /\ sent' = sent + 1
    /\ turn' = [turn EXCEPT ![p] = Turn(m)]
    /\ UNCHANGED <<plans, workspace, shown>>

UserSends(p, m) == Running = {} /\ Send(p, m) /\ UNCHANGED faults

Fault == faults < MaxFaults /\ faults' = faults + 1

\* A turn that stalls loses its lease, and the next one runs beside it.
LeaseLapses(p, m) == Running # {} /\ Send(p, m) /\ Fault

Crash(p) ==
    /\ Fault /\ p \in Running
    /\ Replies(p)
    /\ workspace' = [workspace EXCEPT ![p] = [k \in Kind |-> 0]]
    /\ UNCHANGED <<plans, sent, shown>>

\* The orchestrator's model call raises, or the turn is cancelled.
TurnFails(p) ==
    /\ Fault /\ p \in Running
    /\ Replies(p)
    /\ UNCHANGED <<plans, workspace, sent, shown>>

\* A sub-agent raises or ends without a valid submission: a failed dispatch.
SubAgentFails(p) ==
    /\ Fault
    /\ turn[p].at \in {"planner", "executor", "submit"}
    /\ Fails(p)
    /\ UNCHANGED <<plans, workspace, sent, shown>>

\* A content tool raises: the registry answers tool_failed, and the Executor
\* leaves the item out.
ToolFails(p) ==
    /\ Fault
    /\ turn[p].at = "executor"
    /\ \E n \in turn[p].run.todo : IsNext(p, n) /\ LeavesOut(p, n)
    /\ UNCHANGED <<plans, workspace, sent, shown>>

-----------------------------------------------------------------------------
PipelineInit ==
    /\ plans = <<>>
    /\ turn = [p \in Process |-> Idle]
    /\ workspace = [p \in Process |-> [k \in Kind |-> 0]]
    /\ sent = 0 /\ faults = 0 /\ shown = {}

\* One step of the turn in process p.
Step(p) ==
    \/ OpenTurn(p) \/ Decide(p) \/ AfterRouterOrContent(p) \/ AfterState(p)
    \/ CountPlans(p) \/ InsertPlan(p) \/ PlanUpdateStageState(p)
    \/ DispatchPlanner(p) \/ PlannerAsks(p) \/ PlannerWrites(p) \/ PlannerSubmits(p)
    \/ DispatchExecutor(p) \/ ExecutorMakes(p) \/ ExecutorMisses(p) \/ ExecutorAttaches(p)
    \/ ExecutorSubmits(p)

PipelineNext ==
    \E p \in Process :
        \/ Step(p)
        \/ \E m \in Message : UserSends(p, m) \/ LeaseLapses(p, m)
        \/ PlannerStops(p) /\ Fault
        \/ Crash(p) \/ TurnFails(p) \/ SubAgentFails(p) \/ ToolFails(p)

\* The event loop keeps running every turn it has started.
PipelineFairness == \A p \in Process : WF_pipelineVars(Step(p))

PipelineSpec == PipelineInit /\ [][PipelineNext]_pipelineVars /\ PipelineFairness

-----------------------------------------------------------------------------
(* What the flow promises.                                                  *)

PipelineTypeOK ==
    /\ Len(plans) \in 0 .. MaxPlans
    /\ \A i \in DOMAIN plans :
          /\ plans[i].open_questions \subseteq {"audience"}
          /\ \A s \in DOMAIN plans[i].stages :
                /\ plans[i].stages[s].state \in First!StageState
                /\ plans[i].stages[s].contract \in Contract
                /\ plans[i].stages[s].contract.input < s
                /\ plans[i].stages[s].refs \subseteq Ref
    /\ workspace \in [Process -> [Kind -> Nat]]
    /\ sent \in 0 .. MaxTurns /\ faults \in 0 .. MaxFaults

\* Whatever the user says, whichever process answers and whatever fails, every
\* plan of the chat changes by whole operations of the abstract plan, from the
\* empty plan on; so the gate of Plan holds in the composed system.
\* (PlanSpec of both plans, looked at only where a row changes.)
PlansImplementPlan ==
    /\ First!PlanInit /\ Second!PlanInit
    /\ [][plans' # plans =>
             [First!PlanNext]_(Abstract(1)) /\ [Second!PlanNext]_(Abstract(2))]_plans

\* A stage is done only when each of its work items has produced something and
\* the stage it builds on has too: nothing is finished on top of a stage that
\* was skipped, however often it was blocked, retried and taken up again.
DoneMeansBuilt ==
    \A i \in DOMAIN plans : \A s \in DOMAIN plans[i].stages :
        LET stage == plans[i].stages[s] IN
        stage.state = "done" =>
            /\ \A n \in DOMAIN Items(stage) : \E ref \in stage.refs : ref.kind = Items(stage)[n]
            /\ stage.contract.input # 0 => plans[i].stages[stage.contract.input].refs # {}

\* While nothing fails, a plan that is not finished always waits for something
\* the user can answer: no turn ends with the latest plan stranded.
UnfinishedPlanAwaitsUser ==
    faults = 0 /\ Running = {} /\ plans # <<>> =>
        \/ Questions # {}
        \/ InState("waiting_user") \cup InState("blocked") # {}
        \/ Stages # <<>> /\ \A s \in DOMAIN Stages : Stages[s].state \in First!TERMINAL

\* While nothing fails, a stage is started only after a reply presented it.
NothingStartsUnseen ==
    faults = 0 =>
        \A i \in DOMAIN plans : \A s \in DOMAIN plans[i].stages :
            plans[i].stages[s].approved => <<i, s>> \in shown

\* Every turn ends: retries are bounded and no rule calls the same tool for
\* ever, also when two turns run side by side and refuse each other's moves.
TurnEnds == \A p \in Process : turn[p].at # "idle" ~> turn[p].at = "idle"
=============================================================================
