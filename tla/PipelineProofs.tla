--------------------------- MODULE PipelineProofs ---------------------------
(***************************************************************************)
(* Theorems of Pipeline, for any processes and bounds: however many turns  *)
(* of a chat overlap, crash, fail or are retried.                          *)
(***************************************************************************)
EXTENDS Pipeline, SequenceTheorems, FiniteSetTheorems, WellFoundedInduction, NaturalsInduction,
        TLAPS

USE PipelineBounds

-----------------------------------------------------------------------------
(* The inductive invariant: the plans.                                      *)

ChatStage ==
    [order : Nat, state : First!StageState, contract : Contract, refs : SUBSET Ref,
     review_kind : {"plan_review", First!NoKind}, questions : SUBSET {"audience"},
     approved : BOOLEAN]

ChatRow == [revision : Nat, stages : Seq(ChatStage), open_questions : SUBSET {"audience"}]

KindsOf(refs) == {ref.kind : ref \in refs}

ItemKinds(stage) == {Items(stage)[n] : n \in DOMAIN Items(stage)}

\* What the stage builds on has produced something.
Grounded(d, s) ==
    d.stages[s].contract.input # 0 => d.stages[d.stages[s].contract.input].refs # {}

AllMade(d, s) == ItemKinds(d.stages[s]) \subseteq KindsOf(d.stages[s].refs)

\* A stage consumes an earlier one, holds what its own items made, and made
\* nothing out of nothing.
StageBuilt(d, s) ==
    /\ d.stages[s].order = s
    /\ d.stages[s].contract.input < s
    /\ d.stages[s].contract.spec = 1 => d.stages[s].contract.input = 0
    /\ KindsOf(d.stages[s].refs) \subseteq ItemKinds(d.stages[s])
    /\ d.stages[s].refs # {} => Grounded(d, s)
    /\ d.stages[s].state = "done" => AllMade(d, s)

RowKept(d) == d \in ChatRow /\ \A s \in DOMAIN d.stages : StageBuilt(d, s)

-----------------------------------------------------------------------------
(* The inductive invariant: the turns, over the plans P.                    *)

CallKept(P, say, call) ==
    \/ call = [tool |-> "plan_create"] /\ Staged(say)
    \/ \E i \in DOMAIN P, answers \in BOOLEAN : call = Plan(i, answers)
    \/ \E i \in DOMAIN P : \E s \in DOMAIN P[i].stages, retry \in SUBSET Kind :
          call = ExecuteStage(i, s, retry)
    \/ \E i \in DOMAIN P, s \in Nat, target \in First!StageState, confirmed \in BOOLEAN,
          kind \in {"plan_review", First!NoKind} :
          /\ call = Move(i, s, target, confirmed, kind)
          /\ target = "done" => s \in DOMAIN P[i].stages /\ AllMade(P[i], s)

OutKept(P, say, out) ==
    \/ out = [tool |-> "error"]
    \/ out = [tool |-> "dispatch_planner"]
    \/ \E kind \in Kind : out = [tool |-> "content", kind |-> kind]
    \/ \E route \in {"workflow", "direct"} :
          out = [tool |-> "dispatch_router", route |-> route] /\ (route = "workflow" => Staged(say))
    \/ \E i \in DOMAIN P : out = [tool |-> "plan_create", plan |-> i]
    \/ \E i \in DOMAIN P : \E s \in DOMAIN P[i].stages, state \in First!StageState :
          out = [tool |-> "plan_update_stage_state", plan |-> i, stage |-> s, state |-> state]
    \/ \E i \in DOMAIN P : \E s \in DOMAIN P[i].stages, pending \in SUBSET Kind :
          /\ out = [tool |-> "dispatch_executor", plan |-> i, stage |-> s, pending |-> pending]
          /\ pending = {} => AllMade(P[i], s)

\* The Executor's run: it works on the items of its stage; a ref of another
\* kind, and anything made, comes from the stage that it builds on.
RunKept(d, s, run) ==
    /\ run = [items |-> run.items, todo |-> run.todo, refs |-> run.refs, made |-> run.made]
    /\ run.items = Items(d.stages[s])
    /\ run.todo \subseteq DOMAIN run.items
    /\ run.refs \subseteq Ref /\ run.made \subseteq Ref
    /\ KindsOf(run.made) \subseteq ItemKinds(d.stages[s])
    /\ run.made # {} => Grounded(d, s)
    /\ KindsOf(run.refs) \subseteq ItemKinds(d.stages[s]) \/ Grounded(d, s)

\* A record with the fields of a turn.
Fields(at, say, call, out, run, tries) ==
    [at |-> at, say |-> say, call |-> call, out |-> out, run |-> run, tries |-> tries]

Whole(r) ==
    /\ r = Fields(r.at, r.say, r.call, r.out, r.run, r.tries)
    /\ r.say \in Message /\ r.tries \in 0 .. 2 /\ r.at # "idle"

PlannerKept(P, r) ==
    /\ \E i \in DOMAIN P, answers \in BOOLEAN : r.call = Plan(i, answers)
    /\ r.run = [written |-> r.run.written]
    /\ r.run.written \in Seq(DOMAIN P[r.call.plan].stages)

ExecutorKept(P, r) ==
    /\ \E i \in DOMAIN P : \E s \in DOMAIN P[i].stages, retry \in SUBSET Kind :
          r.call = ExecuteStage(i, s, retry)
    /\ r.at = "executor" => RunKept(P[r.call.plan], r.call.stage, r.run)

InsertKept(P, r) ==
    /\ Staged(r.say)
    /\ \E i \in 1 .. Len(P) + 1 : r.call = [tool |-> "plan_create", plan |-> i]

PlaceKept(P, r) ==
    \/ r.at = "open"
    \/ r.at = "call" /\ CallKept(P, r.say, r.call)
    \/ r.at = "next" /\ OutKept(P, r.say, r.out)
    \/ r.at = "insert" /\ InsertKept(P, r)
    \/ r.at = "planner" /\ PlannerKept(P, r)
    \/ r.at \in {"executor", "submit"} /\ ExecutorKept(P, r)

TurnKept(P, r) == r = Idle \/ (Whole(r) /\ PlaceKept(P, r))

\* The turn will still create a plan.
Creates(r) ==
    /\ r # Idle
    /\ \/ r.at = "open" /\ Staged(r.say)
       \/ r.at = "next" /\ r.out.tool = "dispatch_router" /\ r.out.route = "workflow"
       \/ r.at = "call" /\ r.call.tool = "plan_create"
       \/ r.at = "insert"

Creating == {p \in Process : Creates(turn[p])}

PlansKept == plans \in Seq(ChatRow) /\ \A i \in DOMAIN plans : RowKept(plans[i])

TurnsKept == turn = [p \in Process |-> turn[p]] /\ \A p \in Process : TurnKept(plans, turn[p])

\* There is room for the plans that the running turns will still create.
RoomKept == Len(plans) + Cardinality(Creating) <= MaxPlans

RestKept ==
    /\ workspace \in [Process -> [Kind -> Nat]]
    /\ sent \in 0 .. MaxTurns /\ faults \in 0 .. MaxFaults

ChatInv == PlansKept /\ TurnsKept /\ RoomKept /\ RestKept

-----------------------------------------------------------------------------
(* Plans only grow: a later plan has every stage, with the same contract    *)
(* and at least the same refs.                                              *)

Later(d, e) ==
    /\ DOMAIN d.stages \subseteq DOMAIN e.stages
    /\ \A s \in DOMAIN d.stages :
          /\ e.stages[s].contract = d.stages[s].contract
          /\ d.stages[s].refs \subseteq e.stages[s].refs

LaterPlans(P, Q) == DOMAIN P \subseteq DOMAIN Q /\ \A i \in DOMAIN P : Later(P[i], Q[i])

\* Row e is kept and comes after row d.
Advances(d, e) == RowKept(e) /\ Later(d, e)

\* The stages of a row.
LEMMA RowStages ==
    ASSUME NEW d, RowKept(d)
    PROVE  /\ d.stages \in Seq(ChatStage) /\ Len(d.stages) \in Nat
           /\ DOMAIN d.stages = 1 .. Len(d.stages)
           /\ \A s \in DOMAIN d.stages : d.stages[s] \in ChatStage /\ StageBuilt(d, s)
           /\ d.revision \in Nat /\ d.open_questions \in SUBSET {"audience"}
  BY DEF RowKept, ChatRow

\* The input of a stage with one is an earlier stage.
LEMMA InputIsEarlier ==
    ASSUME NEW d, RowKept(d), NEW s \in DOMAIN d.stages, d.stages[s].contract.input # 0
    PROVE  d.stages[s].contract.input \in DOMAIN d.stages
  <1>1. d.stages[s] \in ChatStage /\ StageBuilt(d, s) /\ DOMAIN d.stages = 1 .. Len(d.stages)
        /\ Len(d.stages) \in Nat
    BY RowStages
  <1>2. d.stages[s].contract \in Contract
    BY <1>1 DEF ChatStage
  <1>3. d.stages[s].contract.input \in Nat /\ d.stages[s].contract.input < s
    BY <1>1, <1>2 DEF Contract, StageBuilt
  <1>4. QED
    BY <1>1, <1>3

\* What was grounded or made stays so.
LEMMA GroundedLater ==
    ASSUME NEW d, NEW e, RowKept(d), Later(d, e), NEW s \in DOMAIN d.stages
    PROVE  /\ s \in DOMAIN e.stages
           /\ Grounded(d, s) => Grounded(e, s)
           /\ AllMade(d, s) => AllMade(e, s)
           /\ Items(e.stages[s]) = Items(d.stages[s])
           /\ ItemKinds(e.stages[s]) = ItemKinds(d.stages[s])
  <1>1. Items(e.stages[s]) = Items(d.stages[s])
    BY DEF Later, Items
  <1>2. ItemKinds(e.stages[s]) = ItemKinds(d.stages[s])
    BY <1>1 DEF ItemKinds
  <1>3. KindsOf(d.stages[s].refs) \subseteq KindsOf(e.stages[s].refs)
    BY DEF Later, KindsOf
  <1>4. AllMade(d, s) => AllMade(e, s)
    BY <1>2, <1>3 DEF AllMade
  <1>5. ASSUME Grounded(d, s) PROVE Grounded(e, s)
    <2>1. CASE d.stages[s].contract.input = 0
      BY <2>1 DEF Grounded, Later
    <2>2. CASE d.stages[s].contract.input # 0
      <3>1. d.stages[s].contract.input \in DOMAIN d.stages
        BY <2>2, InputIsEarlier
      <3>2. e.stages[s].contract.input = d.stages[s].contract.input
        BY DEF Later
      <3>3. d.stages[d.stages[s].contract.input].refs # {}
        BY <1>5, <2>2 DEF Grounded
      <3>4. d.stages[d.stages[s].contract.input].refs \subseteq
               e.stages[d.stages[s].contract.input].refs
        BY <3>1 DEF Later
      <3>5. QED
        BY <3>2, <3>3, <3>4 DEF Grounded
    <2>3. QED
      BY <2>1, <2>2
  <1>6. QED
    BY <1>1, <1>2, <1>4, <1>5 DEF Later

-----------------------------------------------------------------------------
(* The rows that the operations write.                                      *)

\* A row whose stages have the same order, contract and refs, and are done only
\* if they were or have everything made.
SameWork(d, e) ==
    /\ e \in ChatRow
    /\ DOMAIN e.stages = DOMAIN d.stages
    /\ \A s \in DOMAIN d.stages :
          /\ e.stages[s].order = d.stages[s].order
          /\ e.stages[s].contract = d.stages[s].contract
          /\ e.stages[s].refs = d.stages[s].refs
          /\ e.stages[s].state = "done" => d.stages[s].state = "done" \/ AllMade(d, s)

LEMMA SameWorkAdvances ==
    ASSUME NEW d, NEW e, RowKept(d), SameWork(d, e)
    PROVE  Advances(d, e)
  <1>1. Later(d, e)
    BY DEF SameWork, Later
  <1>2. ASSUME NEW s \in DOMAIN e.stages PROVE StageBuilt(e, s)
    <2>1. s \in DOMAIN d.stages /\ StageBuilt(d, s)
      BY <1>2, RowStages DEF SameWork
    <2>2. /\ e.stages[s].order = d.stages[s].order
          /\ e.stages[s].contract = d.stages[s].contract
          /\ e.stages[s].refs = d.stages[s].refs
          /\ e.stages[s].state = "done" => d.stages[s].state = "done" \/ AllMade(d, s)
      BY <2>1 DEF SameWork
    <2>3. /\ Grounded(d, s) => Grounded(e, s)
          /\ AllMade(d, s) => AllMade(e, s)
          /\ ItemKinds(e.stages[s]) = ItemKinds(d.stages[s])
      BY <1>1, <2>1, GroundedLater
    <2>4. QED
      BY <2>1, <2>2, <2>3 DEF StageBuilt
  <1>3. QED
    BY <1>1, <1>2 DEF Advances, RowKept, SameWork

\* Writing one stage.
LEMMA WithStageRow ==
    ASSUME NEW d, RowKept(d), NEW s \in DOMAIN d.stages, NEW stage \in ChatStage
    PROVE  /\ First!WithStage(d, s, stage) \in ChatRow
           /\ DOMAIN First!WithStage(d, s, stage).stages = DOMAIN d.stages
           /\ First!WithStage(d, s, stage).stages[s] = stage
           /\ \A t \in DOMAIN d.stages \ {s} :
                 First!WithStage(d, s, stage).stages[t] = d.stages[t]
           /\ First!WithStage(d, s, stage).open_questions = d.open_questions
  <1>1. d.stages \in Seq(ChatStage) /\ d.open_questions \in SUBSET {"audience"} /\ d.revision \in Nat
    BY RowStages
  <1> DEFINE q == [d.stages EXCEPT ![s] = stage]
  <1>2. q \in Seq(ChatStage) /\ DOMAIN q = DOMAIN d.stages
    BY <1>1
  <1>3. q[s] = stage /\ \A t \in DOMAIN d.stages \ {s} : q[t] = d.stages[t]
    BY <1>1
  <1>4. First!WithStage(d, s, stage) =
           [revision |-> d.revision + 1, stages |-> q, open_questions |-> d.open_questions]
    BY DEF First!WithStage, First!Written
  <1> HIDE DEF q
  <1>5. QED
    BY <1>1, <1>2, <1>3, <1>4 DEF ChatRow

\* update_stage_state: a stage is moved to done only with everything made.
LEMMA UpdatedAdvances ==
    ASSUME NEW d, RowKept(d), NEW s \in DOMAIN d.stages, NEW target \in First!StageState,
           NEW confirmed \in BOOLEAN, NEW kind \in {"plan_review", First!NoKind},
           target = "done" => AllMade(d, s)
    PROVE  Advances(d, First!Updated(d, s, target, confirmed, kind, {}))
  <1> DEFINE stage == First!Moved(d.stages[s], target, confirmed, kind, {})
  <1>1. d.stages[s] \in ChatStage
    BY RowStages
  <1>2. /\ stage \in ChatStage
        /\ stage.order = d.stages[s].order
        /\ stage.contract = d.stages[s].contract
        /\ stage.refs = d.stages[s].refs
        /\ stage.state = target
    BY <1>1 DEF First!Moved, ChatStage
  <1>3. First!Updated(d, s, target, confirmed, kind, {}) = First!WithStage(d, s, stage)
    BY DEF First!Updated
  <1> HIDE DEF stage
  <1>4. SameWork(d, First!WithStage(d, s, stage))
    BY <1>2, WithStageRow DEF SameWork
  <1>5. QED
    BY <1>3, <1>4, SameWorkAdvances

\* attach_runtime: what the Executor made of the stage's items, on what it found.
LEMMA AttachedAdvances ==
    ASSUME NEW d, RowKept(d), NEW s \in DOMAIN d.stages, NEW made \in SUBSET Ref,
           d.stages[s].state = "doing", KindsOf(made) \subseteq ItemKinds(d.stages[s]),
           Grounded(d, s)
    PROVE  Advances(d, First!Attached(d, s, made))
  <1> DEFINE stage == First!Extended(d.stages[s], made)
             e == First!WithStage(d, s, stage)
  <1>1. d.stages[s] \in ChatStage /\ StageBuilt(d, s)
    BY RowStages
  <1>2. /\ stage \in ChatStage
        /\ stage.order = d.stages[s].order
        /\ stage.contract = d.stages[s].contract
        /\ stage.refs = d.stages[s].refs \cup made
        /\ stage.state = "doing"
    BY <1>1 DEF First!Extended, ChatStage
  <1>3. First!Attached(d, s, made) = e
    BY DEF First!Attached
  <1> HIDE DEF stage
  <1>4. /\ e \in ChatRow /\ DOMAIN e.stages = DOMAIN d.stages /\ e.stages[s] = stage
        /\ \A t \in DOMAIN d.stages \ {s} : e.stages[t] = d.stages[t]
    BY <1>2, WithStageRow
  <1> HIDE DEF e
  <1>5. Later(d, e)
    BY <1>2, <1>4 DEF Later
  <1>6. ASSUME NEW t \in DOMAIN e.stages PROVE StageBuilt(e, t)
    <2>1. /\ t \in DOMAIN d.stages /\ StageBuilt(d, t)
          /\ Grounded(d, t) => Grounded(e, t)
          /\ AllMade(d, t) => AllMade(e, t)
          /\ ItemKinds(e.stages[t]) = ItemKinds(d.stages[t])
      BY <1>4, <1>5, <1>6, RowStages, GroundedLater
    <2>2. CASE t = s
      <3>1. KindsOf(stage.refs) = KindsOf(d.stages[s].refs) \cup KindsOf(made)
        BY <1>2 DEF KindsOf
      <3>2. QED
        BY <1>1, <1>2, <1>4, <2>1, <2>2, <3>1 DEF StageBuilt
    <2>3. CASE t # s
      BY <1>4, <2>1, <2>3 DEF StageBuilt
    <2>4. QED
      BY <2>2, <2>3
  <1>7. QED
    BY <1>3, <1>4, <1>5, <1>6 DEF Advances, RowKept

\* plan_write_stage_contract: a new last stage.
LEMMA AuthoredAdvances ==
    ASSUME NEW d, RowKept(d), NEW c \in Contract, c.input <= Len(d.stages),
           c.spec = 1 => c.input = 0
    PROVE  /\ Advances(d, First!Authored(d, c, Len(d.stages) + 1))
           /\ Len(First!Authored(d, c, Len(d.stages) + 1).stages) = Len(d.stages) + 1
  <1> DEFINE n == Len(d.stages) + 1
             stage == First!NewStage(c, n)
             q == Append(d.stages, stage)
             e == First!Authored(d, c, n)
  <1>1. /\ d.stages \in Seq(ChatStage) /\ Len(d.stages) \in Nat /\ DOMAIN d.stages = 1 .. Len(d.stages)
        /\ d.open_questions \in SUBSET {"audience"} /\ d.revision \in Nat
    BY RowStages
  <1>2. /\ stage \in ChatStage
        /\ stage.order = n /\ stage.contract = c /\ stage.refs = {} /\ stage.state = "pending"
    BY <1>1 DEF First!NewStage, ChatStage, First!StageState
  <1>3. e = [revision |-> d.revision + 1, stages |-> q, open_questions |-> d.open_questions]
    BY DEF First!Authored, First!Written
  <1> HIDE DEF stage, e
  <1>4. /\ q \in Seq(ChatStage) /\ Len(q) = n /\ DOMAIN q = 1 .. n /\ q[n] = stage
        /\ \A t \in DOMAIN d.stages : q[t] = d.stages[t]
    BY <1>1, <1>2
  <1> HIDE DEF q
  <1>5. /\ e \in ChatRow /\ e.stages = q
    BY <1>1, <1>3, <1>4 DEF ChatRow
  <1>6. Later(d, e)
    BY <1>1, <1>4, <1>5 DEF Later
  <1>7. ASSUME NEW t \in DOMAIN e.stages PROVE StageBuilt(e, t)
    <2>1. CASE t \in DOMAIN d.stages
      <3>1. /\ StageBuilt(d, t)
            /\ Grounded(d, t) => Grounded(e, t)
            /\ AllMade(d, t) => AllMade(e, t)
            /\ ItemKinds(e.stages[t]) = ItemKinds(d.stages[t])
        BY <1>6, <2>1, RowStages, GroundedLater
      <3>2. QED
        BY <1>4, <1>5, <2>1, <3>1 DEF StageBuilt
    <2>2. CASE t \notin DOMAIN d.stages
      <3>1. t = n
        BY <1>1, <1>4, <1>5, <1>7, <2>2
      <3>2. KindsOf(e.stages[t].refs) = {}
        BY <1>2, <1>4, <1>5, <3>1 DEF KindsOf
      <3>3. c.input \in Nat
        BY DEF Contract
      <3>4. c.input < n
        BY <1>1, <3>3
      <3>5. QED
        BY <1>2, <1>4, <1>5, <3>1, <3>2, <3>4 DEF StageBuilt
    <2>3. QED
      BY <2>1, <2>2
  <1>8. QED
    BY <1>4, <1>5, <1>6, <1>7 DEF Advances, RowKept, e

\* ask_user.
LEMMA AskedAdvances ==
    ASSUME NEW d, RowKept(d)
    PROVE  Advances(d, First!Asked(d, {"audience"}))
  <1> DEFINE q == [s \in First!StageIds(d) |->
                     IF s \in First!FirstAuthoredPending(d)
                     THEN First!Moved(d.stages[s], "waiting_user", FALSE, "plan_review", {"audience"})
                     ELSE d.stages[s]]
             e == First!Asked(d, {"audience"})
  <1>1. /\ d.stages \in Seq(ChatStage) /\ Len(d.stages) \in Nat /\ DOMAIN d.stages = 1 .. Len(d.stages)
        /\ d.open_questions \in SUBSET {"audience"} /\ d.revision \in Nat
    BY RowStages
  <1>2. e = [revision |-> d.revision + 1, stages |-> q, open_questions |-> {"audience"}]
    BY DEF First!Asked, First!Written
  <1>3. ASSUME NEW s \in DOMAIN d.stages
        PROVE  /\ q[s] \in ChatStage /\ q[s].order = d.stages[s].order
               /\ q[s].contract = d.stages[s].contract /\ q[s].refs = d.stages[s].refs
               /\ q[s].state = "done" => d.stages[s].state = "done"
    <2>1. d.stages[s] \in ChatStage
      BY RowStages
    <2>2. q[s] = d.stages[s] \/
          q[s] = First!Moved(d.stages[s], "waiting_user", FALSE, "plan_review", {"audience"})
      BY DEF First!StageIds
    <2> HIDE DEF q
    <2>3. QED
      BY <2>1, <2>2 DEF First!Moved, ChatStage, First!StageState
  <1>4. DOMAIN q = 1 .. Len(d.stages)
    BY <1>1 DEF First!StageIds
  <1>5. q = [s \in 1 .. Len(d.stages) |-> q[s]]
    BY <1>1 DEF First!StageIds
  <1> HIDE DEF q, e
  <1>6. q \in Seq(ChatStage)
    <2>1. q \in [1 .. Len(d.stages) -> ChatStage]
      BY <1>1, <1>3, <1>5
    <2>2. QED
      BY <1>1, <2>1, SeqDef
  <1>7. SameWork(d, e)
    BY <1>1, <1>2, <1>3, <1>4, <1>6 DEF SameWork, ChatRow
  <1>8. QED
    BY <1>7, SameWorkAdvances DEF e

\* clear_questions.
LEMMA ClearedAdvances ==
    ASSUME NEW d, RowKept(d)
    PROVE  Advances(d, First!Cleared(d))
  <1>1. d.stages \in Seq(ChatStage) /\ d.revision \in Nat
    BY RowStages
  <1>2. SameWork(d, First!Cleared(d))
    BY <1>1 DEF First!Cleared, First!Written, SameWork, ChatRow
  <1>3. QED
    BY <1>2, SameWorkAdvances

\* A new plan.
LEMMA NewPlanKept == RowKept(First!NewPlan)
  BY DEF RowKept, First!NewPlan, ChatRow

-----------------------------------------------------------------------------
(* What a turn holds stays true as the plans grow.                          *)

LEMMA CallLater ==
    ASSUME NEW P, NEW Q, \A i \in DOMAIN P : RowKept(P[i]), LaterPlans(P, Q),
           NEW say, NEW call, CallKept(P, say, call)
    PROVE  CallKept(Q, say, call)
  <1>1. CASE call = [tool |-> "plan_create"] /\ Staged(say)
    BY <1>1 DEF CallKept
  <1>2. CASE \E i \in DOMAIN P, answers \in BOOLEAN : call = Plan(i, answers)
    BY <1>2 DEF CallKept, LaterPlans
  <1>3. ASSUME NEW i \in DOMAIN P, NEW s \in DOMAIN P[i].stages, NEW retry \in SUBSET Kind,
               call = ExecuteStage(i, s, retry)
        PROVE  CallKept(Q, say, call)
    <2>1. i \in DOMAIN Q /\ s \in DOMAIN Q[i].stages
      BY DEF LaterPlans, Later
    <2>2. QED
      BY <1>3, <2>1 DEF CallKept
  <1>4. ASSUME NEW i \in DOMAIN P, NEW s \in Nat, NEW target \in First!StageState,
               NEW confirmed \in BOOLEAN, NEW kind \in {"plan_review", First!NoKind},
               call = Move(i, s, target, confirmed, kind),
               target = "done" => s \in DOMAIN P[i].stages /\ AllMade(P[i], s)
        PROVE  CallKept(Q, say, call)
    <2>1. i \in DOMAIN Q /\ RowKept(P[i]) /\ Later(P[i], Q[i])
      BY DEF LaterPlans
    <2>2. target = "done" => s \in DOMAIN Q[i].stages /\ AllMade(Q[i], s)
      BY <1>4, <2>1, GroundedLater
    <2>3. QED
      BY <1>4, <2>1, <2>2 DEF CallKept
  <1>5. QED
    BY <1>1, <1>2, <1>3, <1>4 DEF CallKept

LEMMA OutLater ==
    ASSUME NEW P, NEW Q, \A i \in DOMAIN P : RowKept(P[i]), LaterPlans(P, Q),
           NEW say, NEW out, OutKept(P, say, out)
    PROVE  OutKept(Q, say, out)
  <1>1. ASSUME NEW i \in DOMAIN P, NEW s \in DOMAIN P[i].stages, NEW state \in First!StageState,
               out = [tool |-> "plan_update_stage_state", plan |-> i, stage |-> s, state |-> state]
        PROVE  OutKept(Q, say, out)
    <2>1. i \in DOMAIN Q /\ s \in DOMAIN Q[i].stages
      BY DEF LaterPlans, Later
    <2>2. QED
      BY <1>1, <2>1 DEF OutKept
  <1>2. ASSUME NEW i \in DOMAIN P, NEW s \in DOMAIN P[i].stages, NEW pending \in SUBSET Kind,
               out = [tool |-> "dispatch_executor", plan |-> i, stage |-> s, pending |-> pending],
               pending = {} => AllMade(P[i], s)
        PROVE  OutKept(Q, say, out)
    <2>1. i \in DOMAIN Q /\ RowKept(P[i]) /\ Later(P[i], Q[i])
      BY DEF LaterPlans
    <2>2. s \in DOMAIN Q[i].stages /\ (pending = {} => AllMade(Q[i], s))
      BY <1>2, <2>1, GroundedLater
    <2>3. QED
      BY <1>2, <2>1, <2>2 DEF OutKept
  <1>3. CASE \E i \in DOMAIN P : out = [tool |-> "plan_create", plan |-> i]
    BY <1>3 DEF OutKept, LaterPlans
  <1>4. CASE \/ out = [tool |-> "error"]
             \/ out = [tool |-> "dispatch_planner"]
             \/ \E kind \in Kind : out = [tool |-> "content", kind |-> kind]
             \/ \E route \in {"workflow", "direct"} :
                   out = [tool |-> "dispatch_router", route |-> route]
                   /\ (route = "workflow" => Staged(say))
    BY <1>4 DEF OutKept
  <1>5. QED
    BY <1>1, <1>2, <1>3, <1>4 DEF OutKept

LEMMA ExecutorLater ==
    ASSUME NEW P, NEW Q, \A i \in DOMAIN P : RowKept(P[i]), LaterPlans(P, Q),
           NEW r, ExecutorKept(P, r)
    PROVE  ExecutorKept(Q, r)
  <1>1. PICK i \in DOMAIN P : \E s \in DOMAIN P[i].stages, retry \in SUBSET Kind :
           r.call = ExecuteStage(i, s, retry)
    BY DEF ExecutorKept
  <1>2. PICK s \in DOMAIN P[i].stages, retry \in SUBSET Kind : r.call = ExecuteStage(i, s, retry)
    BY <1>1
  <1>3. r.call.plan = i /\ r.call.stage = s
    BY <1>2 DEF ExecuteStage
  <1>4. i \in DOMAIN Q /\ RowKept(P[i]) /\ Later(P[i], Q[i])
    BY DEF LaterPlans
  <1>5. /\ s \in DOMAIN Q[i].stages /\ Items(Q[i].stages[s]) = Items(P[i].stages[s])
        /\ ItemKinds(Q[i].stages[s]) = ItemKinds(P[i].stages[s])
        /\ Grounded(P[i], s) => Grounded(Q[i], s)
    BY <1>4, GroundedLater
  <1>6. r.at = "executor" => RunKept(Q[i], s, r.run)
    <2>1. r.at = "executor" => RunKept(P[i], s, r.run)
      BY <1>3 DEF ExecutorKept
    <2>2. QED
      BY <1>5, <2>1 DEF RunKept
  <1>7. QED
    BY <1>2, <1>3, <1>4, <1>5, <1>6 DEF ExecutorKept

LEMMA PlannerLater ==
    ASSUME NEW P, NEW Q, LaterPlans(P, Q), NEW r, PlannerKept(P, r)
    PROVE  PlannerKept(Q, r)
  <1>1. PICK i \in DOMAIN P, answers \in BOOLEAN : r.call = Plan(i, answers)
    BY DEF PlannerKept
  <1>2. i \in DOMAIN Q /\ DOMAIN P[i].stages \subseteq DOMAIN Q[i].stages /\ r.call.plan = i
    BY <1>1 DEF LaterPlans, Later, Plan
  <1> DEFINE w == r.run.written
  <1>3. w \in Seq(DOMAIN P[i].stages) /\ r.run = [written |-> w]
    BY <1>2 DEF PlannerKept
  <1> HIDE DEF w
  <1>4. w \in Seq(DOMAIN Q[i].stages)
    BY <1>2, <1>3
  <1>5. QED
    BY <1>1, <1>2, <1>3, <1>4 DEF PlannerKept, w

LEMMA TurnLater ==
    ASSUME NEW P, NEW Q, \A i \in DOMAIN P : RowKept(P[i]), LaterPlans(P, Q),
           Len(P) \in Nat, Len(Q) \in Nat, Len(P) <= Len(Q),
           NEW r, TurnKept(P, r)
    PROVE  TurnKept(Q, r)
  <1>1. CASE r = Idle
    BY <1>1 DEF TurnKept
  <1>2. CASE Whole(r) /\ PlaceKept(P, r)
    <2>1. r.at = "call" => (CallKept(P, r.say, r.call) => CallKept(Q, r.say, r.call))
      BY CallLater
    <2>2. r.at = "next" => (OutKept(P, r.say, r.out) => OutKept(Q, r.say, r.out))
      BY OutLater
    <2>3. PlannerKept(P, r) => PlannerKept(Q, r)
      BY PlannerLater
    <2>4. ExecutorKept(P, r) => ExecutorKept(Q, r)
      BY ExecutorLater
    <2>5. InsertKept(P, r) => InsertKept(Q, r)
      BY DEF InsertKept
    <2>6. PlaceKept(Q, r)
      BY <1>2, <2>1, <2>2, <2>3, <2>4, <2>5 DEF PlaceKept
    <2>7. QED
      BY <1>2, <2>6 DEF TurnKept
  <1>3. QED
    BY <1>1, <1>2 DEF TurnKept

-----------------------------------------------------------------------------
(* One step: the turn of p becomes r, and the plans grow.                   *)

Turned(p, r) == turn' = [turn EXCEPT ![p] = r]

PlansGrow == PlansKept' /\ LaterPlans(plans, plans') /\ Len(plans) <= Len(plans')

\* The turn that r becomes by a call, and by a result.
Called(r, call) == Fields("call", r.say, call, r.out, r.run, r.tries)

Returned(r, out) == Fields("next", r.say, Idle, out, Idle, r.tries)

LEMMA RunningTurn ==
    ASSUME TurnsKept, NEW p \in Process, turn[p].at # "idle"
    PROVE  Whole(turn[p]) /\ PlaceKept(plans, turn[p])
  <1>1. turn[p] # Idle
    BY DEF Idle
  <1>2. QED
    BY <1>1 DEF TurnsKept, TurnKept

\* Writing some fields of a turn.
LEMMA FieldWritten ==
    ASSUME NEW at, NEW say, NEW call, NEW out, NEW run, NEW tries, NEW x
    PROVE  /\ [Fields(at, say, call, out, run, tries) EXCEPT !.at = x] =
                 Fields(x, say, call, out, run, tries)
           /\ [Fields(at, say, call, out, run, tries) EXCEPT !.call = x] =
                 Fields(at, say, x, out, run, tries)
           /\ [Fields(at, say, call, out, run, tries) EXCEPT !.out = x] =
                 Fields(at, say, call, x, run, tries)
           /\ [Fields(at, say, call, out, run, tries) EXCEPT !.run = x] =
                 Fields(at, say, call, out, x, tries)
           /\ [Fields(at, say, call, out, run, tries) EXCEPT !.tries = x] =
                 Fields(at, say, call, out, run, x)
  <1>1. [Fields(at, say, call, out, run, tries) EXCEPT !.at = x] =
           Fields(x, say, call, out, run, tries)
    BY DEF Fields
  <1>2. [Fields(at, say, call, out, run, tries) EXCEPT !.call = x] =
           Fields(at, say, x, out, run, tries)
    BY DEF Fields
  <1>3. [Fields(at, say, call, out, run, tries) EXCEPT !.out = x] =
           Fields(at, say, call, x, run, tries)
    BY DEF Fields
  <1>4. [Fields(at, say, call, out, run, tries) EXCEPT !.run = x] =
           Fields(at, say, call, out, x, tries)
    BY DEF Fields
  <1>5. [Fields(at, say, call, out, run, tries) EXCEPT !.tries = x] =
           Fields(at, say, call, out, run, x)
    BY DEF Fields
  <1>6. QED
    BY <1>1, <1>2, <1>3, <1>4, <1>5

LEMMA CallsTurned ==
    ASSUME TurnsKept, NEW p \in Process, Whole(turn[p]), NEW call, Calls(p, call)
    PROVE  Turned(p, Called(turn[p], call))
  <1> DEFINE r == turn[p]
  <1>1. r = Fields(r.at, r.say, r.call, r.out, r.run, r.tries)
    BY DEF Whole
  <1>2. [r EXCEPT !.at = "call", !.call = call] = Called(r, call)
    <2>1. [r EXCEPT !.at = "call"] = Fields("call", r.say, r.call, r.out, r.run, r.tries)
      BY <1>1, FieldWritten
    <2>2. [Fields("call", r.say, r.call, r.out, r.run, r.tries) EXCEPT !.call = call] =
             Fields("call", r.say, call, r.out, r.run, r.tries)
      BY DEF Fields
    <2>3. [r EXCEPT !.at = "call", !.call = call] = [[r EXCEPT !.at = "call"] EXCEPT !.call = call]
      OBVIOUS
    <2>4. QED
      BY <2>1, <2>2, <2>3 DEF Called
  <1>3. turn' = [turn EXCEPT ![p] = [r EXCEPT !.at = "call", !.call = call]]
    BY DEF TurnsKept, Calls
  <1>4. QED
    BY <1>2, <1>3 DEF Turned

LEMMA ReturnsTurned ==
    ASSUME TurnsKept, NEW p \in Process, Whole(turn[p]), NEW out, Returns(p, out)
    PROVE  Turned(p, Returned(turn[p], out))
  <1> DEFINE r == turn[p]
  <1>1. r = Fields(r.at, r.say, r.call, r.out, r.run, r.tries)
    BY DEF Whole
  <1>2. [r EXCEPT !.at = "next", !.out = out, !.call = Idle, !.run = Idle] = Returned(r, out)
    <2>1. [r EXCEPT !.at = "next"] = Fields("next", r.say, r.call, r.out, r.run, r.tries)
      BY <1>1, FieldWritten
    <2>2. [Fields("next", r.say, r.call, r.out, r.run, r.tries) EXCEPT !.out = out] =
             Fields("next", r.say, r.call, out, r.run, r.tries)
      BY DEF Fields
    <2>3. [Fields("next", r.say, r.call, out, r.run, r.tries) EXCEPT !.call = Idle] =
             Fields("next", r.say, Idle, out, r.run, r.tries)
      BY DEF Fields
    <2>4. [Fields("next", r.say, Idle, out, r.run, r.tries) EXCEPT !.run = Idle] =
             Fields("next", r.say, Idle, out, Idle, r.tries)
      BY DEF Fields
    <2>5. [r EXCEPT !.at = "next", !.out = out, !.call = Idle, !.run = Idle] =
             [[[[r EXCEPT !.at = "next"] EXCEPT !.out = out] EXCEPT !.call = Idle] EXCEPT !.run = Idle]
      OBVIOUS
    <2>6. QED
      BY <2>1, <2>2, <2>3, <2>4, <2>5 DEF Returned
  <1>3. turn' = [turn EXCEPT ![p] = [r EXCEPT !.at = "next", !.out = out, !.call = Idle, !.run = Idle]]
    BY DEF TurnsKept, Returns
  <1>4. QED
    BY <1>2, <1>3 DEF Turned

LEMMA RepliesTurned ==
    ASSUME NEW p \in Process, Replies(p)
    PROVE  Turned(p, Idle)
  BY DEF Replies, Turned

LEMMA CalledKept ==
    ASSUME NEW P, NEW r, Whole(r), NEW call, CallKept(P, r.say, call)
    PROVE  TurnKept(P, Called(r, call))
  BY DEF Whole, Fields, Called, TurnKept, PlaceKept

LEMMA ReturnedKept ==
    ASSUME NEW P, NEW r, Whole(r), NEW out, OutKept(P, r.say, out)
    PROVE  TurnKept(P, Returned(r, out))
  BY DEF Whole, Fields, Returned, TurnKept, PlaceKept

LEMMA SamePlansGrow ==
    ASSUME PlansKept, UNCHANGED plans
    PROVE  PlansGrow /\ Len(plans') = Len(plans)
  <1>1. LaterPlans(plans, plans') /\ Len(plans) \in Nat
    BY DEF LaterPlans, Later, PlansKept
  <1>2. PlansKept'
    BY DEF PlansKept
  <1>3. QED
    BY <1>1, <1>2 DEF PlansGrow

LEMMA WritesGrow ==
    ASSUME PlansKept, NEW i \in DOMAIN plans, NEW d, Advances(plans[i], d), Writes(i, d)
    PROVE  PlansGrow /\ Len(plans') = Len(plans)
  <1>1. plans \in Seq(ChatRow) /\ d \in ChatRow /\ plans' = [plans EXCEPT ![i] = d]
    BY DEF PlansKept, Advances, RowKept, Writes
  <1>2. /\ plans' \in Seq(ChatRow) /\ Len(plans') = Len(plans) /\ Len(plans) \in Nat
        /\ DOMAIN plans' = DOMAIN plans /\ plans'[i] = d
        /\ \A j \in DOMAIN plans \ {i} : plans'[j] = plans[j]
    BY <1>1
  <1>3. \A j \in DOMAIN plans : Later(plans[j], plans'[j])
    <2> TAKE j \in DOMAIN plans
    <2>1. CASE j = i
      BY <1>2, <2>1 DEF Advances
    <2>2. CASE j # i
      BY <1>2, <2>2 DEF Later
    <2>3. QED
      BY <2>1, <2>2
  <1>4. \A j \in DOMAIN plans' : RowKept(plans'[j])
    BY <1>2 DEF PlansKept, Advances
  <1>5. QED
    BY <1>2, <1>3, <1>4 DEF PlansGrow, PlansKept, LaterPlans

LEMMA InsertGrows ==
    ASSUME PlansKept, plans' = Append(plans, First!NewPlan)
    PROVE  PlansGrow /\ Len(plans') = Len(plans) + 1
  <1> DEFINE new == First!NewPlan
  <1>1. new \in ChatRow /\ RowKept(new) /\ plans \in Seq(ChatRow)
    BY NewPlanKept DEF RowKept, PlansKept
  <1> HIDE DEF new
  <1>2. /\ plans' \in Seq(ChatRow) /\ Len(plans') = Len(plans) + 1 /\ Len(plans) \in Nat
        /\ DOMAIN plans = 1 .. Len(plans) /\ DOMAIN plans' = 1 .. Len(plans) + 1
        /\ plans'[Len(plans) + 1] = new
        /\ \A j \in DOMAIN plans : plans'[j] = plans[j]
    BY <1>1 DEF new
  <1>3. \A j \in DOMAIN plans' : RowKept(plans'[j])
    BY <1>1, <1>2 DEF PlansKept
  <1>4. QED
    BY <1>2, <1>3 DEF PlansGrow, PlansKept, LaterPlans, Later

LEMMA TurnedKept ==
    ASSUME PlansKept, TurnsKept, PlansGrow, NEW p \in Process, NEW r, Turned(p, r),
           TurnKept(plans', r)
    PROVE  TurnsKept'
  <1>1. /\ \A i \in DOMAIN plans : RowKept(plans[i])
        /\ LaterPlans(plans, plans') /\ Len(plans) <= Len(plans')
        /\ Len(plans) \in Nat /\ Len(plans') \in Nat
    BY DEF PlansGrow, PlansKept
  <1>2. /\ turn' = [q \in Process |-> turn'[q]] /\ turn'[p] = r
        /\ \A q \in Process \ {p} : turn'[q] = turn[q]
    BY DEF Turned, TurnsKept
  <1>3. ASSUME NEW q \in Process PROVE TurnKept(plans', turn'[q])
    <2>1. CASE q = p
      BY <1>2, <2>1
    <2>2. CASE q # p
      <3>1. turn'[q] = turn[q] /\ TurnKept(plans, turn[q])
        BY <1>2, <2>2 DEF TurnsKept
      <3>2. QED
        BY <1>1, <3>1, TurnLater
    <2>3. QED
      BY <2>1, <2>2
  <1>4. QED
    BY <1>2, <1>3 DEF TurnsKept

\* A step that creates no plan and turns no other turn into one that will.
LEMMA RoomSame ==
    ASSUME RoomKept, TurnsKept, NEW p \in Process, NEW r, Turned(p, r),
           Creates(r) => Creates(turn[p]), Len(plans') = Len(plans), Len(plans) \in Nat
    PROVE  RoomKept'
  <1>1. Creating' \subseteq Creating
    BY DEF Creating, Turned, TurnsKept
  <1>2. IsFiniteSet(Creating)
    BY FS_Subset DEF Creating
  <1>3. /\ Cardinality(Creating') <= Cardinality(Creating)
        /\ Cardinality(Creating') \in Nat /\ Cardinality(Creating) \in Nat
    BY <1>1, <1>2, FS_Subset, FS_CardinalityType
  <1>4. QED
    BY <1>3 DEF RoomKept

LEMMA StepKept ==
    ASSUME ChatInv, NEW p \in Process, NEW r, Turned(p, r), PlansGrow, Len(plans') = Len(plans),
           TurnKept(plans', r), Creates(r) => Creates(turn[p]), RestKept'
    PROVE  ChatInv'
  <1>1. TurnsKept'
    BY TurnedKept DEF ChatInv
  <1>2. Len(plans) \in Nat
    BY DEF ChatInv, PlansKept
  <1>3. RoomKept'
    BY <1>2, RoomSame DEF ChatInv
  <1>4. QED
    BY <1>1, <1>3 DEF ChatInv, PlansGrow

-----------------------------------------------------------------------------
(* What the orchestrator reads of the plans.                                *)

\* A set of numbers that is not empty has a least one.
LEMMA LeastNumber ==
    ASSUME NEW T \in SUBSET Nat, T # {}
    PROVE  \E s \in T : \A t \in T : s <= t
  <1>1. PICK s \in T : \A t \in T : ~(<<t, s>> \in OpToRel(<, Nat))
    BY NatLessThanWellFounded, WFMin
  <1>2. \A t \in T : s <= t
    <2> SUFFICES ASSUME NEW t \in T, t < s PROVE FALSE
      OBVIOUS
    <2>1. <<t, s>> \in OpToRel(<, Nat)
      BY DEF OpToRel
    <2>2. QED
      BY <1>1, <2>1
  <1>3. QED
    BY <1>2

\* The latest plan, if there is one.
LEMMA LatestRow ==
    ASSUME PlansKept, plans # <<>>
    PROVE  /\ Latest \in DOMAIN plans /\ RowKept(plans[Latest])
           /\ Stages = plans[Latest].stages /\ Questions = plans[Latest].open_questions
  <1>1. Latest \in DOMAIN plans
    BY DEF PlansKept, Latest
  <1>2. QED
    BY <1>1 DEF PlansKept, Stages, Questions

LEMMA StatesAreLatest ==
    ASSUME PlansKept, NEW state, InState(state) # {}
    PROVE  plans # <<>>
  BY DEF InState, Stages

LEMMA QuestionsAreLatest ==
    ASSUME Questions # {}
    PROVE  plans # <<>>
  BY DEF Questions

\* PlanRows.first finds a stage in that state.
LEMMA FirstInIs ==
    ASSUME PlansKept, NEW state, InState(state) # {}
    PROVE  /\ FirstIn(state) \in InState(state)
           /\ FirstIn(state) \in DOMAIN plans[Latest].stages /\ FirstIn(state) \in Nat
  <1>1. /\ RowKept(plans[Latest]) /\ Stages = plans[Latest].stages
    BY LatestRow, StatesAreLatest
  <1>2. /\ DOMAIN Stages = 1 .. Len(Stages) /\ Len(Stages) \in Nat
        /\ \A s \in DOMAIN Stages : StageBuilt(plans[Latest], s)
    BY <1>1, RowStages
  <1>3. InState(state) \subseteq DOMAIN Stages /\ InState(state) \in SUBSET Nat
    BY <1>2 DEF InState
  <1>4. PICK s \in InState(state) : \A t \in InState(state) : s <= t
    BY <1>3, LeastNumber
  <1>5. \A t \in InState(state) : First!Precedes(plans[Latest], s, t)
    <2> TAKE t \in InState(state)
    <2>1. plans[Latest].stages[s].order = s /\ plans[Latest].stages[t].order = t
      BY <1>2, <1>3 DEF StageBuilt
    <2>2. s <= t /\ s \in Nat /\ t \in Nat
      BY <1>3, <1>4
    <2>3. QED
      BY <2>1, <2>2 DEF First!Precedes
  <1>6. FirstIn(state) \in InState(state)
    BY <1>5 DEF FirstIn
  <1>7. QED
    BY <1>1, <1>3, <1>6

\* The calls of the orchestrator.
LEMMA MoveCallKept ==
    ASSUME NEW P, NEW i \in DOMAIN P, NEW s \in Nat, NEW target \in First!StageState,
           NEW confirmed \in BOOLEAN, NEW kind \in {"plan_review", First!NoKind},
           target = "done" => s \in DOMAIN P[i].stages /\ AllMade(P[i], s), NEW say
    PROVE  CallKept(P, say, Move(i, s, target, confirmed, kind))
  BY DEF CallKept

LEMMA ExecuteCallKept ==
    ASSUME NEW P, NEW i \in DOMAIN P, NEW s \in DOMAIN P[i].stages, NEW retry \in SUBSET Kind,
           NEW say
    PROVE  CallKept(P, say, ExecuteStage(i, s, retry))
  BY DEF CallKept

LEMMA PlannerCallKept ==
    ASSUME NEW P, NEW i \in DOMAIN P, NEW answers \in BOOLEAN, NEW say
    PROVE  CallKept(P, say, Plan(i, answers))
  BY DEF CallKept

\* A step that calls the next tool, or replies, and changes nothing else.
LEMMA CallsKept ==
    ASSUME ChatInv, NEW p \in Process, turn[p].at # "idle", NEW call, Calls(p, call),
           CallKept(plans, turn[p].say, call), call.tool # "plan_create",
           UNCHANGED <<plans, workspace, sent, faults>>
    PROVE  ChatInv'
  <1>1. Whole(turn[p])
    BY RunningTurn DEF ChatInv
  <1>2. Turned(p, Called(turn[p], call))
    BY <1>1, CallsTurned DEF ChatInv
  <1>3. PlansGrow /\ Len(plans') = Len(plans)
    BY SamePlansGrow DEF ChatInv
  <1>4. TurnKept(plans', Called(turn[p], call))
    BY <1>1, CalledKept
  <1>5. ~Creates(Called(turn[p], call))
    BY DEF Creates, Called, Fields
  <1>6. RestKept'
    BY DEF ChatInv, RestKept
  <1>7. QED
    BY <1>2, <1>3, <1>4, <1>5, <1>6, StepKept

LEMMA RepliesKept ==
    ASSUME ChatInv, NEW p \in Process, Replies(p), UNCHANGED plans, RestKept'
    PROVE  ChatInv'
  <1>1. Turned(p, Idle)
    BY RepliesTurned
  <1>2. PlansGrow /\ Len(plans') = Len(plans)
    BY SamePlansGrow DEF ChatInv
  <1>3. TurnKept(plans', Idle) /\ ~Creates(Idle)
    BY DEF TurnKept, Creates
  <1>4. QED
    BY <1>1, <1>2, <1>3, StepKept

\* A step that returns a result, and grows the plans.
LEMMA ReturnsKept ==
    ASSUME ChatInv, NEW p \in Process, turn[p].at # "idle", NEW out, Returns(p, out),
           PlansGrow, Len(plans') = Len(plans), OutKept(plans', turn[p].say, out),
           out.tool # "dispatch_router", RestKept'
    PROVE  ChatInv'
  <1>1. Whole(turn[p])
    BY RunningTurn DEF ChatInv
  <1>2. Turned(p, Returned(turn[p], out))
    BY <1>1, ReturnsTurned DEF ChatInv
  <1>3. TurnKept(plans', Returned(turn[p], out))
    BY <1>1, ReturnedKept
  <1>4. ~Creates(Returned(turn[p], out))
    BY DEF Creates, Returned, Fields
  <1>5. QED
    BY <1>2, <1>3, <1>4, StepKept

-----------------------------------------------------------------------------
(* The orchestrator's rules keep the invariant.                             *)

LEMMA OpenTurnKept ==
    ASSUME ChatInv, NEW p \in Process, OpenTurn(p)
    PROVE  ChatInv'
  <1> PICK m \in Message :
         OpenAnswers(p, m) \/ OpenReview(p, m) \/ OpenResume(p, m) \/ OpenRequest(p, m)
    BY DEF OpenTurn
  <1>1. UNCHANGED <<plans, workspace, sent, faults, shown>>
    BY DEF OpenTurn
  <1>2. turn[p].at = "open" /\ turn[p].say = m
    BY DEF OpenAnswers, OpenReview, OpenResume, OpenRequest, Opening
  <1>3. PlansKept /\ RestKept'
    BY <1>1 DEF ChatInv, RestKept
  <1>4. CASE OpenAnswers(p, m)
    <2>1. Latest \in DOMAIN plans /\ Calls(p, Plan(Latest, TRUE))
      BY <1>3, <1>4, QuestionsAreLatest, LatestRow DEF OpenAnswers
    <2>2. CallKept(plans, turn[p].say, Plan(Latest, TRUE)) /\ Plan(Latest, TRUE).tool # "plan_create"
      BY <2>1, PlannerCallKept DEF Plan
    <2>3. QED
      BY <1>1, <1>2, <2>1, <2>2, CallsKept
  <1>5. ASSUME NEW state, InState(state) # {}, NEW target \in {"omitted", "doing"},
               NEW confirmed \in BOOLEAN,
               Calls(p, Move(Latest, FirstIn(state), target, confirmed, "none"))
        PROVE  ChatInv'
    <2> DEFINE call == Move(Latest, FirstIn(state), target, confirmed, "none")
    <2>1. Latest \in DOMAIN plans /\ FirstIn(state) \in Nat
      BY <1>3, <1>5, FirstInIs, StatesAreLatest, LatestRow
    <2>2. CallKept(plans, turn[p].say, call)
      BY <2>1, MoveCallKept DEF First!StageState, First!NoKind
    <2>3. call.tool # "plan_create"
      BY DEF Move
    <2> HIDE DEF call
    <2>4. Calls(p, call)
      BY <1>5 DEF call
    <2>5. QED
      BY <1>1, <1>2, <2>2, <2>3, <2>4, CallsKept
  <1>6. CASE OpenReview(p, m)
    <2>1. CASE Replies(p)
      BY <1>1, <1>3, <2>1, RepliesKept
    <2>2. CASE Calls(p, Move(Latest, FirstIn("waiting_user"), "omitted", FALSE, "none"))
      BY <1>5, <1>6, <2>2 DEF OpenReview, Reviewing
    <2>3. CASE Calls(p, Move(Latest, FirstIn("waiting_user"), "doing", TRUE, "none"))
      BY <1>5, <1>6, <2>3 DEF OpenReview, Reviewing
    <2>4. QED
      BY <1>6, <2>1, <2>2, <2>3 DEF OpenReview
  <1>7. CASE OpenResume(p, m)
    <2>1. CASE Replies(p)
      BY <1>1, <1>3, <2>1, RepliesKept
    <2>2. CASE InState("blocked") # {} /\ Calls(p, Move(Latest, FirstIn("blocked"), "omitted", FALSE, "none"))
      BY <1>5, <2>2
    <2>3. CASE InState("blocked") # {} /\ Calls(p, Move(Latest, FirstIn("blocked"), "doing", FALSE, "none"))
      BY <1>5, <2>3
    <2>4. CASE InState("doing") # {} /\ Calls(p, ExecuteStage(Latest, FirstIn("doing"), {}))
      <3>1. Latest \in DOMAIN plans /\ FirstIn("doing") \in DOMAIN plans[Latest].stages
        BY <1>3, <2>4, FirstInIs, StatesAreLatest, LatestRow
      <3> DEFINE call == ExecuteStage(Latest, FirstIn("doing"), {})
      <3>2. CallKept(plans, turn[p].say, call)
        BY <3>1, ExecuteCallKept
      <3>3. call.tool # "plan_create"
        BY DEF ExecuteStage
      <3> HIDE DEF call
      <3>4. Calls(p, call)
        BY <2>4 DEF call
      <3>5. QED
        BY <1>1, <1>2, <3>2, <3>3, <3>4, CallsKept
    <2>5. QED
      BY <1>7, <2>1, <2>2, <2>3, <2>4 DEF OpenResume
  <1>8. CASE OpenRequest(p, m)
    <2> DEFINE out == [tool |-> "dispatch_router", route |-> IF Staged(m) THEN "workflow" ELSE "direct"]
    <2>1. Whole(turn[p])
      BY <1>2, RunningTurn DEF ChatInv
    <2>2. Returns(p, out)
      BY <1>8 DEF OpenRequest
    <2>3. /\ OutKept(plans, turn[p].say, out) /\ out.tool = "dispatch_router"
          /\ out.route = "workflow" => Staged(m)
      BY <1>2 DEF OutKept
    <2> HIDE DEF out
    <2>4. Turned(p, Returned(turn[p], out))
      BY <2>1, <2>2, ReturnsTurned DEF ChatInv
    <2>5. PlansGrow /\ Len(plans') = Len(plans)
      BY <1>1, SamePlansGrow DEF ChatInv
    <2>6. TurnKept(plans', Returned(turn[p], out))
      BY <1>1, <2>1, <2>3, ReturnedKept
    <2>7. Creates(Returned(turn[p], out)) => Creates(turn[p])
      BY <1>2, <2>3 DEF Creates, Returned, Fields, Idle
    <2>8. QED
      BY <1>3, <2>4, <2>5, <2>6, <2>7, StepKept
  <1>9. QED
    BY <1>4, <1>6, <1>7, <1>8

\* What a result of each tool holds.
LEMMA OutFields ==
    ASSUME NEW P, NEW say, NEW out, OutKept(P, say, out)
    PROVE  /\ out.tool = "dispatch_router" /\ out.route = "workflow" => Staged(say)
           /\ out.tool = "plan_create" => out.plan \in DOMAIN P
           /\ out.tool \in {"plan_update_stage_state", "dispatch_executor"} =>
                 out.plan \in DOMAIN P /\ out.stage \in DOMAIN P[out.plan].stages
           /\ out.tool = "plan_update_stage_state" => out.state \in First!StageState
           /\ out.tool = "dispatch_executor" =>
                 /\ out.pending \in SUBSET Kind
                 /\ out.pending = {} => AllMade(P[out.plan], out.stage)
           /\ out.tool = "content" => out.kind \in Kind
  <1>1. CASE out = [tool |-> "error"]
    BY <1>1
  <1>2. CASE out = [tool |-> "dispatch_planner"]
    BY <1>2
  <1>3. ASSUME NEW kind \in Kind, out = [tool |-> "content", kind |-> kind]
        PROVE  out.tool = "content" /\ out.kind \in Kind
    BY <1>3
  <1>4. ASSUME NEW route \in {"workflow", "direct"},
               out = [tool |-> "dispatch_router", route |-> route],
               route = "workflow" => Staged(say)
        PROVE  out.tool = "dispatch_router" /\ (out.route = "workflow" => Staged(say))
    BY <1>4
  <1>5. ASSUME NEW i \in DOMAIN P, out = [tool |-> "plan_create", plan |-> i]
        PROVE  out.tool = "plan_create" /\ out.plan \in DOMAIN P
    BY <1>5
  <1>6. ASSUME NEW i \in DOMAIN P, NEW s \in DOMAIN P[i].stages, NEW state \in First!StageState,
               out = [tool |-> "plan_update_stage_state", plan |-> i, stage |-> s, state |-> state]
        PROVE  /\ out.tool = "plan_update_stage_state" /\ out.plan \in DOMAIN P
               /\ out.stage \in DOMAIN P[out.plan].stages /\ out.state \in First!StageState
    BY <1>6
  <1>7. ASSUME NEW i \in DOMAIN P, NEW s \in DOMAIN P[i].stages, NEW pending \in SUBSET Kind,
               out = [tool |-> "dispatch_executor", plan |-> i, stage |-> s, pending |-> pending],
               pending = {} => AllMade(P[i], s)
        PROVE  /\ out.tool = "dispatch_executor" /\ out.plan \in DOMAIN P
               /\ out.stage \in DOMAIN P[out.plan].stages /\ out.pending \in SUBSET Kind
               /\ out.pending = {} => AllMade(P[out.plan], out.stage)
    BY <1>7
  <1>8. QED
    BY <1>1, <1>2, <1>3, <1>4, <1>5, <1>6, <1>7 DEF OutKept

\* After a result: what is known of it.
LEMMA AfterOut ==
    ASSUME ChatInv, NEW p \in Process, NEW tool, After(p, tool)
    PROVE  /\ Whole(turn[p]) /\ turn[p].at = "next"
           /\ OutKept(plans, turn[p].say, turn[p].out) /\ turn[p].out.tool = tool
  <1>1. turn[p].at = "next" /\ turn[p].out.tool = tool
    BY DEF After
  <1>2. Whole(turn[p]) /\ PlaceKept(plans, turn[p])
    BY <1>1, RunningTurn DEF ChatInv
  <1>3. QED
    BY <1>1, <1>2 DEF PlaceKept

LEMMA DecideKept ==
    ASSUME ChatInv, NEW p \in Process, Decide(p)
    PROVE  ChatInv'
  <1> DEFINE out == turn[p].out
  <1>1. UNCHANGED <<plans, workspace, sent, faults, shown>>
    BY DEF Decide
  <1>2. PlansKept /\ RestKept'
    BY <1>1 DEF ChatInv, RestKept
  <1>3. CASE Replies(p)
    BY <1>1, <1>2, <1>3, RepliesKept
  <1>4. CASE AfterRouter(p)
    <2> DEFINE call == [tool |-> "plan_create"]
    <2>1. /\ Whole(turn[p]) /\ turn[p].at = "next" /\ OutKept(plans, turn[p].say, out)
          /\ out.tool = "dispatch_router" /\ out.route = "workflow" /\ Calls(p, call)
      BY <1>4, AfterOut DEF AfterRouter
    <2>2. Staged(turn[p].say)
      BY <2>1, OutFields
    <2>3. CallKept(plans, turn[p].say, call)
      BY <2>2 DEF CallKept
    <2>4. Creates(turn[p])
      BY <2>1 DEF Creates, Idle
    <2> HIDE DEF call
    <2>5. Turned(p, Called(turn[p], call))
      BY <2>1, CallsTurned DEF ChatInv
    <2>6. PlansGrow /\ Len(plans') = Len(plans)
      BY <1>1, SamePlansGrow DEF ChatInv
    <2>7. TurnKept(plans', Called(turn[p], call))
      BY <1>1, <2>1, <2>3, CalledKept
    <2>8. QED
      BY <1>2, <2>4, <2>5, <2>6, <2>7, StepKept
  <1>5. CASE AfterPlanCreate(p)
    <2>1. /\ turn[p].at = "next" /\ OutKept(plans, turn[p].say, out)
          /\ out.tool = "plan_create" /\ Calls(p, Plan(out.plan, FALSE))
      BY <1>5, AfterOut DEF AfterPlanCreate
    <2>2. out.plan \in DOMAIN plans
      BY <2>1, OutFields
    <2>3. CallKept(plans, turn[p].say, Plan(out.plan, FALSE))
          /\ Plan(out.plan, FALSE).tool # "plan_create"
      BY <2>2, PlannerCallKept DEF Plan
    <2>4. QED
      BY <1>1, <2>1, <2>3, CallsKept
  <1>6. CASE AfterPlanner(p) /\ ~Replies(p)
    <2>1. /\ turn[p].at = "next" /\ InState("pending") # {}
          /\ Calls(p, Present(Latest, FirstIn("pending")))
      BY <1>6 DEF AfterPlanner, After
    <2> DEFINE call == Move(Latest, FirstIn("pending"), "waiting_user", FALSE, "plan_review")
    <2>2. Latest \in DOMAIN plans /\ FirstIn("pending") \in Nat
      BY <1>2, <2>1, FirstInIs, StatesAreLatest, LatestRow
    <2>3. CallKept(plans, turn[p].say, call)
      BY <2>2, MoveCallKept DEF First!StageState
    <2>4. call.tool # "plan_create"
      BY DEF Move
    <2> HIDE DEF call
    <2>5. Calls(p, call)
      BY <2>1 DEF call, Present
    <2>6. QED
      BY <1>1, <2>1, <2>3, <2>4, <2>5, CallsKept
  <1>7. CASE AfterExecutor(p)
    <2>1. /\ turn[p].at = "next" /\ OutKept(plans, turn[p].say, out)
          /\ out.tool = "dispatch_executor"
      BY <1>7, AfterOut DEF AfterExecutor
    <2>2. /\ out.plan \in DOMAIN plans /\ out.stage \in DOMAIN plans[out.plan].stages
          /\ out.pending \in SUBSET Kind /\ (out.pending = {} => AllMade(plans[out.plan], out.stage))
      BY <2>1, OutFields
    <2>3. out.stage \in Nat
      <3>1. RowKept(plans[out.plan])
        BY <1>2, <2>2 DEF PlansKept
      <3>2. QED
        BY <2>2, <3>1, RowStages
    <2>4. ASSUME NEW target \in {"done", "blocked"}, target = "done" => out.pending = {},
                 Calls(p, Move(out.plan, out.stage, target, FALSE, "none"))
          PROVE  ChatInv'
      <3> DEFINE call == Move(out.plan, out.stage, target, FALSE, "none")
      <3>1. CallKept(plans, turn[p].say, call)
        BY <2>2, <2>3, <2>4, MoveCallKept DEF First!StageState, First!NoKind
      <3>2. call.tool # "plan_create"
        BY DEF Move
      <3> HIDE DEF call
      <3>3. Calls(p, call)
        BY <2>4 DEF call
      <3>4. QED
        BY <1>1, <2>1, <3>1, <3>2, <3>3, CallsKept
    <2>5. CASE Calls(p, ExecuteStage(out.plan, out.stage, out.pending))
      <3> DEFINE call == ExecuteStage(out.plan, out.stage, out.pending)
      <3>1. CallKept(plans, turn[p].say, call)
        BY <2>2, ExecuteCallKept
      <3>2. call.tool # "plan_create"
        BY DEF ExecuteStage
      <3> HIDE DEF call
      <3>3. Calls(p, call)
        BY <2>5 DEF call
      <3>4. QED
        BY <1>1, <2>1, <3>1, <3>2, <3>3, CallsKept
    <2>6. QED
      BY <1>7, <2>4, <2>5 DEF AfterExecutor
  <1>8. QED
    BY <1>3, <1>4, <1>5, <1>6, <1>7 DEF Decide, AfterError

LEMMA RestSame ==
    ASSUME ChatInv, UNCHANGED <<workspace, sent, faults>>
    PROVE  RestKept'
  BY DEF ChatInv, RestKept

LEMMA RestMade ==
    ASSUME ChatInv, NEW p \in Process, NEW kind \in Kind, workspace' = Made(p, kind),
           UNCHANGED <<sent, faults>>
    PROVE  RestKept'
  BY DEF ChatInv, RestKept, Made

LEMMA AfterRouterOrContentKept ==
    ASSUME ChatInv, NEW p \in Process, AfterRouterOrContent(p)
    PROVE  ChatInv'
  <1>1. turn[p].at = "next" /\ UNCHANGED <<plans, sent, faults, shown>>
    BY DEF AfterRouterOrContent, After
  <1>2. CASE Replies(p) /\ UNCHANGED workspace
    BY <1>1, <1>2, RestSame, RepliesKept
  <1>3. ASSUME NEW k \in Kind, workspace' = Made(p, k), Returns(p, [tool |-> "content", kind |-> k])
        PROVE  ChatInv'
    <2> DEFINE out == [tool |-> "content", kind |-> k]
    <2>1. OutKept(plans', turn[p].say, out) /\ out.tool # "dispatch_router"
      BY DEF OutKept
    <2> HIDE DEF out
    <2>2. Returns(p, out)
      BY <1>3 DEF out
    <2>3. RestKept' /\ PlansGrow /\ Len(plans') = Len(plans)
      BY <1>1, <1>3, RestMade, SamePlansGrow DEF ChatInv
    <2>4. QED
      BY <1>1, <2>1, <2>2, <2>3, ReturnsKept
  <1>4. QED
    <2>1. \A k \in DOMAIN MadeFrom : k \in Kind
      BY DEF MadeFrom, Kind
    <2>2. "brief" \in Kind
      BY DEF Kind
    <2>3. QED
      BY <1>2, <1>3, <2>1, <2>2 DEF AfterRouterOrContent

LEMMA AfterStateKept ==
    ASSUME ChatInv, NEW p \in Process, AfterState(p)
    PROVE  ChatInv'
  <1> DEFINE out == turn[p].out
  <1>1. UNCHANGED <<plans, workspace, sent, faults>>
    BY DEF AfterState
  <1>2. /\ turn[p].at = "next" /\ OutKept(plans, turn[p].say, out)
        /\ out.tool = "plan_update_stage_state"
    BY AfterOut DEF AfterState
  <1>3. /\ out.plan \in DOMAIN plans /\ out.stage \in DOMAIN plans[out.plan].stages
        /\ PlansKept /\ RestKept'
    BY <1>1, <1>2, OutFields, RestSame DEF ChatInv
  <1>4. CASE Replies(p)
    BY <1>1, <1>3, <1>4, RepliesKept
  <1>5. CASE Calls(p, ExecuteStage(out.plan, out.stage, {}))
    <2> DEFINE call == ExecuteStage(out.plan, out.stage, {})
    <2>1. CallKept(plans, turn[p].say, call)
      BY <1>3, ExecuteCallKept
    <2>2. call.tool # "plan_create"
      BY DEF ExecuteStage
    <2> HIDE DEF call
    <2>3. Calls(p, call)
      BY <1>5 DEF call
    <2>4. QED
      BY <1>1, <1>2, <2>1, <2>2, <2>3, CallsKept
  <1>6. CASE MovesOn(out) /\ Calls(p, Present(out.plan, FirstIn("pending")))
    <2> DEFINE call == Move(out.plan, FirstIn("pending"), "waiting_user", FALSE, "plan_review")
    <2>1. FirstIn("pending") \in Nat
      BY <1>3, <1>6, FirstInIs DEF MovesOn
    <2>2. CallKept(plans, turn[p].say, call)
      BY <1>3, <2>1, MoveCallKept DEF First!StageState
    <2>3. call.tool # "plan_create"
      BY DEF Move
    <2> HIDE DEF call
    <2>4. Calls(p, call)
      BY <1>6 DEF call, Present
    <2>5. QED
      BY <1>1, <1>2, <2>2, <2>3, <2>4, CallsKept
  <1>7. QED
    BY <1>4, <1>5, <1>6 DEF AfterState, Presents

-----------------------------------------------------------------------------
(* The tools keep the invariant.                                            *)

\* What a call of each tool holds.
LEMMA CallFields ==
    ASSUME NEW P, NEW say, NEW call, CallKept(P, say, call)
    PROVE  /\ call.tool = "plan_create" => Staged(say)
           /\ call.tool = "dispatch_planner" =>
                 \E i \in DOMAIN P, answers \in BOOLEAN : call = Plan(i, answers)
           /\ call.tool = "dispatch_executor" =>
                 \E i \in DOMAIN P : \E s \in DOMAIN P[i].stages, retry \in SUBSET Kind :
                    call = ExecuteStage(i, s, retry)
           /\ call.tool = "plan_update_stage_state" =>
                 /\ call.plan \in DOMAIN P /\ call.stage \in Nat
                 /\ call.target \in First!StageState /\ call.user_confirmed \in BOOLEAN
                 /\ call.review_kind \in {"plan_review", First!NoKind}
                 /\ call.target = "done" =>
                       call.stage \in DOMAIN P[call.plan].stages /\ AllMade(P[call.plan], call.stage)
  <1>1. CASE call = [tool |-> "plan_create"] /\ Staged(say)
    BY <1>1
  <1>2. ASSUME NEW i \in DOMAIN P, NEW answers \in BOOLEAN, call = Plan(i, answers)
        PROVE  call.tool = "dispatch_planner"
    BY <1>2 DEF Plan
  <1>3. ASSUME NEW i \in DOMAIN P, NEW s \in DOMAIN P[i].stages, NEW retry \in SUBSET Kind,
               call = ExecuteStage(i, s, retry)
        PROVE  call.tool = "dispatch_executor"
    BY <1>3 DEF ExecuteStage
  <1>4. ASSUME NEW i \in DOMAIN P, NEW s \in Nat, NEW target \in First!StageState,
               NEW confirmed \in BOOLEAN, NEW kind \in {"plan_review", First!NoKind},
               call = Move(i, s, target, confirmed, kind),
               target = "done" => s \in DOMAIN P[i].stages /\ AllMade(P[i], s)
        PROVE  /\ call.tool = "plan_update_stage_state"
               /\ call.plan \in DOMAIN P /\ call.stage \in Nat
               /\ call.target \in First!StageState /\ call.user_confirmed \in BOOLEAN
               /\ call.review_kind \in {"plan_review", First!NoKind}
               /\ call.target = "done" =>
                     call.stage \in DOMAIN P[call.plan].stages /\ AllMade(P[call.plan], call.stage)
    <2>1. /\ call.plan = i /\ call.stage = s /\ call.target = target
          /\ call.user_confirmed = confirmed /\ call.review_kind = kind
          /\ call.tool = "plan_update_stage_state"
      BY <1>4 DEF Move
    <2>2. QED
      BY <1>4, <2>1
  <1>5. CASE \E i \in DOMAIN P, answers \in BOOLEAN : call = Plan(i, answers)
    <2>1. call.tool = "dispatch_planner"
      BY <1>2, <1>5
    <2>2. QED
      BY <1>5, <2>1
  <1>6. CASE \E i \in DOMAIN P : \E s \in DOMAIN P[i].stages, retry \in SUBSET Kind :
                call = ExecuteStage(i, s, retry)
    <2>1. call.tool = "dispatch_executor"
      BY <1>3, <1>6
    <2>2. QED
      BY <1>6, <2>1
  <1>7. CASE \E i \in DOMAIN P, s \in Nat, target \in First!StageState, confirmed \in BOOLEAN,
                kind \in {"plan_review", First!NoKind} :
                /\ call = Move(i, s, target, confirmed, kind)
                /\ target = "done" => s \in DOMAIN P[i].stages /\ AllMade(P[i], s)
    <2> DEFINE Shape == /\ call.tool = "plan_update_stage_state"
                        /\ call.plan \in DOMAIN P /\ call.stage \in Nat
                        /\ call.target \in First!StageState /\ call.user_confirmed \in BOOLEAN
                        /\ call.review_kind \in {"plan_review", First!NoKind}
                        /\ call.target = "done" =>
                              /\ call.stage \in DOMAIN P[call.plan].stages
                              /\ AllMade(P[call.plan], call.stage)
    <2> HIDE DEF Shape
    <2>1. Shape
      BY <1>4, <1>7 DEF Shape
    <2>2. QED
      BY <2>1 DEF Shape
  <1>8. QED
    BY <1>1, <1>5, <1>6, <1>7 DEF CallKept

\* The call that is being performed.
LEMMA PerformedCall ==
    ASSUME ChatInv, NEW p \in Process, NEW tool, Performing(p, tool)
    PROVE  /\ Whole(turn[p]) /\ turn[p].at = "call" /\ turn[p].call.tool = tool
           /\ CallKept(plans, turn[p].say, turn[p].call)
  <1>1. turn[p].at = "call" /\ turn[p].call.tool = tool
    BY DEF Performing
  <1>2. Whole(turn[p]) /\ PlaceKept(plans, turn[p])
    BY <1>1, RunningTurn DEF ChatInv
  <1>3. QED
    BY <1>1, <1>2 DEF PlaceKept

LEMMA FailsKept ==
    ASSUME ChatInv, NEW p \in Process, turn[p].at # "idle", Fails(p), UNCHANGED plans, RestKept'
    PROVE  ChatInv'
  <1> DEFINE out == [tool |-> "error"]
  <1>1. OutKept(plans', turn[p].say, out) /\ out.tool # "dispatch_router"
    BY DEF OutKept
  <1> HIDE DEF out
  <1>2. Returns(p, out)
    BY DEF Fails, out
  <1>3. PlansGrow /\ Len(plans') = Len(plans)
    BY SamePlansGrow DEF ChatInv
  <1>4. QED
    BY <1>1, <1>2, <1>3, ReturnsKept

LEMMA CountPlansKept ==
    ASSUME ChatInv, NEW p \in Process, CountPlans(p)
    PROVE  ChatInv'
  <1> DEFINE r == turn[p]
             c == [tool |-> "plan_create", plan |-> Latest + 1]
             new == Fields("insert", r.say, c, r.out, r.run, r.tries)
  <1>1. /\ Whole(r) /\ r.at = "call" /\ r.call.tool = "plan_create" /\ CallKept(plans, r.say, r.call)
    BY PerformedCall DEF CountPlans
  <1>2. Staged(r.say)
    BY <1>1, CallFields
  <1>3. /\ UNCHANGED <<plans, workspace, sent, faults>> /\ PlansKept /\ TurnsKept
        /\ turn' = [turn EXCEPT ![p].at = "insert", ![p].call = c]
    BY DEF CountPlans, ChatInv
  <1>4. new = [r EXCEPT !.at = "insert", !.call = c]
    <2>1. [r EXCEPT !.at = "insert"] = Fields("insert", r.say, r.call, r.out, r.run, r.tries)
      BY <1>1, FieldWritten DEF Whole
    <2>2. [Fields("insert", r.say, r.call, r.out, r.run, r.tries) EXCEPT !.call = c] = new
      BY DEF Fields
    <2>3. [r EXCEPT !.at = "insert", !.call = c] = [[r EXCEPT !.at = "insert"] EXCEPT !.call = c]
      OBVIOUS
    <2>4. QED
      BY <2>1, <2>2, <2>3
  <1>5. Turned(p, new)
    <2>1. turn' = [turn EXCEPT ![p] = [r EXCEPT !.at = "insert", !.call = c]]
      BY <1>3 DEF TurnsKept
    <2>2. QED
      BY <1>4, <2>1 DEF Turned
  <1>6. PlansGrow /\ Len(plans') = Len(plans) /\ RestKept'
    BY <1>3, SamePlansGrow, RestSame
  <1>7. TurnKept(plans', new)
    <2>1. Latest + 1 \in 1 .. Len(plans') + 1
      BY <1>3 DEF Latest, PlansKept
    <2>2. InsertKept(plans', new)
      BY <1>2, <2>1 DEF InsertKept, Fields
    <2>3. QED
      BY <1>1, <2>2 DEF TurnKept, PlaceKept, Whole, Fields
  <1>8. Creates(r)
    BY <1>1 DEF Creates, Idle
  <1>9. QED
    BY <1>5, <1>6, <1>7, <1>8, StepKept

LEMMA InsertPlanKept ==
    ASSUME ChatInv, NEW p \in Process, InsertPlan(p)
    PROVE  ChatInv'
  <1> DEFINE i == turn[p].call.plan
             out == [tool |-> "plan_create", plan |-> i]
  <1>1. /\ turn[p].at = "insert" /\ UNCHANGED <<workspace, sent, faults>>
        /\ PlansKept /\ TurnsKept /\ RoomKept
    BY DEF InsertPlan, ChatInv
  <1>2. Whole(turn[p]) /\ InsertKept(plans, turn[p]) /\ RestKept'
    BY <1>1, RunningTurn, RestSame DEF PlaceKept
  <1>3. i \in 1 .. Len(plans) + 1
    BY <1>2 DEF InsertKept
  <1>4. CASE Fails(p) /\ UNCHANGED plans
    BY <1>1, <1>2, <1>4, FailsKept
  <1>5. CASE i \notin DOMAIN plans /\ plans' = Append(plans, First!NewPlan) /\ Returns(p, out)
    <2>1. PlansGrow /\ Len(plans') = Len(plans) + 1 /\ Len(plans) \in Nat
          /\ DOMAIN plans = 1 .. Len(plans)
      BY <1>1, <1>5, InsertGrows DEF PlansKept
    <2>2. i = Len(plans) + 1
      BY <1>3, <1>5, <2>1
    <2>3. i \in DOMAIN plans'
      BY <2>1, <2>2 DEF PlansGrow, PlansKept
    <2>4. OutKept(plans', turn[p].say, out) /\ out.tool # "dispatch_router"
      BY <2>3 DEF OutKept
    <2> HIDE DEF out
    <2>5. Turned(p, Returned(turn[p], out))
      BY <1>1, <1>2, <1>5, ReturnsTurned
    <2>6. TurnKept(plans', Returned(turn[p], out))
      BY <1>2, <2>4, ReturnedKept
    <2>7. TurnsKept'
      BY <1>1, <2>1, <2>5, <2>6, TurnedKept
    <2>8. ~Creates(Returned(turn[p], out)) /\ Creates(turn[p])
      BY <1>1, <2>4 DEF Creates, Returned, Fields, Idle
    <2>9. Creating' \subseteq Creating \ {p} /\ p \in Creating
      BY <1>1, <2>5, <2>8 DEF Creating, Turned, TurnsKept
    <2>10. IsFiniteSet(Creating)
      BY FS_Subset DEF Creating
    <2>11. /\ Cardinality(Creating \ {p}) = Cardinality(Creating) - 1
           /\ IsFiniteSet(Creating \ {p})
      BY <2>9, <2>10, FS_RemoveElement
    <2>12. /\ Cardinality(Creating') <= Cardinality(Creating \ {p})
           /\ Cardinality(Creating') \in Nat /\ Cardinality(Creating) \in Nat
      BY <2>9, <2>10, <2>11, FS_Subset, FS_CardinalityType
    <2>13. RoomKept'
      BY <1>1, <2>1, <2>11, <2>12 DEF RoomKept
    <2>14. QED
      BY <1>2, <2>1, <2>7, <2>13 DEF ChatInv, PlansGrow
  <1>6. QED
    BY <1>4, <1>5 DEF InsertPlan

LEMMA PlanUpdateStageStateKept ==
    ASSUME ChatInv, NEW p \in Process, PlanUpdateStageState(p)
    PROVE  ChatInv'
  <1> DEFINE call == turn[p].call
             i == call.plan
             s == call.stage
             d == plans[i]
             e == First!Updated(d, s, call.target, call.user_confirmed, call.review_kind, {})
             out == [tool |-> "plan_update_stage_state", plan |-> i, stage |-> s, state |-> call.target]
  <1>1. /\ turn[p].at = "call" /\ CallKept(plans, turn[p].say, call)
        /\ call.tool = "plan_update_stage_state"
    BY PerformedCall DEF PlanUpdateStageState
  <1>2. /\ i \in DOMAIN plans /\ s \in Nat /\ call.target \in First!StageState
        /\ call.user_confirmed \in BOOLEAN /\ call.review_kind \in {"plan_review", First!NoKind}
        /\ call.target = "done" => s \in DOMAIN d.stages /\ AllMade(d, s)
    BY <1>1, CallFields
  <1>3. UNCHANGED <<workspace, sent, faults>> /\ PlansKept /\ RestKept' /\ RowKept(d)
    BY <1>2, RestSame DEF PlanUpdateStageState, ChatInv, PlansKept
  <1>4. CASE Fails(p) /\ UNCHANGED plans
    BY <1>1, <1>3, <1>4, FailsKept
  <1>5. CASE Allowed(call) /\ Writes(i, e) /\ Returns(p, out)
    <2>1. s \in DOMAIN d.stages
      BY <1>5 DEF Allowed
    <2>2. Advances(d, e)
      BY <1>2, <1>3, <2>1, UpdatedAdvances
    <2> HIDE DEF e
    <2>3. PlansGrow /\ Len(plans') = Len(plans)
      BY <1>2, <1>3, <1>5, <2>2, WritesGrow
    <2>4. i \in DOMAIN plans' /\ s \in DOMAIN plans'[i].stages
      BY <1>2, <2>1, <2>3 DEF PlansGrow, LaterPlans, Later
    <2>5. OutKept(plans', turn[p].say, out) /\ out.tool # "dispatch_router"
      BY <1>2, <2>4 DEF OutKept
    <2> HIDE DEF out
    <2>6. QED
      BY <1>1, <1>3, <1>5, <2>3, <2>5, ReturnsKept
  <1>6. QED
    BY <1>4, <1>5 DEF PlanUpdateStageState

-----------------------------------------------------------------------------
(* The Planner keeps the invariant.                                         *)

\* The turn with its sub-agent's run as it is now.
Ran(r, at, run) == Fields(at, r.say, r.call, r.out, run, r.tries)

LEMMA RanTurned ==
    ASSUME TurnsKept, NEW p \in Process, Whole(turn[p]), NEW at, NEW run,
           turn' = [turn EXCEPT ![p].at = at, ![p].run = run]
    PROVE  Turned(p, Ran(turn[p], at, run))
  <1> DEFINE r == turn[p]
  <1>1. r = Fields(r.at, r.say, r.call, r.out, r.run, r.tries)
    BY DEF Whole
  <1>2. [r EXCEPT !.at = at, !.run = run] = Ran(r, at, run)
    <2>1. [r EXCEPT !.at = at] = Fields(at, r.say, r.call, r.out, r.run, r.tries)
      BY <1>1, FieldWritten
    <2>2. [Fields(at, r.say, r.call, r.out, r.run, r.tries) EXCEPT !.run = run] =
             Fields(at, r.say, r.call, r.out, run, r.tries)
      BY DEF Fields
    <2>3. [r EXCEPT !.at = at, !.run = run] = [[r EXCEPT !.at = at] EXCEPT !.run = run]
      OBVIOUS
    <2>4. QED
      BY <2>1, <2>2, <2>3 DEF Ran
  <1>3. turn' = [turn EXCEPT ![p] = [r EXCEPT !.at = at, !.run = run]]
    BY DEF TurnsKept
  <1>4. QED
    BY <1>2, <1>3 DEF Turned

LEMMA SameRunTurned ==
    ASSUME TurnsKept, NEW p \in Process, Whole(turn[p]), NEW run,
           turn' = [turn EXCEPT ![p] = [turn[p] EXCEPT !.run = run]]
    PROVE  Turned(p, Ran(turn[p], turn[p].at, run))
  <1> DEFINE r == turn[p]
  <1>1. r = Fields(r.at, r.say, r.call, r.out, r.run, r.tries)
    BY DEF Whole
  <1>2. [r EXCEPT !.run = run] = Ran(r, r.at, run)
    <2>1. [Fields(r.at, r.say, r.call, r.out, r.run, r.tries) EXCEPT !.run = run] =
             Fields(r.at, r.say, r.call, r.out, run, r.tries)
      BY DEF Fields
    <2>2. QED
      BY <1>1, <2>1 DEF Ran
  <1>3. QED
    BY <1>2 DEF Turned

\* What a turn whose Planner runs holds.
LEMMA PlannerTurn ==
    ASSUME ChatInv, NEW p \in Process, turn[p].at = "planner"
    PROVE  /\ Whole(turn[p]) /\ PlannerKept(plans, turn[p])
           /\ turn[p].call.plan \in DOMAIN plans /\ RowKept(plans[turn[p].call.plan])
           /\ turn[p].run.written \in Seq(DOMAIN plans[turn[p].call.plan].stages)
  <1>1. Whole(turn[p]) /\ PlannerKept(plans, turn[p])
    BY RunningTurn DEF ChatInv, PlaceKept
  <1>2. turn[p].call.plan \in DOMAIN plans
    BY <1>1 DEF PlannerKept, Plan
  <1>3. QED
    BY <1>1, <1>2 DEF PlannerKept, ChatInv, PlansKept

LEMMA DispatchPlannerKept ==
    ASSUME ChatInv, NEW p \in Process, DispatchPlanner(p)
    PROVE  ChatInv'
  <1> DEFINE r == turn[p]
             run == [written |-> <<>>]
             new == Ran(r, "planner", run)
  <1>1. /\ Whole(r) /\ r.at = "call" /\ CallKept(plans, r.say, r.call)
        /\ r.call.tool = "dispatch_planner"
    BY PerformedCall DEF DispatchPlanner
  <1>2. PICK i \in DOMAIN plans, answers \in BOOLEAN : r.call = Plan(i, answers)
    BY <1>1, CallFields
  <1>3. r.call.plan = i /\ RowKept(plans[i])
    BY <1>2 DEF Plan, ChatInv, PlansKept
  <1>4. UNCHANGED <<workspace, sent, faults>> /\ PlansKept /\ RestKept' /\ TurnsKept
    BY RestSame DEF DispatchPlanner, ChatInv
  <1>5. PlansGrow /\ Len(plans') = Len(plans)
    <2>1. CASE UNCHANGED plans
      BY <1>4, <2>1, SamePlansGrow
    <2>2. CASE Writes(i, First!Cleared(plans[i]))
      BY <1>3, <1>4, <2>2, ClearedAdvances, WritesGrow
    <2>3. QED
      BY <1>3, <2>1, <2>2 DEF DispatchPlanner
  <1>6. Turned(p, new)
    BY <1>1, <1>4, RanTurned DEF DispatchPlanner
  <1>7. TurnKept(plans', new)
    <2>1. i \in DOMAIN plans' /\ run.written \in Seq(DOMAIN plans'[i].stages)
      BY <1>5 DEF PlansGrow, LaterPlans
    <2> HIDE DEF run
    <2>2. PlannerKept(plans', new)
      BY <1>2, <1>3, <2>1 DEF PlannerKept, Ran, Fields, run
    <2>3. QED
      BY <1>1, <2>2 DEF TurnKept, PlaceKept, Whole, Ran, Fields
  <1>8. ~Creates(new)
    BY DEF Creates, Ran, Fields
  <1>9. QED
    BY <1>4, <1>5, <1>6, <1>7, <1>8, StepKept

LEMMA PlannerAsksKept ==
    ASSUME ChatInv, NEW p \in Process, PlannerAsks(p)
    PROVE  ChatInv'
  <1> DEFINE i == turn[p].call.plan
  <1>1. i \in DOMAIN plans /\ RowKept(plans[i]) /\ PlansKept
    BY PlannerTurn DEF PlannerAsks, ChatInv
  <1>2. PlansGrow /\ Len(plans') = Len(plans)
    BY <1>1, AskedAdvances, WritesGrow DEF PlannerAsks
  <1>3. Turned(p, Idle) /\ RestKept'
    BY RepliesTurned, RestSame DEF PlannerAsks
  <1>4. TurnKept(plans', Idle) /\ ~Creates(Idle)
    BY DEF TurnKept, Creates
  <1>5. QED
    BY <1>2, <1>3, <1>4, StepKept

\* The contract of the stage that the Planner writes next: its input is a stage
\* that is there, and the first has none.
LEMMA ContractWritten ==
    ASSUME ChatInv, NEW p \in Process, PlannerWrites(p)
    PROVE  LET d == plans[turn[p].call.plan]
               c == [spec |-> Len(turn[p].run.written) + 1, input |-> Consumes(turn[p].run.written)]
           IN  c \in Contract /\ c.input <= Len(d.stages) /\ (c.spec = 1 => c.input = 0)
  <1> DEFINE r == turn[p]
             i == r.call.plan
             d == plans[i]
             w == r.run.written
             c == [spec |-> Len(w) + 1, input |-> Consumes(w)]
  <1>1. /\ r.at = "planner" /\ Len(w) < Len(STAGE_SPECS) /\ Len(d.stages) < MaxStages
    BY DEF PlannerWrites
  <1>2. RowKept(d) /\ w \in Seq(DOMAIN d.stages)
    BY <1>1, PlannerTurn DEF ChatInv
  <1>3. Len(d.stages) \in Nat /\ DOMAIN d.stages = 1 .. Len(d.stages)
    BY <1>2, RowStages
  <1>4. c \in Contract /\ c.input <= Len(d.stages) /\ (c.spec = 1 => c.input = 0)
    <2>1. Len(w) \in Nat /\ (w # <<>> => Len(w) # 0 /\ w[Len(w)] \in DOMAIN d.stages)
      BY <1>2
    <2>2. Consumes(w) \in 0 .. Len(d.stages) /\ (Len(w) = 0 => Consumes(w) = 0)
      <3>1. CASE w = <<>>
        BY <1>3, <3>1 DEF Consumes
      <3>2. CASE w # <<>>
        BY <1>3, <2>1, <3>2 DEF Consumes
      <3>3. QED
        BY <3>1, <3>2
    <2>3. Len(STAGE_SPECS) = 3 /\ DOMAIN STAGE_SPECS = {1, 2, 3}
      BY DEF STAGE_SPECS
    <2>4. Len(w) + 1 \in DOMAIN STAGE_SPECS
      <3> DEFINE k == Len(w)
      <3>1. k \in Nat /\ k < 3
        BY <1>1, <2>1, <2>3
      <3> HIDE DEF k
      <3>2. k + 1 \in {1, 2, 3}
        BY <3>1
      <3>3. QED
        BY <2>3, <3>2 DEF k
    <2>5. Consumes(w) \in 0 .. MaxStages
      <3> DEFINE k == Len(d.stages)
                 x == Consumes(w)
      <3>1. k \in Nat /\ k < MaxStages /\ x \in 0 .. k
        BY <1>1, <1>3, <2>2
      <3> HIDE DEF k, x
      <3>2. x \in 0 .. MaxStages
        BY <3>1
      <3>3. QED
        BY <3>2 DEF x
    <2>6. QED
      BY <1>3, <2>1, <2>2, <2>4, <2>5 DEF Contract
  <1>5. QED
    BY <1>4

LEMMA PlannerWritesKept ==
    ASSUME ChatInv, NEW p \in Process, PlannerWrites(p)
    PROVE  ChatInv'
  <1> DEFINE r == turn[p]
             i == r.call.plan
             d == plans[i]
             w == r.run.written
             n == Len(d.stages) + 1
             c == [spec |-> Len(w) + 1, input |-> Consumes(w)]
             e == First!Authored(d, c, n)
             run == [written |-> Append(w, n)]
             new == Ran(r, "planner", run)
  <1>1. /\ r.at = "planner" /\ Len(w) < Len(STAGE_SPECS) /\ Len(d.stages) < MaxStages
        /\ Writes(i, e) /\ turn' = [turn EXCEPT ![p].run.written = Append(@, n)]
        /\ UNCHANGED <<workspace, sent, faults>>
    BY DEF PlannerWrites
  <1>2. /\ Whole(r) /\ PlannerKept(plans, r) /\ i \in DOMAIN plans /\ RowKept(d)
        /\ w \in Seq(DOMAIN d.stages) /\ PlansKept /\ TurnsKept /\ RestKept'
    BY <1>1, PlannerTurn, RestSame DEF ChatInv
  <1>3. Len(d.stages) \in Nat /\ DOMAIN d.stages = 1 .. Len(d.stages)
    BY <1>2, RowStages
  <1>4. c \in Contract /\ c.input <= Len(d.stages) /\ (c.spec = 1 => c.input = 0)
    BY ContractWritten
  <1> HIDE DEF c
  <1>5. Advances(d, e) /\ Len(e.stages) = n
    BY <1>2, <1>4, AuthoredAdvances
  <1> HIDE DEF e
  <1>6. PlansGrow /\ Len(plans') = Len(plans) /\ plans'[i] = e
    BY <1>1, <1>2, <1>5, WritesGrow DEF Writes, PlansKept
  <1>7. Turned(p, new)
    <2>1. turn' = [turn EXCEPT ![p] = [r EXCEPT !.run = [r.run EXCEPT !.written = Append(w, n)]]]
      BY <1>1, <1>2 DEF TurnsKept
    <2>2. [r.run EXCEPT !.written = Append(w, n)] = run
      <3> DEFINE w2 == Append(w, n)
      <3>1. r.run = [written |-> w]
        BY <1>2 DEF PlannerKept
      <3> HIDE DEF w2
      <3>2. [[written |-> w] EXCEPT !.written = w2] = [written |-> w2]
        OBVIOUS
      <3>3. QED
        BY <3>1, <3>2 DEF w2
    <2>3. turn' = [turn EXCEPT ![p] = [r EXCEPT !.run = run]]
      BY <2>1, <2>2
    <2>4. QED
      BY <1>1, <1>2, <2>3, SameRunTurned
  <1>8. TurnKept(plans', new)
    <2>1. i \in DOMAIN plans' /\ DOMAIN plans'[i].stages = 1 .. n /\ n \in Nat
      <3>1. i \in DOMAIN plans' /\ RowKept(e)
        BY <1>2, <1>5, <1>6 DEF PlansGrow, LaterPlans, Advances
      <3>2. DOMAIN e.stages = 1 .. Len(e.stages)
        BY <3>1, RowStages
      <3>3. n \in Nat
        <4>1. Len(d.stages) \in Nat
          BY <1>3
        <4>2. QED
          BY <4>1
      <3> HIDE DEF n
      <3>4. QED
        BY <1>5, <1>6, <3>1, <3>2, <3>3
    <2>2. Append(w, n) \in Seq(1 .. n)
      <3>1. w \in Seq(1 .. n) /\ n \in 1 .. n
        <4> DEFINE k == Len(d.stages)
        <4>1. k \in Nat /\ w \in Seq(1 .. k) /\ n = k + 1
          BY <1>2, <1>3
        <4> HIDE DEF k, n, w
        <4>2. 1 .. k \subseteq 1 .. n /\ n \in 1 .. n
          BY <4>1
        <4>3. QED
          BY <4>1, <4>2
      <3>2. QED
        BY <3>1
    <2> DEFINE w2 == Append(w, n)
    <2>3. run = [written |-> w2] /\ w2 \in Seq(DOMAIN plans'[i].stages)
      BY <2>1, <2>2
    <2>4. \E j \in DOMAIN plans', answers \in BOOLEAN : r.call = Plan(j, answers)
      <3>1. PICK j \in DOMAIN plans, answers \in BOOLEAN : r.call = Plan(j, answers)
        BY <1>2 DEF PlannerKept
      <3>2. j \in DOMAIN plans'
        BY <1>6 DEF PlansGrow, LaterPlans
      <3>3. QED
        BY <3>1, <3>2
    <2> HIDE DEF run, w2
    <2>5. new.call = r.call /\ new.run = run /\ new.at = "planner"
      BY DEF Ran, Fields
    <2>6. PlannerKept(plans', new)
      BY <2>3, <2>4, <2>5 DEF PlannerKept
    <2>7. Whole(new)
      BY <1>2 DEF Whole, Ran, Fields
    <2>8. QED
      BY <2>5, <2>6, <2>7 DEF TurnKept, PlaceKept
  <1>9. ~Creates(new)
    BY DEF Creates, Ran, Fields
  <1>10. QED
    BY <1>2, <1>6, <1>7, <1>8, <1>9, StepKept

LEMMA PlannerEndsKept ==
    ASSUME ChatInv, NEW p \in Process, turn[p].at = "planner",
           Returns(p, [tool |-> "dispatch_planner"]), UNCHANGED plans, RestKept'
    PROVE  ChatInv'
  <1> DEFINE out == [tool |-> "dispatch_planner"]
  <1>1. OutKept(plans', turn[p].say, out) /\ out.tool # "dispatch_router"
    BY DEF OutKept
  <1> HIDE DEF out
  <1>2. Returns(p, out)
    BY DEF out
  <1>3. PlansGrow /\ Len(plans') = Len(plans)
    BY SamePlansGrow DEF ChatInv
  <1>4. QED
    BY <1>1, <1>2, <1>3, ReturnsKept

-----------------------------------------------------------------------------
(* The Executor keeps the invariant.                                        *)

\* The items of a stage, by its contract's spec.
LEMMA SpecItems ==
    ASSUME NEW stage, stage.contract \in Contract
    PROVE  /\ stage.contract.spec \in {1, 2, 3}
           /\ stage.contract.spec = 1 => ItemKinds(stage) = {"brief", "outline"}
           /\ stage.contract.spec = 2 => ItemKinds(stage) = {"draft"}
           /\ stage.contract.spec = 3 => ItemKinds(stage) = {"render"}
           /\ ItemKinds(stage) \subseteq Kind
           /\ DOMAIN Items(stage) \subseteq Nat
  <1>1. stage.contract.spec \in {1, 2, 3}
    BY DEF Contract, STAGE_SPECS
  <1>2. CASE stage.contract.spec = 1
    <2>1. Items(stage) = <<"brief", "outline">>
      BY <1>2 DEF Items, STAGE_SPECS
    <2>2. ItemKinds(stage) = {"brief", "outline"} /\ DOMAIN Items(stage) = {1, 2}
      BY <2>1 DEF ItemKinds
    <2>3. QED
      BY <1>2, <2>2 DEF Kind
  <1>3. CASE stage.contract.spec = 2
    <2>1. Items(stage) = <<"draft">>
      BY <1>3 DEF Items, STAGE_SPECS
    <2>2. ItemKinds(stage) = {"draft"} /\ DOMAIN Items(stage) = {1}
      BY <2>1 DEF ItemKinds
    <2>3. QED
      BY <1>3, <2>2 DEF Kind
  <1>4. CASE stage.contract.spec = 3
    <2>1. Items(stage) = <<"render">>
      BY <1>4 DEF Items, STAGE_SPECS
    <2>2. ItemKinds(stage) = {"render"} /\ DOMAIN Items(stage) = {1}
      BY <2>1 DEF ItemKinds
    <2>3. QED
      BY <1>4, <2>2 DEF Kind
  <1>5. QED
    BY <1>1, <1>2, <1>3, <1>4

\* What a turn whose Executor runs holds.
LEMMA ExecutorTurn ==
    ASSUME ChatInv, NEW p \in Process, turn[p].at \in {"executor", "submit"}
    PROVE  /\ Whole(turn[p]) /\ ExecutorKept(plans, turn[p])
           /\ turn[p].call.plan \in DOMAIN plans /\ RowKept(plans[turn[p].call.plan])
           /\ turn[p].call.stage \in DOMAIN plans[turn[p].call.plan].stages
           /\ turn[p].at = "executor" =>
                 RunKept(plans[turn[p].call.plan], turn[p].call.stage, turn[p].run)
  <1>1. Whole(turn[p]) /\ ExecutorKept(plans, turn[p])
    BY RunningTurn DEF ChatInv, PlaceKept
  <1>2. turn[p].call.plan \in DOMAIN plans
        /\ turn[p].call.stage \in DOMAIN plans[turn[p].call.plan].stages
    BY <1>1 DEF ExecutorKept, ExecuteStage
  <1>3. QED
    BY <1>1, <1>2 DEF ExecutorKept, ChatInv, PlansKept

\* The turn of an Executor stays in order if its run does, over the same plans.
LEMMA RanKept ==
    ASSUME NEW P, NEW r, Whole(r), NEW i \in DOMAIN P, NEW s \in DOMAIN P[i].stages,
           NEW retry \in SUBSET Kind, r.call = ExecuteStage(i, s, retry),
           NEW at \in {"executor", "submit"}, NEW run,
           at = "executor" => RunKept(P[i], s, run)
    PROVE  TurnKept(P, Ran(r, at, run)) /\ ~Creates(Ran(r, at, run))
  <1> DEFINE new == Ran(r, at, run)
  <1>1. new.at = at /\ new.call = r.call /\ new.run = run
    BY DEF Ran, Fields
  <1>2. r.call.plan = i /\ r.call.stage = s
    BY DEF ExecuteStage
  <1>3. Whole(new)
    BY DEF Whole, Ran, Fields
  <1> HIDE DEF new
  <1>4. ExecutorKept(P, new)
    BY <1>1, <1>2 DEF ExecutorKept
  <1>5. QED
    BY <1>1, <1>3, <1>4 DEF TurnKept, PlaceKept, Creates, new

LEMMA DispatchExecutorKept ==
    ASSUME ChatInv, NEW p \in Process, DispatchExecutor(p)
    PROVE  ChatInv'
  <1> DEFINE r == turn[p]
  <1>1. /\ Whole(r) /\ r.at = "call" /\ CallKept(plans, r.say, r.call)
        /\ r.call.tool = "dispatch_executor"
    BY PerformedCall DEF DispatchExecutor
  <1>2. PICK i \in DOMAIN plans : \E s \in DOMAIN plans[i].stages, retry \in SUBSET Kind :
                    r.call = ExecuteStage(i, s, retry)
    BY <1>1, CallFields
  <1>3. PICK s \in DOMAIN plans[i].stages, retry \in SUBSET Kind : r.call = ExecuteStage(i, s, retry)
    BY <1>2
  <1>4. r.call.plan = i /\ r.call.stage = s /\ r.call.retry = retry
    BY <1>3 DEF ExecuteStage
  <1>5. /\ UNCHANGED <<plans, workspace, sent, faults>> /\ PlansKept /\ RestKept' /\ TurnsKept
        /\ RowKept(plans[i])
    BY RestSame DEF DispatchExecutor, ChatInv, PlansKept
  <1> DEFINE d == plans[i]
             stage == d.stages[s]
             run == [items |-> Items(stage),
                     todo  |-> {n \in DOMAIN Items(stage) :
                                   retry = {} \/ Items(stage)[n] \in retry},
                     refs  |-> Upstream(i, stage) \cup stage.refs,
                     made  |-> {}]
  <1>6. CASE Fails(p)
    BY <1>1, <1>5, <1>6, FailsKept
  <1>7. CASE turn' = [turn EXCEPT ![p].at = "executor", ![p].run = run]
    <2>1. Turned(p, Ran(r, "executor", run))
      BY <1>1, <1>5, <1>7, RanTurned
    <2>2. stage \in ChatStage /\ StageBuilt(d, s) /\ DOMAIN d.stages = 1 .. Len(d.stages)
          /\ \A t \in DOMAIN d.stages : d.stages[t] \in ChatStage
      BY <1>5, RowStages
    <2>3. stage.refs \subseteq Ref /\ stage.contract \in Contract
      BY <2>2 DEF ChatStage
    <2>4. Upstream(i, stage) \subseteq Ref /\ (Upstream(i, stage) # {} => Grounded(d, s))
      <3>1. CASE stage.contract.input = 0
        BY <3>1 DEF Upstream
      <3>2. CASE stage.contract.input # 0
        <4>1. stage.contract.input \in DOMAIN d.stages
          BY <1>5, <3>2, InputIsEarlier
        <4>2. Upstream(i, stage) = d.stages[stage.contract.input].refs
          BY <3>2 DEF Upstream
        <4>3. QED
          BY <2>2, <4>1, <4>2 DEF ChatStage, Grounded
      <3>3. QED
        BY <3>1, <3>2
    <2>5. RunKept(d, s, run)
      <3> DEFINE up == Upstream(i, stage)
      <3>1. CASE up = {}
        <4>1. run.refs = stage.refs
          BY <3>1
        <4>2. KindsOf(run.refs) \subseteq ItemKinds(stage)
          BY <2>2, <4>1 DEF StageBuilt
        <4>3. KindsOf(run.made) = {}
          BY DEF KindsOf
        <4>4. QED
          BY <2>3, <4>1, <4>2, <4>3 DEF RunKept
      <3>2. CASE up # {}
        <4>1. Grounded(d, s) /\ run.refs \subseteq Ref
          BY <2>3, <2>4, <3>2
        <4>2. KindsOf(run.made) = {}
          BY DEF KindsOf
        <4>3. QED
          BY <4>1, <4>2 DEF RunKept
      <3>3. QED
        BY <3>1, <3>2
    <2> HIDE DEF run
    <2>6. TurnKept(plans', Ran(r, "executor", run)) /\ ~Creates(Ran(r, "executor", run))
      BY <1>1, <1>3, <1>5, <2>5, RanKept
    <2>7. PlansGrow /\ Len(plans') = Len(plans)
      BY <1>5, SamePlansGrow
    <2>8. QED
      BY <1>5, <2>1, <2>6, <2>7, StepKept
  <1>8. QED
    <2>1. Stage(p) = stage
      BY <1>4 DEF Stage
    <2>2. QED
      BY <1>4, <1>6, <1>7, <2>1 DEF DispatchExecutor

\* The Executor goes on to another run, and the plans stay.
LEMMA ExecutorRunKept ==
    ASSUME ChatInv, NEW p \in Process, turn[p].at = "executor", NEW run,
           turn' = [turn EXCEPT ![p] = [turn[p] EXCEPT !.run = run]],
           RunKept(plans[turn[p].call.plan], turn[p].call.stage, run),
           UNCHANGED plans, RestKept'
    PROVE  ChatInv'
  <1> DEFINE r == turn[p]
  <1>1. Whole(r) /\ ExecutorKept(plans, r)
    BY ExecutorTurn
  <1>2. PICK i \in DOMAIN plans : \E s \in DOMAIN plans[i].stages, retry \in SUBSET Kind :
           r.call = ExecuteStage(i, s, retry)
    BY <1>1 DEF ExecutorKept
  <1>3. PICK s \in DOMAIN plans[i].stages, retry \in SUBSET Kind : r.call = ExecuteStage(i, s, retry)
    BY <1>2
  <1>4. r.call.plan = i /\ r.call.stage = s
    BY <1>3 DEF ExecuteStage
  <1>5. RunKept(plans'[i], s, run)
    BY <1>4
  <1>6. Turned(p, Ran(r, "executor", run))
    BY <1>1, SameRunTurned DEF ChatInv
  <1>7. TurnKept(plans', Ran(r, "executor", run)) /\ ~Creates(Ran(r, "executor", run))
    BY <1>1, <1>3, <1>5, RanKept
  <1>8. PlansGrow /\ Len(plans') = Len(plans)
    BY SamePlansGrow DEF ChatInv
  <1>9. QED
    BY <1>6, <1>7, <1>8, StepKept

\* What is made of an item is made from the stage's input, or from nothing by a
\* stage that has none.
LEMMA MakesGrounded ==
    ASSUME NEW d, RowKept(d), NEW s \in DOMAIN d.stages, NEW run, RunKept(d, s, run),
           NEW kind \in ItemKinds(d.stages[s]), kind = "brief" \/ Known(run, kind) # {}
    PROVE  Grounded(d, s)
  <1> DEFINE stage == d.stages[s]
  <1>1. stage \in ChatStage /\ StageBuilt(d, s)
    BY RowStages
  <1>2. stage.contract \in Contract
    BY <1>1 DEF ChatStage
  <1>3. CASE stage.contract.spec = 1
    BY <1>1, <1>3 DEF StageBuilt, Grounded
  <1>4. CASE stage.contract.spec \in {2, 3}
    <2>1. \/ ItemKinds(stage) = {"draft"} /\ kind = "draft" /\ MadeFrom[kind] = "outline"
          \/ ItemKinds(stage) = {"render"} /\ kind = "render" /\ MadeFrom[kind] = "draft"
      BY <1>2, <1>4, SpecItems DEF MadeFrom
    <2>2. PICK ref \in run.refs \cup run.made : ref.kind = MadeFrom[kind]
      BY <2>1 DEF Known
    <2>3. ref.kind \notin ItemKinds(stage)
      BY <2>1, <2>2
    <2>4. ref \notin run.made /\ ~(KindsOf(run.refs) \subseteq ItemKinds(stage))
      BY <2>2, <2>3 DEF RunKept, KindsOf
    <2>5. QED
      BY <2>4 DEF RunKept
  <1>5. QED
    BY <1>2, <1>3, <1>4, SpecItems

\* A record with the fields of an Executor's run.
Work(items, todo, refs, made) == [items |-> items, todo |-> todo, refs |-> refs, made |-> made]

\* Writing the fields of a run.
LEMMA WorkWritten ==
    ASSUME NEW items, NEW todo, NEW refs, NEW made, NEW x
    PROVE  /\ [Work(items, todo, refs, made) EXCEPT !.todo = x] = Work(items, x, refs, made)
           /\ [Work(items, todo, refs, made) EXCEPT !.made = x] = Work(items, todo, refs, x)
  <1>1. [Work(items, todo, refs, made) EXCEPT !.todo = x] = Work(items, x, refs, made)
    BY DEF Work
  <1>2. [Work(items, todo, refs, made) EXCEPT !.made = x] = Work(items, todo, refs, x)
    BY DEF Work
  <1>3. QED
    BY <1>1, <1>2

\* Writing the run of a turn.
LEMMA RunWritten ==
    ASSUME TurnsKept, NEW p \in Process, NEW x, turn' = [turn EXCEPT ![p].run = x]
    PROVE  turn' = [turn EXCEPT ![p] = [turn[p] EXCEPT !.run = x]]
  BY DEF TurnsKept

LEMMA ExecutorMakesKept ==
    ASSUME ChatInv, NEW p \in Process, ExecutorMakes(p)
    PROVE  ChatInv'
  <1> DEFINE r == turn[p]
             run == r.run
             d == plans[r.call.plan]
             s == r.call.stage
  <1>1. /\ r.at = "executor" /\ UNCHANGED <<plans, sent, faults>>
        /\ Whole(r) /\ RowKept(d) /\ s \in DOMAIN d.stages /\ RunKept(d, s, run)
    BY ExecutorTurn DEF ExecutorMakes
  <1>2. PICK n \in run.todo :
           /\ run.items[n] = "brief" \/ \E ref \in Known(run, run.items[n]) : Found(p, ref)
           /\ workspace' = Made(p, run.items[n])
           /\ turn' = [turn EXCEPT ![p].run = [run EXCEPT
                 !.todo = @ \ {n},
                 !.made = @ \cup {[kind |-> run.items[n], n |-> workspace[p][run.items[n]] + 1]}]]
    BY DEF ExecutorMakes
  <1> DEFINE kind == run.items[n]
             ref == [kind |-> kind, n |-> workspace[p][kind] + 1]
             next == Work(run.items, run.todo \ {n}, run.refs, run.made \cup {ref})
  <1>3. kind \in ItemKinds(d.stages[s]) /\ n \in DOMAIN run.items
    BY <1>1 DEF RunKept, ItemKinds
  <1>4. d.stages[s].contract \in Contract
    BY <1>1, RowStages DEF ChatStage
  <1>5. kind \in Kind
    BY <1>3, <1>4, SpecItems
  <1>6. Grounded(d, s)
    BY <1>1, <1>2, <1>3, MakesGrounded
  <1>7. ref \in Ref /\ RestKept'
    <2>1. workspace[p][kind] \in Nat
      BY <1>5 DEF ChatInv, RestKept
    <2>2. QED
      BY <1>1, <1>2, <1>5, <2>1, RestMade DEF Ref
  <1>8. turn' = [turn EXCEPT ![p] = [r EXCEPT !.run = next]]
    <2> DEFINE todo == run.todo \ {n}
               made == run.made \cup {ref}
               x == [run EXCEPT !.todo = todo, !.made = made]
    <2>1. turn' = [turn EXCEPT ![p].run = x]
      BY <1>2
    <2>2. x = Work(run.items, todo, run.refs, made)
      <3>1. run = Work(run.items, run.todo, run.refs, run.made)
        BY <1>1 DEF RunKept, Work
      <3> HIDE DEF todo, made
      <3>2. [run EXCEPT !.todo = todo] = Work(run.items, todo, run.refs, run.made)
        BY <3>1, WorkWritten
      <3>3. [Work(run.items, todo, run.refs, run.made) EXCEPT !.made = made] =
               Work(run.items, todo, run.refs, made)
        BY DEF Work
      <3>4. x = [[run EXCEPT !.todo = todo] EXCEPT !.made = made]
        OBVIOUS
      <3>5. QED
        BY <3>2, <3>3, <3>4
    <2> HIDE DEF x
    <2>3. turn' = [turn EXCEPT ![p] = [r EXCEPT !.run = x]]
      BY <2>1, RunWritten DEF ChatInv
    <2>4. QED
      BY <2>2, <2>3
  <1>9. RunKept(d, s, next)
    <2>1. ref.kind = kind
      OBVIOUS
    <2> HIDE DEF ref, kind
    <2>2. KindsOf(run.made) \subseteq ItemKinds(d.stages[s])
      BY <1>1 DEF RunKept
    <2>3. KindsOf(run.made \cup {ref}) \subseteq ItemKinds(d.stages[s])
      BY <2>1, <2>2, <1>3 DEF KindsOf
    <2>4. QED
      BY <1>1, <1>6, <1>7, <2>3 DEF RunKept, Work
  <1> HIDE DEF next
  <1>10. QED
    BY <1>1, <1>7, <1>8, <1>9, ExecutorRunKept

\* An item that is left out is no longer to do.
LEMMA LeavesOutKept ==
    ASSUME ChatInv, NEW p \in Process, turn[p].at = "executor", NEW n, LeavesOut(p, n),
           UNCHANGED plans, RestKept'
    PROVE  ChatInv'
  <1> DEFINE r == turn[p]
             run == r.run
             d == plans[r.call.plan]
             s == r.call.stage
             next == Work(run.items, run.todo \ {n}, run.refs, run.made)
  <1>1. Whole(r) /\ RowKept(d) /\ s \in DOMAIN d.stages /\ RunKept(d, s, run)
    BY ExecutorTurn
  <1>2. turn' = [turn EXCEPT ![p] = [r EXCEPT !.run = next]]
    <2> DEFINE todo == run.todo \ {n}
               x == [run EXCEPT !.todo = todo]
    <2>1. turn' = [turn EXCEPT ![p].run = x]
      BY DEF LeavesOut, ChatInv, TurnsKept
    <2>2. x = next
      <3>1. run = Work(run.items, run.todo, run.refs, run.made)
        BY <1>1 DEF RunKept, Work
      <3> HIDE DEF todo
      <3>2. [run EXCEPT !.todo = todo] = Work(run.items, todo, run.refs, run.made)
        BY <3>1, WorkWritten
      <3>3. QED
        BY <3>2 DEF todo
    <2> HIDE DEF x, next
    <2>3. turn' = [turn EXCEPT ![p] = [r EXCEPT !.run = x]]
      BY <2>1, RunWritten DEF ChatInv
    <2>4. QED
      BY <2>2, <2>3
  <1>3. RunKept(d, s, next)
    BY <1>1 DEF RunKept, Work
  <1> HIDE DEF next
  <1>4. QED
    BY <1>2, <1>3, ExecutorRunKept

LEMMA ExecutorAttachesKept ==
    ASSUME ChatInv, NEW p \in Process, ExecutorAttaches(p)
    PROVE  ChatInv'
  <1> DEFINE r == turn[p]
  <1>1. /\ r.at = "executor" /\ UNCHANGED <<workspace, sent, faults>>
        /\ turn' = [turn EXCEPT ![p].at = "submit"]
        /\ PlansKept /\ TurnsKept /\ RestKept'
    BY RestSame DEF ExecutorAttaches, ChatInv
  <1>2. Whole(r) /\ ExecutorKept(plans, r)
    BY <1>1, ExecutorTurn
  <1>3. PICK i \in DOMAIN plans : \E s \in DOMAIN plans[i].stages, retry \in SUBSET Kind :
           r.call = ExecuteStage(i, s, retry)
    BY <1>2 DEF ExecutorKept
  <1>4. PICK s \in DOMAIN plans[i].stages, retry \in SUBSET Kind : r.call = ExecuteStage(i, s, retry)
    BY <1>3
  <1>5. r.call.plan = i /\ r.call.stage = s
    BY <1>4 DEF ExecuteStage
  <1>6. RunKept(plans[i], s, r.run) /\ RowKept(plans[i])
    BY <1>1, <1>5, ExecutorTurn
  <1>7. PlansGrow /\ Len(plans') = Len(plans)
    <2>1. CASE UNCHANGED plans
      BY <1>1, <2>1, SamePlansGrow
    <2>2. CASE /\ r.run.made # {} /\ First!CanAttach(plans[i], s)
               /\ Writes(i, First!Attached(plans[i], s, r.run.made))
      <3>1. plans[i].stages[s].state = "doing"
        BY <2>2 DEF First!CanAttach
      <3>2. /\ r.run.made \in SUBSET Ref /\ Grounded(plans[i], s)
            /\ KindsOf(r.run.made) \subseteq ItemKinds(plans[i].stages[s])
        BY <1>6, <2>2 DEF RunKept
      <3>3. Advances(plans[i], First!Attached(plans[i], s, r.run.made))
        BY <1>6, <3>1, <3>2, AttachedAdvances
      <3>4. QED
        BY <1>1, <2>2, <3>3, WritesGrow
    <2>3. QED
      BY <1>5, <2>1, <2>2 DEF ExecutorAttaches
  <1>8. Turned(p, Ran(r, "submit", r.run))
    <2>1. turn' = [turn EXCEPT ![p] = [r EXCEPT !.at = "submit"]]
      BY <1>1 DEF TurnsKept
    <2>2. [r EXCEPT !.at = "submit"] = Fields("submit", r.say, r.call, r.out, r.run, r.tries)
      BY <1>2, FieldWritten DEF Whole
    <2>3. QED
      BY <2>1, <2>2 DEF Turned, Ran
  <1>9. i \in DOMAIN plans' /\ s \in DOMAIN plans'[i].stages
    BY <1>7 DEF PlansGrow, LaterPlans, Later
  <1>10. TurnKept(plans', Ran(r, "submit", r.run)) /\ ~Creates(Ran(r, "submit", r.run))
    BY <1>2, <1>4, <1>9, RanKept
  <1>11. QED
    BY <1>1, <1>7, <1>8, <1>10, StepKept

LEMMA ExecutorSubmitsKept ==
    ASSUME ChatInv, NEW p \in Process, ExecutorSubmits(p)
    PROVE  ChatInv'
  <1> DEFINE r == turn[p]
             i == r.call.plan
             s == r.call.stage
             pending == PendingItems(plans[i].stages[s])
             out == [tool |-> "dispatch_executor", plan |-> i, stage |-> s, pending |-> pending]
             tries == IF r.tries < 2 THEN r.tries + 1 ELSE r.tries
             new == Fields("next", r.say, Idle, out, Idle, tries)
  <1>1. /\ r.at = "submit" /\ UNCHANGED <<plans, workspace, sent, faults>>
        /\ PlansKept /\ TurnsKept /\ RestKept'
    BY RestSame DEF ExecutorSubmits, ChatInv
  <1>2. Whole(r) /\ i \in DOMAIN plans /\ RowKept(plans[i]) /\ s \in DOMAIN plans[i].stages
    BY <1>1, ExecutorTurn
  <1>3. OutKept(plans', r.say, out) /\ out.tool # "dispatch_router"
    <2>1. plans[i].stages[s].contract \in Contract
      BY <1>2, RowStages DEF ChatStage
    <2>2. pending = ItemKinds(plans[i].stages[s]) \ KindsOf(plans[i].stages[s].refs)
      BY DEF PendingItems, ItemKinds, KindsOf
    <2>3. pending \in SUBSET Kind /\ (pending = {} => AllMade(plans[i], s))
      BY <2>1, <2>2, SpecItems DEF AllMade
    <2> HIDE DEF pending
    <2>4. QED
      BY <1>1, <1>2, <2>3 DEF OutKept
  <1>4. tries \in 0 .. 2
    BY <1>2 DEF Whole
  <1>5. Turned(p, new)
    <2> DEFINE x == [r EXCEPT !.at = "next", !.call = Idle, !.run = Idle, !.tries = tries, !.out = out]
    <2>1. Stage(p) = plans[i].stages[s]
      BY DEF Stage
    <2>2. turn' = [turn EXCEPT ![p].at = "next", ![p].call = Idle, ![p].run = Idle,
                              ![p].tries = tries, ![p].out = out]
      BY <1>1, <2>1 DEF ExecutorSubmits, TurnsKept
    <2> HIDE DEF out, tries
    <2>3. turn' = [turn EXCEPT ![p] = x]
      BY <1>1, <2>2 DEF TurnsKept
    <2>4. x = new
      <3>1. [r EXCEPT !.at = "next"] = Fields("next", r.say, r.call, r.out, r.run, r.tries)
        BY <1>2, FieldWritten DEF Whole
      <3>2. [Fields("next", r.say, r.call, r.out, r.run, r.tries) EXCEPT !.call = Idle] =
               Fields("next", r.say, Idle, r.out, r.run, r.tries)
        BY DEF Fields
      <3>3. [Fields("next", r.say, Idle, r.out, r.run, r.tries) EXCEPT !.run = Idle] =
               Fields("next", r.say, Idle, r.out, Idle, r.tries)
        BY DEF Fields
      <3>4. [Fields("next", r.say, Idle, r.out, Idle, r.tries) EXCEPT !.tries = tries] =
               Fields("next", r.say, Idle, r.out, Idle, tries)
        BY DEF Fields
      <3>5. [Fields("next", r.say, Idle, r.out, Idle, tries) EXCEPT !.out = out] =
               Fields("next", r.say, Idle, out, Idle, tries)
        BY DEF Fields
      <3> DEFINE f1 == [r EXCEPT !.at = "next"]
                 f2 == [f1 EXCEPT !.call = Idle]
                 f3 == [f2 EXCEPT !.run = Idle]
                 f4 == [f3 EXCEPT !.tries = tries]
      <3>6. x = [f4 EXCEPT !.out = out]
        OBVIOUS
      <3>7. f2 = Fields("next", r.say, Idle, r.out, r.run, r.tries)
        BY <3>1, <3>2
      <3> HIDE DEF f2
      <3>8. f3 = Fields("next", r.say, Idle, r.out, Idle, r.tries)
        BY <3>3, <3>7
      <3> HIDE DEF f3
      <3>9. f4 = Fields("next", r.say, Idle, r.out, Idle, tries)
        BY <3>4, <3>8
      <3> HIDE DEF f4
      <3>10. QED
        BY <3>5, <3>6, <3>9
    <2>5. QED
      BY <2>3, <2>4 DEF Turned
  <1> HIDE DEF out, tries
  <1>6. TurnKept(plans', new)
    BY <1>2, <1>3, <1>4 DEF TurnKept, PlaceKept, Whole, Fields
  <1>7. ~Creates(new)
    BY <1>3 DEF Creates, Fields
  <1>8. PlansGrow /\ Len(plans') = Len(plans)
    BY <1>1, SamePlansGrow
  <1>9. QED
    BY <1>1, <1>5, <1>6, <1>7, <1>8, StepKept

LEMMA PlannerSubmitsKept ==
    ASSUME ChatInv, NEW p \in Process, PlannerSubmits(p)
    PROVE  ChatInv'
  BY RestSame, PlannerEndsKept DEF PlannerSubmits

LEMMA ExecutorMissesKept ==
    ASSUME ChatInv, NEW p \in Process, ExecutorMisses(p)
    PROVE  ChatInv'
  <1>1. turn[p].at = "executor" /\ UNCHANGED <<plans, workspace, sent, faults>>
    BY DEF ExecutorMisses
  <1>2. PICK n : LeavesOut(p, n)
    BY DEF ExecutorMisses
  <1>3. QED
    BY <1>1, <1>2, RestSame, LeavesOutKept

-----------------------------------------------------------------------------
(* The user and the faults keep the invariant.                              *)

LEMMA RestFaulted ==
    ASSUME ChatInv, Fault, UNCHANGED sent,
           workspace' = workspace
           \/ \E p \in Process : workspace' = [workspace EXCEPT ![p] = [k \in Kind |-> 0]]
    PROVE  RestKept'
  <1>1. workspace \in [Process -> [Kind -> Nat]] /\ [k \in Kind |-> 0] \in [Kind -> Nat]
    BY DEF ChatInv, RestKept
  <1>2. workspace' \in [Process -> [Kind -> Nat]]
    BY <1>1
  <1>3. faults' \in 0 .. MaxFaults
    BY DEF ChatInv, RestKept, Fault
  <1>4. QED
    BY <1>2, <1>3 DEF ChatInv, RestKept

\* A turn that will create a plan answers a staged request.
LEMMA CreatesStaged ==
    ASSUME NEW P, NEW r, TurnKept(P, r), Creates(r)
    PROVE  Staged(r.say) /\ r.at # "idle"
  <1>1. Whole(r) /\ PlaceKept(P, r)
    BY DEF TurnKept, Creates
  <1>2. CASE r.at = "next" /\ r.out.tool = "dispatch_router" /\ r.out.route = "workflow"
    <2>1. OutKept(P, r.say, r.out)
      BY <1>1, <1>2 DEF PlaceKept
    <2>2. QED
      BY <1>2, <2>1, OutFields
  <1>3. CASE r.at = "call" /\ r.call.tool = "plan_create"
    <2>1. CallKept(P, r.say, r.call)
      BY <1>1, <1>3 DEF PlaceKept
    <2>2. QED
      BY <1>3, <2>1, CallFields
  <1>4. CASE r.at = "insert"
    BY <1>1, <1>4 DEF PlaceKept, InsertKept
  <1>5. QED
    BY <1>2, <1>3, <1>4 DEF Creates

\* A turn is started only with room for the plan it may create.
LEMMA SendKept ==
    ASSUME ChatInv, NEW p \in Process, NEW m \in Message, Send(p, m),
           UNCHANGED faults \/ Fault
    PROVE  ChatInv'
  <1> DEFINE new == Turn(m)
             S == {q \in Running : Staged(turn[q].say)}
  <1>1. /\ turn[p] = Idle /\ sent < MaxTurns /\ sent' = sent + 1
        /\ Turned(p, new) /\ UNCHANGED <<plans, workspace>>
        /\ Staged(m) => Latest + Cardinality(S) < MaxPlans
    BY DEF Send, Turned
  <1>2. PlansKept /\ TurnsKept /\ RoomKept /\ RestKept
    BY DEF ChatInv
  <1>3. new = Fields("open", m, Idle, Idle, Idle, 0)
    BY DEF Turn, Fields
  <1> HIDE DEF new, S
  <1>4. /\ new.at = "open" /\ new.say = m /\ new.call = Idle /\ new.out = Idle /\ new.run = Idle
        /\ new.tries = 0
    BY <1>3 DEF Fields
  <1>5. TurnKept(plans', new)
    <2>1. Whole(new)
      BY <1>3, <1>4 DEF Whole
    <2>2. QED
      BY <1>4, <2>1 DEF TurnKept, PlaceKept
  <1>6. PlansGrow /\ Len(plans') = Len(plans)
    BY <1>1, <1>2, SamePlansGrow
  <1>7. TurnsKept'
    BY <1>1, <1>2, <1>5, <1>6, TurnedKept
  <1>8. RestKept'
    BY <1>1, <1>2 DEF RestKept, Fault
  <1>9. RoomKept'
    <2>1. Creating \subseteq S
      BY <1>2, CreatesStaged DEF Creating, S, Running, TurnsKept
    <2>2. CASE ~Staged(m)
      <3>1. ~Creates(new)
        BY <1>4, <2>2 DEF Creates
      <3>2. Len(plans) \in Nat
        BY <1>2 DEF PlansKept
      <3>3. QED
        BY <1>1, <1>2, <1>6, <3>1, <3>2, RoomSame
    <2>3. CASE Staged(m)
      <3>1. Creating' \subseteq S \cup {p}
        <4>1. \A q \in Process \ {p} : turn'[q] = turn[q]
          BY <1>1, <1>2 DEF Turned, TurnsKept
        <4>2. QED
          BY <2>1, <4>1 DEF Creating
      <3>2. IsFiniteSet(S)
        <4>1. S \subseteq Process
          BY DEF S, Running
        <4>2. QED
          BY <4>1, FS_Subset
      <3>3. /\ IsFiniteSet(S \cup {p}) /\ Cardinality(S) \in Nat
            /\ Cardinality(S \cup {p}) <= Cardinality(S) + 1
            /\ Cardinality(S \cup {p}) \in Nat
        <4>1. IsFiniteSet(S \cup {p}) /\ Cardinality(S) \in Nat
          BY <3>2, FS_AddElement, FS_CardinalityType
        <4>2. Cardinality(S \cup {p}) \in Nat
          BY <4>1, FS_CardinalityType
        <4>3. Cardinality(S \cup {p}) = IF p \in S THEN Cardinality(S) ELSE Cardinality(S) + 1
          BY <3>2, FS_AddElement
        <4>4. QED
          BY <4>1, <4>2, <4>3
      <3>4. /\ Cardinality(Creating') <= Cardinality(S \cup {p}) /\ Cardinality(Creating') \in Nat
        BY <3>1, <3>3, FS_Subset, FS_CardinalityType
      <3>5. Len(plans) + Cardinality(S) < MaxPlans /\ Len(plans) \in Nat /\ MaxPlans \in Nat
        BY <1>1, <1>2, <2>3 DEF Latest, PlansKept
      <3>6. Len(plans) + Cardinality(Creating') <= MaxPlans
        BY <3>3, <3>4, <3>5
      <3>7. QED
        BY <1>6, <3>6 DEF RoomKept
    <2>4. QED
      BY <2>2, <2>3
  <1>10. QED
    BY <1>6, <1>7, <1>8, <1>9 DEF ChatInv, PlansGrow

LEMMA FaultsKept ==
    ASSUME ChatInv, NEW p \in Process, Crash(p) \/ TurnFails(p) \/ SubAgentFails(p) \/ ToolFails(p)
    PROVE  ChatInv'
  <1>1. /\ Fault /\ UNCHANGED <<plans, sent>>
        /\ workspace' = workspace \/ workspace' = [workspace EXCEPT ![p] = [k \in Kind |-> 0]]
    BY DEF Crash, TurnFails, SubAgentFails, ToolFails
  <1>2. RestKept'
    BY <1>1, RestFaulted
  <1>3. CASE Crash(p) \/ TurnFails(p)
    BY <1>1, <1>2, <1>3, RepliesKept DEF Crash, TurnFails
  <1>4. CASE SubAgentFails(p)
    BY <1>1, <1>2, <1>4, FailsKept DEF SubAgentFails
  <1>5. CASE ToolFails(p)
    <2>1. PICK n : turn[p].at = "executor" /\ LeavesOut(p, n)
      BY <1>5 DEF ToolFails
    <2>2. QED
      BY <1>1, <1>2, <2>1, LeavesOutKept
  <1>6. QED
    BY <1>3, <1>4, <1>5

LEMMA PlannerStopsKept ==
    ASSUME ChatInv, NEW p \in Process, PlannerStops(p), Fault
    PROVE  ChatInv'
  BY RestFaulted, PlannerEndsKept DEF PlannerStops

-----------------------------------------------------------------------------
(* The theorems.                                                            *)

LEMMA InitKept ==
    ASSUME PipelineInit
    PROVE  ChatInv
  <1>1. PlansKept
    BY DEF PipelineInit, PlansKept
  <1>2. TurnsKept
    BY DEF PipelineInit, TurnsKept, TurnKept
  <1>3. Creating = {}
    BY DEF PipelineInit, Creating, Creates
  <1>4. Cardinality(Creating) = 0 /\ Len(plans) = 0
    BY <1>3, FS_EmptySet DEF PipelineInit
  <1>5. RoomKept /\ RestKept
    BY <1>4 DEF PipelineInit, RoomKept, RestKept
  <1>6. QED
    BY <1>1, <1>2, <1>5 DEF ChatInv

LEMMA NextKept ==
    ASSUME ChatInv, [PipelineNext]_pipelineVars
    PROVE  ChatInv'
  <1>1. CASE UNCHANGED pipelineVars
    <2>1. UNCHANGED <<plans, turn, workspace, sent, faults>>
      BY <1>1 DEF pipelineVars
    <2>2. QED
      BY <2>1 DEF ChatInv, PlansKept, TurnsKept, RoomKept, Creating, RestKept
  <1>2. ASSUME NEW p \in Process, Step(p) PROVE ChatInv'
    <2>1. CASE OpenTurn(p)
      BY <2>1, OpenTurnKept
    <2>2. CASE Decide(p)
      BY <2>2, DecideKept
    <2>3. CASE AfterRouterOrContent(p)
      BY <2>3, AfterRouterOrContentKept
    <2>4. CASE AfterState(p)
      BY <2>4, AfterStateKept
    <2>5. CASE CountPlans(p)
      BY <2>5, CountPlansKept
    <2>6. CASE InsertPlan(p)
      BY <2>6, InsertPlanKept
    <2>7. CASE PlanUpdateStageState(p)
      BY <2>7, PlanUpdateStageStateKept
    <2>8. CASE DispatchPlanner(p)
      BY <2>8, DispatchPlannerKept
    <2>9. CASE PlannerAsks(p)
      BY <2>9, PlannerAsksKept
    <2>10. CASE PlannerWrites(p)
      BY <2>10, PlannerWritesKept
    <2>11. CASE PlannerSubmits(p)
      BY <2>11, PlannerSubmitsKept
    <2>12. CASE DispatchExecutor(p)
      BY <2>12, DispatchExecutorKept
    <2>13. CASE ExecutorMakes(p)
      BY <2>13, ExecutorMakesKept
    <2>14. CASE ExecutorMisses(p)
      BY <2>14, ExecutorMissesKept
    <2>15. CASE ExecutorAttaches(p)
      BY <2>15, ExecutorAttachesKept
    <2>16. CASE ExecutorSubmits(p)
      BY <2>16, ExecutorSubmitsKept
    <2>17. QED
      BY <1>2, <2>1, <2>2, <2>3, <2>4, <2>5, <2>6, <2>7, <2>8, <2>9, <2>10, <2>11, <2>12,
         <2>13, <2>14, <2>15, <2>16 DEF Step
  <1>3. ASSUME NEW p \in Process, NEW m \in Message, UserSends(p, m) \/ LeaseLapses(p, m)
        PROVE  ChatInv'
    BY <1>3, SendKept DEF UserSends, LeaseLapses
  <1>4. ASSUME NEW p \in Process,
               \/ PlannerStops(p) /\ Fault
               \/ Crash(p) \/ TurnFails(p) \/ SubAgentFails(p) \/ ToolFails(p)
        PROVE  ChatInv'
    BY <1>4, PlannerStopsKept, FaultsKept
  <1>5. QED
    BY <1>1, <1>2, <1>3, <1>4 DEF PipelineNext

\* Plans only grow, every turn works on a stage that is there, and a stage is
\* built on what its input has made: the inductive invariant.
THEOREM ChatInvHolds == PipelineSpec => []ChatInv
  <1>1. PipelineInit => ChatInv
    BY InitKept
  <1>2. ChatInv /\ [PipelineNext]_pipelineVars => ChatInv'
    BY NextKept
  <1>3. QED
    BY <1>1, <1>2, PTL DEF PipelineSpec

\* The invariant gives the types; in particular there are never more plans than
\* there was room for.
LEMMA ChatInvTypes ==
    ASSUME ChatInv
    PROVE  PipelineTypeOK
  <1>1. PlansKept /\ RoomKept /\ RestKept
    BY DEF ChatInv
  <1>2. Len(plans) \in 0 .. MaxPlans
    <2>1. Len(plans) \in Nat
      BY <1>1 DEF PlansKept
    <2>2. Cardinality(Creating) \in Nat
      <3>1. Creating \subseteq Process
        BY DEF Creating
      <3>2. QED
        BY <3>1, FS_Subset, FS_CardinalityType
    <2>3. QED
      BY <1>1, <2>1, <2>2 DEF RoomKept
  <1>3. ASSUME NEW i \in DOMAIN plans
        PROVE  plans[i].open_questions \subseteq {"audience"}
    BY <1>1, RowStages DEF PlansKept
  <1>4. ASSUME NEW i \in DOMAIN plans, NEW s \in DOMAIN plans[i].stages
        PROVE  /\ plans[i].stages[s].state \in First!StageState
               /\ plans[i].stages[s].contract \in Contract
               /\ plans[i].stages[s].contract.input < s
               /\ plans[i].stages[s].refs \subseteq Ref
    <2>1. plans[i].stages[s] \in ChatStage /\ StageBuilt(plans[i], s)
      BY <1>1, RowStages DEF PlansKept
    <2>2. QED
      BY <2>1 DEF ChatStage, StageBuilt
  <1>5. QED
    BY <1>1, <1>2, <1>3, <1>4 DEF PipelineTypeOK, RestKept

\* The variables of the chat have their types.
THEOREM PipelineTypeCorrect == PipelineSpec => []PipelineTypeOK
  BY ChatInvTypes, ChatInvHolds, PTL

\* However many turns overlap, crash and are retried, a stage is done only with
\* every item made, on top of a stage that has made something.
THEOREM DoneHolds == PipelineSpec => []DoneMeansBuilt
  <1>1. ASSUME ChatInv PROVE DoneMeansBuilt
    <2> SUFFICES ASSUME NEW i \in DOMAIN plans, NEW s \in DOMAIN plans[i].stages,
                        plans[i].stages[s].state = "done"
                 PROVE  /\ \A n \in DOMAIN Items(plans[i].stages[s]) :
                              \E ref \in plans[i].stages[s].refs :
                                 ref.kind = Items(plans[i].stages[s])[n]
                        /\ plans[i].stages[s].contract.input # 0 =>
                              plans[i].stages[plans[i].stages[s].contract.input].refs # {}
      BY DEF DoneMeansBuilt
    <2> DEFINE d == plans[i]
               stage == d.stages[s]
    <2>1. RowKept(d)
      BY <1>1 DEF ChatInv, PlansKept
    <2>2. StageBuilt(d, s) /\ stage \in ChatStage
      BY <2>1, RowStages
    <2>3. AllMade(d, s)
      BY <2>2 DEF StageBuilt
    <2>4. \A n \in DOMAIN Items(stage) : \E ref \in stage.refs : ref.kind = Items(stage)[n]
      BY <2>3 DEF AllMade, ItemKinds, KindsOf
    <2>5. DOMAIN Items(stage) # {}
      <3>1. stage.contract \in Contract
        BY <2>2 DEF ChatStage
      <3>2. stage.contract.spec \in 1 .. 3
        BY <3>1, SpecItems
      <3>3. QED
        BY <3>2 DEF Items, STAGE_SPECS
    <2>6. Grounded(d, s)
      BY <2>2, <2>4, <2>5 DEF StageBuilt
    <2>7. QED
      BY <2>4, <2>6 DEF Grounded
  <1>2. QED
    BY <1>1, ChatInvHolds, PTL

-----------------------------------------------------------------------------
(* A chat in which nothing has failed yet: where the latest plan stands     *)
(* while a turn runs, by what the turn does next.  P are the plans, and seen *)
(* the stages that were shown.                                              *)

\* The latest of the plans P.
LatestOf(P) == P[Len(P)]

\* Of the stages of row d, number i of the chat, only those in doing are doing,
\* and those that wait were shown, or are in unseen; questions come before stages.
Quiet(i, d, seen, doing, unseen) ==
    /\ \A s \in DOMAIN d.stages :
          /\ d.stages[s].state = "doing" => s \in doing
          /\ d.stages[s].state = "waiting_user" => <<i, s>> \in seen \/ s \in unseen
    /\ d.open_questions # {} => d.stages = <<>>

\* The row waits for the user, or is finished.
Awaits(d) ==
    \/ d.open_questions # {}
    \/ \E s \in DOMAIN d.stages : d.stages[s].state \in {"waiting_user", "blocked"}
    \/ d.stages # <<>> /\ \A s \in DOMAIN d.stages : d.stages[s].state \in First!TERMINAL

\* No turn has anything of the latest plan in hand.
AtRest(P, seen) ==
    P = <<>> \/ (Quiet(Len(P), LatestOf(P), seen, {}, {}) /\ Awaits(LatestOf(P)))

\* Stage s of the latest plan, number i, is in hand, in this state.
InHand(P, seen, i, s, state) ==
    /\ i = Len(P) /\ s \in DOMAIN LatestOf(P).stages
    /\ LatestOf(P).stages[s].state = state
    /\ Quiet(i, LatestOf(P), seen, IF state = "doing" THEN {s} ELSE {},
             IF state = "waiting_user" THEN {s} ELSE {})

\* A move that is going to be made: it is legal, and the user confirms only what
\* was shown.
MoveReady(P, seen, call) ==
    LET d == LatestOf(P) IN
    /\ call.plan = Len(P) /\ call.stage \in DOMAIN d.stages
    /\ First!CheckTransition(d.stages[call.stage], call.target, call.user_confirmed, call.review_kind)
    /\ Quiet(call.plan, d, seen, {call.stage}, {})
    /\ d.stages[call.stage].state = "doing" => call.target \in {"done", "blocked"}
    /\ call.user_confirmed => <<call.plan, call.stage>> \in seen

CalledCalm(P, seen, call) ==
    \/ call.tool = "plan_create"
    \/ /\ call.tool = "dispatch_planner" /\ call.plan = Len(P)
       /\ LatestOf(P).stages = <<>>
       /\ call.answers \/ LatestOf(P).open_questions = {}
    \/ call.tool = "dispatch_executor" /\ InHand(P, seen, call.plan, call.stage, "doing")
    \/ call.tool = "plan_update_stage_state" /\ MoveReady(P, seen, call)

OutCalm(P, seen, out) ==
    \/ out.tool \in {"dispatch_router", "content"} /\ AtRest(P, seen)
    \/ /\ out.tool = "plan_create" /\ out.plan = Len(P)
       /\ LatestOf(P).stages = <<>> /\ LatestOf(P).open_questions = {}
    \/ /\ out.tool = "dispatch_planner" /\ P # <<>>
       /\ Quiet(Len(P), LatestOf(P), seen, {}, {})
       /\ \E s \in DOMAIN LatestOf(P).stages : LatestOf(P).stages[s].state = "pending"
    \/ /\ out.tool = "plan_update_stage_state" /\ out.state # "pending"
       /\ InHand(P, seen, out.plan, out.stage, out.state)
    \/ out.tool = "dispatch_executor" /\ InHand(P, seen, out.plan, out.stage, "doing")

\* The Planner has asked nothing yet, and has written what the plan holds.
PlannerCalm(P, r) ==
    LET d == LatestOf(P) IN
    /\ r.call.plan = Len(P) /\ d.open_questions = {}
    /\ Len(d.stages) = Len(r.run.written)
    /\ \A s \in DOMAIN d.stages : d.stages[s].state = "pending"
    /\ d.stages # <<>> =>
          IF r.call.answers THEN r.say # "approve" ELSE r.say = "series_for"

Calm(P, seen, r) ==
    \/ r.at = "open" /\ AtRest(P, seen)
    \/ r.at = "call" /\ CalledCalm(P, seen, r.call)
    \/ r.at = "next" /\ OutCalm(P, seen, r.out)
    \/ r.at = "insert" /\ r.call.plan = Len(P) + 1
    \/ r.at = "planner" /\ PlannerCalm(P, r)
    \/ r.at \in {"executor", "submit"} /\ InHand(P, seen, r.call.plan, r.call.stage, "doing")

OneRuns == \A p, q \in Process : turn[p] # Idle /\ turn[q] # Idle => p = q

ApprovedSeen ==
    \A i \in DOMAIN plans : \A s \in DOMAIN plans[i].stages :
        plans[i].stages[s].approved => <<i, s>> \in shown

\* While nothing fails one turn runs at a time, and it knows where the latest
\* plan stands; between turns the plan is at rest.
CalmInv ==
    /\ OneRuns
    /\ \A p \in Process : turn[p] # Idle => Calm(plans, shown, turn[p])
    /\ (\A p \in Process : turn[p] = Idle) => AtRest(plans, shown)
    /\ ApprovedSeen

-----------------------------------------------------------------------------
(* One step of the turn that runs.                                          *)

\* The running turn of p becomes r: it still knows where the plan stands, or
\* leaves it at rest.
LEMMA CalmStep ==
    ASSUME TurnsKept, CalmInv, NEW p \in Process, turn[p] # Idle, NEW r, Turned(p, r),
           ApprovedSeen', r # Idle => Calm(plans', shown', r), r = Idle => AtRest(plans', shown')
    PROVE  CalmInv'
  <1>1. /\ turn'[p] = r /\ \A q \in Process \ {p} : turn'[q] = turn[q]
    BY DEF Turned, TurnsKept
  <1>2. \A q \in Process \ {p} : turn'[q] = Idle
    BY <1>1 DEF CalmInv, OneRuns
  <1>3. QED
    BY <1>1, <1>2 DEF CalmInv, OneRuns

\* The running turn of p.
LEMMA CalmTurn ==
    ASSUME ChatInv, CalmInv, NEW p \in Process, turn[p].at # "idle"
    PROVE  /\ turn[p] # Idle /\ Whole(turn[p]) /\ PlaceKept(plans, turn[p])
           /\ Calm(plans, shown, turn[p])
  <1>1. turn[p] # Idle
    BY DEF Idle
  <1>2. QED
    BY <1>1, RunningTurn DEF ChatInv, CalmInv

LEMMA CalmCalls ==
    ASSUME ChatInv, CalmInv, NEW p \in Process, turn[p].at # "idle", NEW call, Calls(p, call),
           UNCHANGED <<plans, shown>>, CalledCalm(plans, shown, call)
    PROVE  CalmInv'
  <1> DEFINE r == Called(turn[p], call)
  <1>1. turn[p] # Idle /\ Whole(turn[p]) /\ TurnsKept
    BY CalmTurn DEF ChatInv
  <1>2. Turned(p, r)
    BY <1>1, CallsTurned
  <1>3. r.at = "call" /\ r.call = call
    BY DEF Called, Fields
  <1> HIDE DEF r
  <1>4. Calm(plans', shown', r) /\ r # Idle
    BY <1>3 DEF Calm, Idle
  <1>5. ApprovedSeen'
    BY DEF CalmInv, ApprovedSeen
  <1>6. QED
    BY <1>1, <1>2, <1>4, <1>5, CalmStep

LEMMA CalmReturns ==
    ASSUME ChatInv, CalmInv, NEW p \in Process, turn[p].at # "idle", NEW out, Returns(p, out),
           OutCalm(plans', shown', out), ApprovedSeen'
    PROVE  CalmInv'
  <1> DEFINE r == Returned(turn[p], out)
  <1>1. turn[p] # Idle /\ Whole(turn[p]) /\ TurnsKept
    BY CalmTurn DEF ChatInv
  <1>2. Turned(p, r)
    BY <1>1, ReturnsTurned
  <1>3. r.at = "next" /\ r.out = out
    BY DEF Returned, Fields
  <1> HIDE DEF r
  <1>4. Calm(plans', shown', r) /\ r # Idle
    BY <1>3 DEF Calm, Idle
  <1>5. QED
    BY <1>1, <1>2, <1>4, CalmStep

LEMMA CalmReplies ==
    ASSUME ChatInv, CalmInv, NEW p \in Process, turn[p].at # "idle", Replies(p),
           AtRest(plans', shown'), ApprovedSeen'
    PROVE  CalmInv'
  <1>1. turn[p] # Idle /\ TurnsKept
    BY CalmTurn DEF ChatInv
  <1>2. QED
    BY <1>1, RepliesTurned, CalmStep

\* The sub-agent of p runs on.
LEMMA CalmRuns ==
    ASSUME ChatInv, CalmInv, NEW p \in Process, turn[p].at # "idle", NEW at, NEW run,
           Turned(p, Ran(turn[p], at, run)),
           \/ at = "planner" /\ PlannerCalm(plans', Ran(turn[p], at, run))
           \/ /\ at \in {"executor", "submit"}
              /\ InHand(plans', shown', turn[p].call.plan, turn[p].call.stage, "doing"),
           ApprovedSeen'
    PROVE  CalmInv'
  <1> DEFINE r == Ran(turn[p], at, run)
  <1>1. turn[p] # Idle /\ TurnsKept
    BY CalmTurn DEF ChatInv
  <1>2. r.at = at /\ r.call = turn[p].call
    BY DEF Ran, Fields
  <1> HIDE DEF r
  <1>3. Calm(plans', shown', r) /\ r # Idle
    BY <1>2 DEF Calm, Idle, r
  <1>4. QED
    BY <1>1, <1>3, CalmStep DEF r

\* Nothing about the approvals changes.
LEMMA ApprovedSame ==
    ASSUME CalmInv, UNCHANGED plans, shown \subseteq shown'
    PROVE  ApprovedSeen'
  BY DEF CalmInv, ApprovedSeen

-----------------------------------------------------------------------------
(* The latest plan.                                                         *)

\* The rows after one of the latest plan is written.
LEMMA LatestWritten ==
    ASSUME PlansKept, NEW i \in DOMAIN plans, i = Len(plans), NEW d, Writes(i, d)
    PROVE  /\ Len(plans') = Len(plans) /\ LatestOf(plans') = d /\ DOMAIN plans' = DOMAIN plans
           /\ \A j \in DOMAIN plans \ {i} : plans'[j] = plans[j]
           /\ plans'[i] = d /\ LatestOf(plans) = plans[i]
  BY DEF PlansKept, Writes, LatestOf

\* A move from here is made, whatever the rest of the plan.
LEMMA PendingMoves ==
    ASSUME ChatInv, NEW seen, plans # <<>>, Quiet(Latest, LatestOf(plans), seen, {}, {}),
           InState("pending") # {}
    PROVE  CalledCalm(plans, seen, Present(Latest, FirstIn("pending")))
  <1> DEFINE s == FirstIn("pending")
             call == Present(Latest, s)
             d == LatestOf(plans)
  <1>1. PlansKept /\ d = plans[Latest]
    BY DEF ChatInv, LatestOf, Latest
  <1>2. s \in InState("pending") /\ s \in DOMAIN d.stages /\ RowKept(d) /\ Stages = d.stages
    BY <1>1, FirstInIs, LatestRow
  <1>3. d.stages[s].state = "pending" /\ d.stages[s].contract \in Contract
    BY <1>2, RowStages DEF InState, ChatStage
  <1>4. d.stages[s].contract # NoContract
    BY <1>3, SpecItems DEF NoContract
  <1>5. First!CheckTransition(d.stages[s], "waiting_user", FALSE, "plan_review")
    BY <1>3, <1>4 DEF First!CheckTransition, First!TRANSITIONS, First!ReviewKindMatches,
                      First!ContractPresent, First!ReviewPassed, First!ResultsPresent
  <1>6. /\ call.tool = "plan_update_stage_state" /\ call.plan = Len(plans) /\ call.stage = s
        /\ call.target = "waiting_user" /\ call.user_confirmed = FALSE
        /\ call.review_kind = "plan_review"
    BY DEF Present, Move, Latest
  <1>7. Quiet(Len(plans), d, seen, {s}, {})
    BY DEF Quiet, Latest
  <1> HIDE DEF call, d, s
  <1>8. MoveReady(plans, seen, call)
    BY <1>2, <1>3, <1>5, <1>6, <1>7 DEF MoveReady, d
  <1>9. QED
    BY <1>6, <1>8 DEF CalledCalm, call, s

\* A move that is legal, and confirmed only of what was shown.
LEMMA MoveCalm ==
    ASSUME NEW P, NEW seen, NEW i, i = Len(P), NEW s \in DOMAIN LatestOf(P).stages, NEW target,
           NEW confirmed \in BOOLEAN, NEW kind,
           First!CheckTransition(LatestOf(P).stages[s], target, confirmed, kind),
           Quiet(i, LatestOf(P), seen, {s}, {}),
           LatestOf(P).stages[s].state = "doing" => target \in {"done", "blocked"},
           confirmed => <<i, s>> \in seen
    PROVE  CalledCalm(P, seen, Move(i, s, target, confirmed, kind))
  <1> DEFINE call == Move(i, s, target, confirmed, kind)
  <1>1. /\ call.tool = "plan_update_stage_state" /\ call.plan = i /\ call.stage = s
        /\ call.target = target /\ call.user_confirmed = confirmed
        /\ call.review_kind = kind
    BY DEF Move
  <1> HIDE DEF call
  <1>2. MoveReady(P, seen, call)
    BY <1>1 DEF MoveReady
  <1>3. QED
    BY <1>1, <1>2 DEF CalledCalm, call

\* A stage that is skipped, or taken up again.
LEMMA ResumeCalm ==
    ASSUME ChatInv, NEW seen, NEW state \in {"waiting_user", "blocked"}, InState(state) # {},
           AtRest(plans, seen)
    PROVE  /\ CalledCalm(plans, seen, Move(Latest, FirstIn(state), "omitted", FALSE, "none"))
           /\ CalledCalm(plans, seen, Move(Latest, FirstIn(state), "doing",
                                          state = "waiting_user", "none"))
  <1> DEFINE s == FirstIn(state)
             d == LatestOf(plans)
  <1>1. PlansKept /\ d = plans[Latest] /\ plans # <<>>
    BY StatesAreLatest DEF ChatInv, LatestOf, Latest
  <1>2. s \in InState(state) /\ s \in DOMAIN d.stages /\ RowKept(d) /\ Stages = d.stages
    BY <1>1, FirstInIs, LatestRow
  <1>3. d.stages[s].state = state /\ d.stages[s].contract \in Contract
    BY <1>2, RowStages DEF InState, ChatStage
  <1>4. d.stages[s].contract # NoContract
    BY <1>3, SpecItems DEF NoContract
  <1>5. Quiet(Latest, d, seen, {}, {}) /\ Latest = Len(plans)
    BY <1>1 DEF AtRest, Latest
  <1>6. Quiet(Latest, d, seen, {s}, {})
    BY <1>5 DEF Quiet
  <1>7. state = "waiting_user" => <<Latest, s>> \in seen
    BY <1>2, <1>3, <1>5 DEF Quiet
  <1> HIDE DEF d, s
  <1>8. /\ First!CheckTransition(d.stages[s], "omitted", FALSE, "none")
        /\ First!CheckTransition(d.stages[s], "doing", state = "waiting_user", "none")
    BY <1>3, <1>4 DEF First!CheckTransition, First!TRANSITIONS, First!ReviewKindMatches,
                      First!ContractPresent, First!ReviewPassed, First!ResultsPresent
  <1>9. d.stages[s].state # "doing"
    BY <1>3
  <1>10. CalledCalm(plans, seen, Move(Latest, s, "omitted", FALSE, "none"))
    <2> DEFINE confirmed == FALSE
    <2>1. confirmed \in BOOLEAN /\ ~confirmed
      OBVIOUS
    <2> HIDE DEF confirmed
    <2>2. First!CheckTransition(d.stages[s], "omitted", confirmed, "none")
      BY <1>8 DEF confirmed
    <2> HIDE DEF confirmed
    <2>3. CalledCalm(plans, seen, Move(Latest, s, "omitted", confirmed, "none"))
      BY <1>2, <1>5, <1>6, <1>9, <2>1, <2>2, MoveCalm DEF d
    <2>4. QED
      BY <2>3 DEF confirmed
  <1>11. CalledCalm(plans, seen, Move(Latest, s, "doing", state = "waiting_user", "none"))
    <2> DEFINE confirmed == state = "waiting_user"
    <2>1. confirmed \in BOOLEAN
      OBVIOUS
    <2>2. /\ First!CheckTransition(d.stages[s], "doing", confirmed, "none")
          /\ confirmed => <<Latest, s>> \in seen
      BY <1>7, <1>8 DEF s
    <2> HIDE DEF confirmed
    <2>3. CalledCalm(plans, seen, Move(Latest, s, "doing", confirmed, "none"))
      BY <1>2, <1>5, <1>6, <1>9, <2>1, <2>2, MoveCalm DEF d
    <2>4. QED
      BY <2>3 DEF confirmed
  <1>12. QED
    BY <1>10, <1>11 DEF s

-----------------------------------------------------------------------------
(* The orchestrator keeps calm.                                             *)

LEMMA OpenTurnCalm ==
    ASSUME ChatInv, CalmInv, NEW p \in Process, OpenTurn(p)
    PROVE  CalmInv'
  <1> PICK m \in Message :
         OpenAnswers(p, m) \/ OpenReview(p, m) \/ OpenResume(p, m) \/ OpenRequest(p, m)
    BY DEF OpenTurn
  <1>1. UNCHANGED <<plans, shown>>
    BY DEF OpenTurn
  <1>2. turn[p].at = "open"
    BY DEF OpenAnswers, OpenReview, OpenResume, OpenRequest, Opening
  <1>3. AtRest(plans, shown)
    BY <1>2, CalmTurn DEF Calm
  <1>4. AtRest(plans', shown') /\ ApprovedSeen'
    BY <1>1, <1>3, ApprovedSame
  <1>5. CASE Replies(p)
    BY <1>2, <1>4, <1>5, CalmReplies
  <1>6. CASE OpenAnswers(p, m)
    <2> DEFINE call == Plan(Latest, TRUE)
    <2>1. plans # <<>> /\ LatestOf(plans).open_questions # {} /\ Calls(p, call)
      BY <1>6, QuestionsAreLatest DEF OpenAnswers, Questions, LatestOf, Latest
    <2>2. LatestOf(plans).stages = <<>>
      BY <1>3, <2>1 DEF AtRest, Quiet
    <2>3. call.tool = "dispatch_planner" /\ call.plan = Len(plans) /\ call.answers = TRUE
      BY DEF Plan, Latest
    <2> HIDE DEF call
    <2>4. CalledCalm(plans, shown, call)
      BY <2>2, <2>3 DEF CalledCalm
    <2>5. QED
      BY <1>1, <1>2, <2>1, <2>4, CalmCalls
  <1>7. ASSUME NEW state \in {"waiting_user", "blocked"}, InState(state) # {},
               NEW confirmed \in BOOLEAN, confirmed <=> state = "waiting_user",
               \/ Calls(p, Move(Latest, FirstIn(state), "omitted", FALSE, "none"))
               \/ Calls(p, Move(Latest, FirstIn(state), "doing", confirmed, "none"))
        PROVE  CalmInv'
    <2>1. confirmed = (state = "waiting_user")
      BY <1>7
    <2>2. /\ CalledCalm(plans, shown, Move(Latest, FirstIn(state), "omitted", FALSE, "none"))
          /\ CalledCalm(plans, shown, Move(Latest, FirstIn(state), "doing", confirmed, "none"))
      BY <1>3, <1>7, <2>1, ResumeCalm
    <2>3. QED
      BY <1>1, <1>2, <1>7, <2>2, CalmCalls
  <1>8. CASE OpenReview(p, m)
    <2>1. InState("waiting_user") # {}
      BY <1>8 DEF OpenReview, Reviewing
    <2>2. \/ Replies(p)
          \/ Calls(p, Move(Latest, FirstIn("waiting_user"), "omitted", FALSE, "none"))
          \/ Calls(p, Move(Latest, FirstIn("waiting_user"), "doing", TRUE, "none"))
      BY <1>8 DEF OpenReview
    <2>3. QED
      BY <1>5, <1>7, <2>1, <2>2
  <1>9. CASE OpenResume(p, m)
    <2>1. InState("doing") = {}
      <3>1. ASSUME NEW s \in InState("doing") PROVE FALSE
        <4>1. /\ plans # <<>> /\ s \in DOMAIN LatestOf(plans).stages
              /\ LatestOf(plans).stages[s].state = "doing"
          BY <3>1 DEF InState, Stages, LatestOf, Latest
        <4>2. QED
          BY <1>3, <4>1 DEF AtRest, Quiet
      <3>2. QED
        BY <3>1
    <2>2. \/ Replies(p)
          \/ /\ InState("blocked") # {}
             /\ \/ Calls(p, Move(Latest, FirstIn("blocked"), "omitted", FALSE, "none"))
                \/ Calls(p, Move(Latest, FirstIn("blocked"), "doing", FALSE, "none"))
      BY <1>9, <2>1 DEF OpenResume
    <2>3. QED
      BY <1>5, <1>7, <2>2
  <1>10. CASE OpenRequest(p, m)
    <2> DEFINE out == [tool |-> "dispatch_router", route |-> IF Staged(m) THEN "workflow" ELSE "direct"]
    <2>1. Returns(p, out) /\ out.tool = "dispatch_router"
      BY <1>10 DEF OpenRequest
    <2> HIDE DEF out
    <2>2. OutCalm(plans', shown', out)
      BY <1>4, <2>1 DEF OutCalm
    <2>3. QED
      BY <1>2, <1>4, <2>1, <2>2, CalmReturns
  <1>11. QED
    BY <1>6, <1>8, <1>9, <1>10

LEMMA AfterRouterOrContentCalm ==
    ASSUME ChatInv, CalmInv, NEW p \in Process, AfterRouterOrContent(p)
    PROVE  CalmInv'
  <1>1. /\ turn[p].at = "next" /\ turn[p].out.tool \in {"dispatch_router", "content"}
        /\ UNCHANGED <<plans, shown>>
    BY DEF AfterRouterOrContent, After
  <1>2. AtRest(plans, shown)
    BY <1>1, CalmTurn DEF Calm, OutCalm
  <1>3. AtRest(plans', shown') /\ ApprovedSeen'
    BY <1>1, <1>2, ApprovedSame
  <1>4. CASE Replies(p)
    BY <1>1, <1>3, <1>4, CalmReplies
  <1>5. ASSUME NEW kind, Returns(p, [tool |-> "content", kind |-> kind]) PROVE CalmInv'
    <2> DEFINE out == [tool |-> "content", kind |-> kind]
    <2>1. out.tool = "content"
      OBVIOUS
    <2>2. Returns(p, out)
      BY <1>5
    <2> HIDE DEF out
    <2>3. OutCalm(plans', shown', out)
      BY <1>3, <2>1 DEF OutCalm
    <2>4. QED
      BY <1>1, <1>3, <2>2, <2>3, CalmReturns
  <1>6. QED
    BY <1>4, <1>5 DEF AfterRouterOrContent

\* A stage of the latest plan that is in hand.
LEMMA HandLatest ==
    ASSUME ChatInv, NEW seen, NEW i, NEW s, NEW state, i \in DOMAIN plans,
           InHand(plans, seen, i, s, state)
    PROVE  /\ plans # <<>> /\ i = Latest /\ LatestOf(plans) = plans[i] /\ RowKept(plans[i])
           /\ Stages = plans[i].stages /\ s \in DOMAIN plans[i].stages
           /\ plans[i].stages[s] \in ChatStage /\ plans[i].stages[s].state = state
           /\ plans[i].stages # <<>>
  <1>1. plans # <<>> /\ PlansKept /\ i = Latest /\ LatestOf(plans) = plans[i]
    BY DEF ChatInv, PlansKept, InHand, Latest, LatestOf
  <1>2. RowKept(plans[i]) /\ Stages = plans[i].stages
    BY <1>1, LatestRow
  <1>3. s \in DOMAIN plans[i].stages /\ plans[i].stages[s].state = state
    BY <1>1 DEF InHand
  <1>4. plans[i].stages[s] \in ChatStage
    BY <1>2, <1>3, RowStages
  <1>5. plans[i].stages # <<>>
    BY <1>3
  <1>6. QED
    BY <1>1, <1>2, <1>3, <1>4, <1>5

LEMMA DecideCalm ==
    ASSUME ChatInv, CalmInv, NEW p \in Process, Decide(p)
    PROVE  CalmInv'
  <1> DEFINE out == turn[p].out
  <1>1. turn[p].at = "next" /\ UNCHANGED <<plans, shown>>
    BY DEF Decide, AfterError, AfterRouter, AfterPlanCreate, AfterPlanner, AfterExecutor, After
  <1>2. Whole(turn[p]) /\ OutKept(plans, turn[p].say, out) /\ OutCalm(plans, shown, out)
    BY <1>1, CalmTurn DEF PlaceKept, Calm
  <1>3. CASE AfterError(p)
    BY <1>2, <1>3 DEF AfterError, After, OutCalm
  <1>4. CASE AfterRouter(p)
    <2> DEFINE call == [tool |-> "plan_create"]
    <2>1. Calls(p, call) /\ call.tool = "plan_create"
      BY <1>4 DEF AfterRouter
    <2> HIDE DEF call
    <2>2. CalledCalm(plans, shown, call)
      BY <2>1 DEF CalledCalm
    <2>3. QED
      BY <1>1, <2>1, <2>2, CalmCalls
  <1>5. CASE AfterPlanCreate(p)
    <2> DEFINE call == Plan(out.plan, FALSE)
    <2>1. Calls(p, call) /\ out.tool = "plan_create"
      BY <1>5 DEF AfterPlanCreate, After
    <2>2. /\ out.plan = Len(plans) /\ LatestOf(plans).stages = <<>>
          /\ LatestOf(plans).open_questions = {}
      BY <1>2, <2>1 DEF OutCalm
    <2>3. call.tool = "dispatch_planner" /\ call.plan = out.plan
      BY DEF Plan
    <2> HIDE DEF call
    <2>4. CalledCalm(plans, shown, call)
      BY <2>2, <2>3 DEF CalledCalm
    <2>5. QED
      BY <1>1, <2>1, <2>4, CalmCalls
  <1>6. CASE AfterPlanner(p)
    <2>1. out.tool = "dispatch_planner"
      BY <1>6 DEF AfterPlanner, After
    <2>2. /\ plans # <<>> /\ Quiet(Latest, LatestOf(plans), shown, {}, {})
          /\ \E s \in DOMAIN LatestOf(plans).stages : LatestOf(plans).stages[s].state = "pending"
      BY <1>2, <2>1 DEF OutCalm, Latest
    <2>3. InState("pending") # {}
      BY <2>2 DEF InState, Stages, LatestOf, Latest
    <2>4. Calls(p, Present(Latest, FirstIn("pending")))
      BY <1>6, <2>3 DEF AfterPlanner
    <2>5. QED
      BY <1>1, <2>2, <2>3, <2>4, PendingMoves, CalmCalls
  <1>7. CASE AfterExecutor(p)
    <2> DEFINE i == out.plan
               s == out.stage
               d == plans[i]
    <2>1. out.tool = "dispatch_executor"
      BY <1>7 DEF AfterExecutor, After
    <2>2. /\ i \in DOMAIN plans /\ InHand(plans, shown, i, s, "doing")
          /\ out.pending = {} => AllMade(d, s)
      BY <1>2, <2>1, OutFields DEF OutCalm
    <2>3. /\ i = Len(plans) /\ LatestOf(plans) = d /\ s \in DOMAIN d.stages
          /\ d.stages[s] \in ChatStage /\ d.stages[s].state = "doing"
      BY <2>2, HandLatest DEF Latest
    <2>4. Quiet(i, d, shown, {s}, {})
      BY <2>2, <2>3 DEF InHand
    <2>5. ASSUME NEW target \in {"done", "blocked"}, target = "done" => AllMade(d, s),
                 Calls(p, Move(i, s, target, FALSE, "none"))
          PROVE  CalmInv'
      <3> DEFINE confirmed == FALSE
      <3>1. target = "done" => d.stages[s].refs # {}
        <4>1. ItemKinds(d.stages[s]) # {}
          BY <2>3, SpecItems DEF ChatStage
        <4>2. QED
          BY <2>5, <4>1 DEF AllMade, KindsOf
      <3>2. First!CheckTransition(d.stages[s], target, confirmed, "none")
        BY <2>3, <3>1 DEF First!CheckTransition, First!TRANSITIONS, First!ReviewKindMatches,
                          First!ContractPresent, First!ReviewPassed, First!ResultsPresent
      <3>3. confirmed \in BOOLEAN /\ ~confirmed
        OBVIOUS
      <3> HIDE DEF confirmed, d, i, s
      <3>4. CalledCalm(plans, shown, Move(i, s, target, confirmed, "none"))
        BY <2>3, <2>4, <2>5, <3>2, <3>3, MoveCalm
      <3>5. Calls(p, Move(i, s, target, confirmed, "none"))
        BY <2>5 DEF confirmed
      <3>6. QED
        BY <1>1, <3>4, <3>5, CalmCalls
    <2>6. ASSUME NEW retry, Calls(p, ExecuteStage(i, s, retry)) PROVE CalmInv'
      <3> DEFINE call == ExecuteStage(i, s, retry)
      <3>1. call.tool = "dispatch_executor" /\ call.plan = i /\ call.stage = s
        BY DEF ExecuteStage
      <3>2. Calls(p, call)
        BY <2>6
      <3> HIDE DEF call
      <3>3. CalledCalm(plans, shown, call)
        BY <2>2, <3>1 DEF CalledCalm
      <3>4. QED
        BY <1>1, <3>2, <3>3, CalmCalls
    <2>7. QED
      BY <1>7, <2>2, <2>5, <2>6 DEF AfterExecutor
  <1>8. QED
    BY <1>3, <1>4, <1>5, <1>6, <1>7 DEF Decide

LEMMA AfterStateCalm ==
    ASSUME ChatInv, CalmInv, NEW p \in Process, AfterState(p)
    PROVE  CalmInv'
  <1> DEFINE out == turn[p].out
             i == out.plan
             s == out.stage
             d == plans[i]
  <1>1. /\ turn[p].at = "next" /\ OutKept(plans, turn[p].say, out)
        /\ out.tool = "plan_update_stage_state"
    BY AfterOut DEF AfterState
  <1>2. /\ i \in DOMAIN plans /\ out.state \in First!StageState
        /\ out.state # "pending" /\ InHand(plans, shown, i, s, out.state)
    BY <1>1, CalmTurn, OutFields DEF Calm, OutCalm
  <1>3. /\ plans # <<>> /\ i = Latest /\ i = Len(plans) /\ LatestOf(plans) = d
        /\ RowKept(d) /\ Stages = d.stages
        /\ s \in DOMAIN d.stages /\ d.stages[s].state = out.state /\ d.stages # <<>>
    BY <1>2, HandLatest DEF Latest
  <1>4. Quiet(i, d, shown, IF out.state = "doing" THEN {s} ELSE {},
              IF out.state = "waiting_user" THEN {s} ELSE {})
    BY <1>2, <1>3 DEF InHand
  <1>5. UNCHANGED plans /\ shown \subseteq shown'
    BY DEF AfterState, Presents
  <1>6. ApprovedSeen'
    BY <1>5, ApprovedSame
  <1>7. CASE ShowsReview(out) /\ Presents(p, i, s)
    <2>1. out.state = "waiting_user" /\ shown' = shown \cup {<<i, s>>} /\ Replies(p)
      BY <1>7 DEF ShowsReview, Presents
    <2>2. Quiet(i, d, shown', {}, {})
      BY <1>4, <2>1 DEF Quiet
    <2>3. Awaits(d)
      BY <1>3, <2>1 DEF Awaits
    <2>4. AtRest(plans', shown')
      BY <1>3, <1>5, <2>2, <2>3 DEF AtRest
    <2>5. QED
      BY <1>1, <1>6, <2>1, <2>4, CalmReplies
  <1>8. CASE out.state = "doing" /\ Calls(p, ExecuteStage(i, s, {})) /\ UNCHANGED shown
    <2> DEFINE call == ExecuteStage(i, s, {})
    <2>1. call.tool = "dispatch_executor" /\ call.plan = i /\ call.stage = s
      BY DEF ExecuteStage
    <2>2. Calls(p, call)
      BY <1>8
    <2> HIDE DEF call
    <2>3. CalledCalm(plans, shown, call)
      BY <1>2, <1>8, <2>1 DEF CalledCalm
    <2>4. QED
      BY <1>1, <1>5, <1>8, <2>2, <2>3, CalmCalls
  <1>9. CASE MovesOn(out) /\ Calls(p, Present(i, FirstIn("pending"))) /\ UNCHANGED shown
    <2>1. Quiet(i, d, shown, {}, {}) /\ InState("pending") # {}
      BY <1>4, <1>9 DEF MovesOn, Quiet
    <2>2. CalledCalm(plans, shown, Present(i, FirstIn("pending")))
      BY <1>3, <2>1, PendingMoves
    <2>3. QED
      BY <1>1, <1>5, <1>9, <2>2, CalmCalls
  <1>10. CASE /\ ~ShowsReview(out) /\ out.state # "doing" /\ ~MovesOn(out)
              /\ Replies(p) /\ UNCHANGED shown
    <2>1. Quiet(i, d, shown, {}, {})
      BY <1>4, <1>10 DEF ShowsReview
    <2>2. Awaits(d)
      <3>1. CASE out.state = "blocked"
        BY <1>3, <3>1 DEF Awaits
      <3>2. CASE out.state \in {"done", "omitted"}
        <4>1. InState("pending") = {}
          BY <1>10, <3>2 DEF MovesOn
        <4>2. \A t \in DOMAIN d.stages :
                 /\ d.stages[t].state \in First!StageState
                 /\ d.stages[t].state # "pending" /\ d.stages[t].state # "doing"
          BY <1>3, <2>1, <4>1, RowStages DEF InState, Quiet, ChatStage
        <4>3. QED
          BY <1>3, <4>2 DEF Awaits, First!StageState, First!TERMINAL
      <3>3. QED
        BY <1>2, <1>10, <3>1, <3>2 DEF ShowsReview, First!StageState
    <2>3. AtRest(plans', shown')
      BY <1>3, <1>5, <1>10, <2>1, <2>2 DEF AtRest
    <2>4. QED
      BY <1>1, <1>6, <1>10, <2>3, CalmReplies
  <1>11. QED
    BY <1>3, <1>7, <1>8, <1>9, <1>10 DEF AfterState

-----------------------------------------------------------------------------
(* The tools keep calm.                                                     *)

\* A call that is performed.
LEMMA CalmCall ==
    ASSUME ChatInv, CalmInv, NEW p \in Process, NEW tool, Performing(p, tool)
    PROVE  /\ turn[p].at = "call" /\ turn[p].call.tool = tool /\ TurnsKept /\ Whole(turn[p])
           /\ CallKept(plans, turn[p].say, turn[p].call) /\ turn[p] # Idle
           /\ CalledCalm(plans, shown, turn[p].call)
  <1>1. turn[p].at = "call" /\ turn[p].call.tool = tool
    BY DEF Performing
  <1>2. QED
    BY <1>1, PerformedCall, CalmTurn DEF Calm, ChatInv

LEMMA CountPlansCalm ==
    ASSUME ChatInv, CalmInv, NEW p \in Process, CountPlans(p)
    PROVE  CalmInv'
  <1> DEFINE c == [tool |-> "plan_create", plan |-> Latest + 1]
             r == [turn[p] EXCEPT !.at = "insert", !.call = c]
  <1>1. /\ TurnsKept /\ Whole(turn[p]) /\ turn[p] # Idle /\ UNCHANGED <<plans, shown>>
        /\ turn' = [turn EXCEPT ![p].at = "insert", ![p].call = c]
    BY CalmCall DEF CountPlans
  <1>2. Turned(p, r)
    BY <1>1 DEF Turned, TurnsKept
  <1>3. r.at = "insert" /\ r.call = c
    BY <1>1 DEF Whole, Fields
  <1>4. c.plan = Len(plans') + 1
    BY <1>1 DEF Latest
  <1> HIDE DEF r, c
  <1>5. Calm(plans', shown', r) /\ r # Idle
    BY <1>3, <1>4 DEF Calm, Idle
  <1>6. ApprovedSeen'
    BY <1>1, ApprovedSame
  <1>7. QED
    BY <1>1, <1>2, <1>5, <1>6, CalmStep

LEMMA InsertPlanCalm ==
    ASSUME ChatInv, CalmInv, NEW p \in Process, InsertPlan(p)
    PROVE  CalmInv'
  <1> DEFINE i == turn[p].call.plan
             out == [tool |-> "plan_create", plan |-> i]
             new == First!NewPlan
  <1>1. turn[p].at = "insert" /\ UNCHANGED shown /\ PlansKept
    BY DEF InsertPlan, ChatInv
  <1>2. i = Len(plans) + 1
    BY <1>1, CalmTurn DEF Calm
  <1>3. Len(plans) \in Nat /\ DOMAIN plans = 1 .. Len(plans)
    BY <1>1 DEF PlansKept
  <1>4. plans' = Append(plans, new) /\ Returns(p, out)
    BY <1>2, <1>3 DEF InsertPlan
  <1>5. new.stages = <<>> /\ new.open_questions = {} /\ new \in ChatRow
    BY NewPlanKept DEF First!NewPlan, RowKept
  <1>6. out.tool = "plan_create" /\ out.plan = i
    OBVIOUS
  <1> HIDE DEF new, out
  <1>7. /\ Len(plans') = i /\ plans'[i] = new /\ DOMAIN plans' = 1 .. i
        /\ \A j \in DOMAIN plans : plans'[j] = plans[j]
    BY <1>1, <1>2, <1>3, <1>4, <1>5 DEF PlansKept
  <1>8. OutCalm(plans', shown', out)
    BY <1>5, <1>6, <1>7 DEF OutCalm, LatestOf
  <1>9. ApprovedSeen'
    <2> SUFFICES ASSUME NEW j \in DOMAIN plans', NEW s \in DOMAIN plans'[j].stages,
                        plans'[j].stages[s].approved
                 PROVE  <<j, s>> \in shown'
      BY DEF ApprovedSeen
    <2>1. j # i
      BY <1>5, <1>7
    <2>2. j \in DOMAIN plans /\ plans'[j] = plans[j]
      BY <1>2, <1>3, <1>7, <2>1
    <2>3. QED
      BY <1>1, <2>2 DEF CalmInv, ApprovedSeen
  <1>10. QED
    BY <1>1, <1>4, <1>8, <1>9, CalmReturns

\* A row is written whose approved stages were shown.
LEMMA ApprovedWritten ==
    ASSUME ChatInv, CalmInv, NEW i \in DOMAIN plans, NEW d, Writes(i, d), UNCHANGED shown,
           \A s \in DOMAIN d.stages : d.stages[s].approved => <<i, s>> \in shown
    PROVE  ApprovedSeen'
  <1>1. /\ DOMAIN plans' = DOMAIN plans /\ plans'[i] = d
        /\ \A j \in DOMAIN plans \ {i} : plans'[j] = plans[j]
    BY DEF Writes, ChatInv, PlansKept
  <1>2. QED
    BY <1>1 DEF CalmInv, ApprovedSeen

\* A row is written in which every stage keeps its state and its approval.
LEMMA SameStates ==
    ASSUME ChatInv, CalmInv, NEW i \in DOMAIN plans, i = Len(plans), NEW d, Writes(i, d),
           UNCHANGED shown, DOMAIN d.stages = DOMAIN plans[i].stages,
           d.open_questions = plans[i].open_questions,
           \A s \in DOMAIN d.stages : /\ d.stages[s].state = plans[i].stages[s].state
                                      /\ d.stages[s].approved = plans[i].stages[s].approved
    PROVE  /\ ApprovedSeen'
           /\ \A s : InHand(plans, shown, i, s, "doing") => InHand(plans', shown', i, s, "doing")
  <1>1. /\ Len(plans') = Len(plans) /\ LatestOf(plans') = d /\ LatestOf(plans) = plans[i]
    BY LatestWritten DEF ChatInv
  <1>2. ApprovedSeen'
    BY ApprovedWritten DEF CalmInv, ApprovedSeen
  <1>3. ASSUME NEW s, InHand(plans, shown, i, s, "doing")
        PROVE  InHand(plans', shown', i, s, "doing")
    <2>1. /\ s \in DOMAIN d.stages /\ plans[i].stages[s].state = "doing"
          /\ Quiet(i, plans[i], shown, {s}, {})
      BY <1>1, <1>3 DEF InHand
    <2>2. plans[i].open_questions = {}
      BY <2>1 DEF Quiet
    <2>3. Quiet(i, d, shown', {s}, {})
      BY <2>1, <2>2 DEF Quiet
    <2>4. QED
      BY <1>1, <2>1, <2>3 DEF InHand
  <1>4. QED
    BY <1>2, <1>3

LEMMA PlanUpdateStageStateCalm ==
    ASSUME ChatInv, CalmInv, NEW p \in Process, PlanUpdateStageState(p)
    PROVE  CalmInv'
  <1> DEFINE call == turn[p].call
             i == call.plan
             s == call.stage
             d == plans[i]
             stage == First!Moved(d.stages[s], call.target, call.user_confirmed, call.review_kind, {})
             e == First!WithStage(d, s, stage)
             out == [tool |-> "plan_update_stage_state", plan |-> i, stage |-> s, state |-> call.target]
  <1>1. /\ turn[p].at = "call" /\ CallKept(plans, turn[p].say, call)
        /\ call.tool = "plan_update_stage_state" /\ MoveReady(plans, shown, call)
        /\ UNCHANGED shown
    BY CalmCall DEF PlanUpdateStageState, CalledCalm
  <1>2. /\ i \in DOMAIN plans /\ call.target \in First!StageState
        /\ call.user_confirmed \in BOOLEAN /\ call.review_kind \in {"plan_review", First!NoKind}
    BY <1>1, CallFields
  <1>3. /\ i = Len(plans) /\ LatestOf(plans) = d /\ s \in DOMAIN d.stages /\ RowKept(d)
        /\ First!CheckTransition(d.stages[s], call.target, call.user_confirmed, call.review_kind)
        /\ Quiet(i, d, shown, {s}, {})
        /\ call.user_confirmed => <<i, s>> \in shown
    BY <1>1, <1>2 DEF MoveReady, LatestOf, ChatInv, PlansKept
  <1>4. Allowed(call)
    BY <1>3 DEF Allowed
  <1>5. Writes(i, e) /\ Returns(p, out)
    BY <1>4 DEF PlanUpdateStageState, First!Updated
  <1>6. d.stages[s] \in ChatStage
    BY <1>3, RowStages
  <1>7. /\ stage \in ChatStage /\ stage.state = call.target
        /\ stage.approved => d.stages[s].approved \/ call.user_confirmed
    BY <1>2, <1>6 DEF First!Moved, ChatStage
  <1>8. call.target # "pending"
    BY <1>3 DEF First!CheckTransition, First!TRANSITIONS
  <1>9. out.tool = "plan_update_stage_state" /\ out.plan = i /\ out.stage = s /\ out.state = call.target
    OBVIOUS
  <1> HIDE DEF stage, out
  <1>10. /\ DOMAIN e.stages = DOMAIN d.stages /\ e.stages[s] = stage
         /\ \A t \in DOMAIN d.stages \ {s} : e.stages[t] = d.stages[t]
         /\ e.open_questions = d.open_questions
    BY <1>3, <1>7, WithStageRow
  <1> HIDE DEF e
  <1>11. Len(plans') = Len(plans) /\ LatestOf(plans') = e
    BY <1>2, <1>3, <1>5, LatestWritten DEF ChatInv
  <1>12. Quiet(i, e, shown', IF call.target = "doing" THEN {s} ELSE {},
                             IF call.target = "waiting_user" THEN {s} ELSE {})
    <2>1. e.open_questions = {}
      BY <1>3, <1>10 DEF Quiet
    <2>2. ASSUME NEW t \in DOMAIN e.stages
          PROVE  /\ e.stages[t].state = "doing" => t \in IF call.target = "doing" THEN {s} ELSE {}
                 /\ e.stages[t].state = "waiting_user" =>
                       <<i, t>> \in shown' \/ t \in IF call.target = "waiting_user" THEN {s} ELSE {}
      <3>1. CASE t = s
        BY <1>7, <1>10, <3>1
      <3>2. CASE t # s
        BY <1>1, <1>3, <1>10, <2>2, <3>2 DEF Quiet
      <3>3. QED
        BY <3>1, <3>2
    <2>3. QED
      BY <2>1, <2>2 DEF Quiet
  <1>13. InHand(plans', shown', i, s, call.target)
    BY <1>3, <1>7, <1>10, <1>11, <1>12 DEF InHand
  <1>14. OutCalm(plans', shown', out)
    BY <1>8, <1>9, <1>13 DEF OutCalm
  <1>15. ApprovedSeen'
    <2>1. ASSUME NEW t \in DOMAIN e.stages, e.stages[t].approved PROVE <<i, t>> \in shown
      <3>1. CASE t = s
        BY <1>2, <1>3, <1>7, <1>10, <2>1, <3>1 DEF CalmInv, ApprovedSeen
      <3>2. CASE t # s
        BY <1>2, <1>10, <2>1, <3>2 DEF CalmInv, ApprovedSeen
      <3>3. QED
        BY <3>1, <3>2
    <2>2. QED
      BY <1>1, <1>2, <1>5, <2>1, ApprovedWritten
  <1>16. QED
    BY <1>1, <1>5, <1>14, <1>15, CalmReturns

-----------------------------------------------------------------------------
(* The sub-agents keep calm.                                                *)

LEMMA DispatchPlannerCalm ==
    ASSUME ChatInv, CalmInv, NEW p \in Process, DispatchPlanner(p)
    PROVE  CalmInv'
  <1> DEFINE call == turn[p].call
             d == plans[call.plan]
             run == [written |-> <<>>]
             r == Ran(turn[p], "planner", run)
  <1>1. /\ turn[p].at = "call" /\ TurnsKept /\ Whole(turn[p]) /\ call.tool = "dispatch_planner"
        /\ CalledCalm(plans, shown, call) /\ CallKept(plans, turn[p].say, call) /\ UNCHANGED shown
        /\ turn' = [turn EXCEPT ![p].at = "planner", ![p].run = run]
    BY CalmCall DEF DispatchPlanner
  <1>2. /\ call.plan = Len(plans) /\ LatestOf(plans).stages = <<>>
        /\ call.answers \/ LatestOf(plans).open_questions = {}
    BY <1>1 DEF CalledCalm
  <1>3. call.plan \in DOMAIN plans /\ LatestOf(plans) = d
    BY <1>1, <1>2, CallFields DEF Plan, LatestOf
  <1>4. Turned(p, r)
    BY <1>1, RanTurned
  <1>5. r.call = call /\ r.run.written = <<>>
    BY DEF Ran, Fields
  <1>6. CASE UNCHANGED plans /\ ~call.answers
    <2>1. PlannerCalm(plans', r)
      BY <1>2, <1>3, <1>5, <1>6 DEF PlannerCalm
    <2>2. ApprovedSeen'
      BY <1>1, <1>6, ApprovedSame
    <2> HIDE DEF run
    <2>3. QED
      BY <1>1, <1>4, <2>1, <2>2, CalmRuns
  <1>7. CASE Writes(call.plan, First!Cleared(d))
    <2> DEFINE e == First!Cleared(d)
    <2>1. e.stages = <<>> /\ e.open_questions = {}
      BY <1>2, <1>3 DEF First!Cleared, First!Written
    <2> HIDE DEF e
    <2>2. Len(plans') = Len(plans) /\ LatestOf(plans') = e
      BY <1>2, <1>3, <1>7, LatestWritten DEF ChatInv, e
    <2>3. PlannerCalm(plans', r)
      BY <1>2, <1>5, <2>1, <2>2 DEF PlannerCalm
    <2>4. ApprovedSeen'
      BY <1>1, <1>3, <1>7, <2>1, ApprovedWritten DEF e
    <2> HIDE DEF run
    <2>5. QED
      BY <1>1, <1>4, <2>3, <2>4, CalmRuns
  <1>8. QED
    BY <1>6, <1>7 DEF DispatchPlanner

\* A Planner that runs, on the latest plan.
LEMMA CalmPlanner ==
    ASSUME ChatInv, CalmInv, NEW p \in Process, turn[p].at = "planner"
    PROVE  /\ PlannerCalm(plans, turn[p]) /\ turn[p].call.plan \in DOMAIN plans
           /\ turn[p].call.plan = Len(plans) /\ plans # <<>>
           /\ LatestOf(plans) = plans[turn[p].call.plan] /\ RowKept(LatestOf(plans))
           /\ LatestOf(plans).stages \in Seq(ChatStage)
  <1>1. PlannerCalm(plans, turn[p])
    BY CalmTurn DEF Calm
  <1>2. turn[p].call.plan \in DOMAIN plans /\ turn[p].call.plan = Len(plans)
    BY <1>1, PlannerTurn DEF PlannerCalm
  <1>3. LatestOf(plans) = plans[turn[p].call.plan] /\ plans # <<>> /\ RowKept(LatestOf(plans))
    BY <1>2 DEF LatestOf, ChatInv, PlansKept
  <1>4. QED
    BY <1>1, <1>2, <1>3, RowStages

LEMMA PlannerAsksCalm ==
    ASSUME ChatInv, CalmInv, NEW p \in Process, PlannerAsks(p)
    PROVE  CalmInv'
  <1> DEFINE i == turn[p].call.plan
             d == LatestOf(plans)
             e == First!Asked(d, {"audience"})
  <1>1. turn[p].at = "planner" /\ ~AudienceKnown(p) /\ Replies(p) /\ UNCHANGED shown
    BY DEF PlannerAsks
  <1>2. /\ PlannerCalm(plans, turn[p]) /\ i \in DOMAIN plans /\ i = Len(plans)
        /\ d = plans[i] /\ RowKept(d)
    BY <1>1, CalmPlanner
  <1>3. d.stages = <<>>
    BY <1>1, <1>2 DEF PlannerCalm, AudienceKnown
  <1>4. Writes(i, e)
    BY <1>2 DEF PlannerAsks
  <1>5. e.open_questions = {"audience"} /\ DOMAIN e.stages = {}
    BY <1>3 DEF First!Asked, First!Written, First!StageIds
  <1>6. RowKept(e)
    BY <1>2, AskedAdvances DEF Advances
  <1> HIDE DEF e, d
  <1>7. e.stages = <<>>
    <2>1. e.stages \in Seq(ChatStage)
      BY <1>6, RowStages
    <2>2. Len(e.stages) = 0
      <3>1. DOMAIN e.stages = 1 .. Len(e.stages) /\ Len(e.stages) \in Nat
        BY <1>6, RowStages
      <3>2. 1 \notin 1 .. Len(e.stages)
        BY <1>5, <3>1
      <3>3. QED
        BY <3>1, <3>2
    <2>3. QED
      BY <2>1, <2>2, EmptySeq
  <1>8. Len(plans') = Len(plans) /\ LatestOf(plans') = e
    BY <1>2, <1>4, LatestWritten DEF ChatInv
  <1>9. AtRest(plans', shown')
    BY <1>5, <1>7, <1>8 DEF AtRest, Quiet, Awaits
  <1>10. ApprovedSeen'
    BY <1>1, <1>2, <1>4, <1>5, ApprovedWritten
  <1>11. QED
    BY <1>1, <1>9, <1>10, CalmReplies

LEMMA PlannerWritesCalm ==
    ASSUME ChatInv, CalmInv, NEW p \in Process, PlannerWrites(p)
    PROVE  CalmInv'
  <1> DEFINE i == turn[p].call.plan
             d == plans[i]
             w == turn[p].run.written
             n == Len(d.stages) + 1
             c == [spec |-> Len(w) + 1, input |-> Consumes(w)]
             stage == First!NewStage(c, n)
             e == First!Authored(d, c, n)
             run == [written |-> Append(w, n)]
             r == [turn[p] EXCEPT !.run = run]
  <1>1. /\ turn[p].at = "planner" /\ AudienceKnown(p) /\ Writes(i, e) /\ UNCHANGED shown
        /\ turn' = [turn EXCEPT ![p].run.written = Append(@, n)]
    BY DEF PlannerWrites
  <1>2. /\ PlannerCalm(plans, turn[p]) /\ i \in DOMAIN plans /\ i = Len(plans)
        /\ LatestOf(plans) = d /\ RowKept(d) /\ d.stages \in Seq(ChatStage)
    BY <1>1, CalmPlanner
  <1>3. /\ Whole(turn[p]) /\ turn[p].run = [written |-> w] /\ w \in Seq(DOMAIN d.stages) /\ TurnsKept
    BY <1>1, PlannerTurn DEF PlannerKept, ChatInv
  <1>4. Turned(p, r)
    <2> DEFINE w2 == Append(w, n)
    <2>1. turn' = [turn EXCEPT ![p] = [turn[p] EXCEPT !.run = [turn[p].run EXCEPT !.written = w2]]]
      BY <1>1, <1>3 DEF TurnsKept
    <2> HIDE DEF w2
    <2>2. [turn[p].run EXCEPT !.written = w2] = [written |-> w2]
      BY <1>3
    <2>3. turn' = [turn EXCEPT ![p] = [turn[p] EXCEPT !.run = [written |-> w2]]]
      BY <2>1, <2>2
    <2>4. QED
      BY <2>3 DEF Turned, w2
  <1>5. stage.state = "pending" /\ stage.approved = FALSE
    BY DEF First!NewStage
  <1>6. e.stages = Append(d.stages, stage) /\ e.open_questions = d.open_questions
    BY DEF First!Authored, First!Written
  <1>7. stage \in ChatStage
    <2>1. c \in Contract
      BY ContractWritten
    <2>2. n \in Nat
      BY <1>2
    <2> HIDE DEF c, n
    <2>3. QED
      BY <2>1, <2>2 DEF First!NewStage, ChatStage, First!StageState
  <1> HIDE DEF stage, e, c
  <1>8. /\ Len(e.stages) = n /\ DOMAIN e.stages = 1 .. n /\ e.stages[n] = stage
        /\ Len(d.stages) \in Nat /\ DOMAIN d.stages = 1 .. Len(d.stages)
        /\ \A t \in DOMAIN d.stages : e.stages[t] = d.stages[t]
    BY <1>2, <1>6, <1>7
  <1>9. \A t \in DOMAIN e.stages : t \in DOMAIN d.stages \/ t = n
    BY <1>8
  <1>10. Len(run.written) = n
    <2>1. n \in Nat
      BY <1>2
    <2>2. DOMAIN d.stages \subseteq Nat
      <3>1. DOMAIN d.stages = 1 .. Len(d.stages) /\ Len(d.stages) \in Nat
        BY <1>8
      <3> HIDE DEF d
      <3>2. QED
        BY <3>1
    <2>3. w \in Seq(Nat)
      BY <1>3, <2>2
    <2>4. Len(w) + 1 = n
      BY <1>2 DEF PlannerCalm
    <2> HIDE DEF n, w
    <2>5. Len(Append(w, n)) = Len(w) + 1
      BY <2>1, <2>3
    <2>6. QED
      BY <2>4, <2>5
  <1> HIDE DEF n, run
  <1>11. r.at = "planner" /\ r.call = turn[p].call /\ r.say = turn[p].say /\ r.run = run
    BY <1>1, <1>3 DEF Whole, Fields
  <1> HIDE DEF r
  <1>12. Len(plans') = Len(plans) /\ LatestOf(plans') = e
    BY <1>1, <1>2, LatestWritten DEF ChatInv
  <1>13. PlannerCalm(plans', r)
    <2>1. \A t \in DOMAIN e.stages : e.stages[t].state = "pending"
      BY <1>2, <1>5, <1>8, <1>9 DEF PlannerCalm
    <2>2. IF r.call.answers THEN r.say # "approve" ELSE r.say = "series_for"
      BY <1>1, <1>11 DEF AudienceKnown
    <2>3. QED
      BY <1>2, <1>6, <1>8, <1>10, <1>11, <1>12, <2>1, <2>2 DEF PlannerCalm
  <1>14. Calm(plans', shown', r) /\ r # Idle /\ turn[p] # Idle
    BY <1>1, <1>11, <1>13 DEF Calm, Idle
  <1>15. ApprovedSeen'
    <2>1. \A t \in DOMAIN e.stages : e.stages[t].approved => <<i, t>> \in shown
      BY <1>2, <1>5, <1>8, <1>9 DEF CalmInv, ApprovedSeen
    <2>2. QED
      BY <1>1, <1>2, <2>1, ApprovedWritten
  <1>16. QED
    BY <1>3, <1>4, <1>14, <1>15, CalmStep

LEMMA PlannerSubmitsCalm ==
    ASSUME ChatInv, CalmInv, NEW p \in Process, PlannerSubmits(p)
    PROVE  CalmInv'
  <1> DEFINE d == LatestOf(plans)
             out == [tool |-> "dispatch_planner"]
  <1>1. /\ turn[p].at = "planner" /\ Len(turn[p].run.written) = Len(STAGE_SPECS)
        /\ Returns(p, out) /\ UNCHANGED <<plans, shown>>
    BY DEF PlannerSubmits
  <1>2. PlannerCalm(plans, turn[p]) /\ plans # <<>> /\ d.stages \in Seq(ChatStage)
    BY <1>1, CalmPlanner
  <1>3. Len(d.stages) = 3
    BY <1>1, <1>2 DEF PlannerCalm, STAGE_SPECS
  <1>4. 1 \in DOMAIN d.stages /\ d.stages[1].state = "pending"
    BY <1>2, <1>3 DEF PlannerCalm
  <1>5. Quiet(Len(plans), d, shown, {}, {})
    BY <1>2 DEF PlannerCalm, Quiet
  <1>6. out.tool = "dispatch_planner"
    OBVIOUS
  <1> HIDE DEF out, d
  <1>7. OutCalm(plans', shown', out)
    BY <1>1, <1>2, <1>4, <1>5, <1>6 DEF OutCalm, d
  <1>8. ApprovedSeen'
    BY <1>1, ApprovedSame
  <1>9. QED
    BY <1>1, <1>7, <1>8, CalmReturns

LEMMA DispatchExecutorCalm ==
    ASSUME ChatInv, CalmInv, NEW p \in Process, DispatchExecutor(p)
    PROVE  CalmInv'
  <1> DEFINE call == turn[p].call
  <1>1. /\ turn[p].at = "call" /\ TurnsKept /\ Whole(turn[p]) /\ call.tool = "dispatch_executor"
        /\ CalledCalm(plans, shown, call) /\ CallKept(plans, turn[p].say, call)
        /\ UNCHANGED <<plans, shown>>
    BY CalmCall DEF DispatchExecutor
  <1>2. InHand(plans, shown, call.plan, call.stage, "doing")
    BY <1>1 DEF CalledCalm
  <1>3. call.plan \in DOMAIN plans
    BY <1>1, CallFields DEF ExecuteStage
  <1>4. call.stage \in DOMAIN plans[call.plan].stages /\ Stage(p).state = "doing"
    BY <1>2, <1>3, HandLatest DEF Stage
  <1>5. PICK run : turn' = [turn EXCEPT ![p].at = "executor", ![p].run = run]
    BY <1>4 DEF DispatchExecutor
  <1>6. Turned(p, Ran(turn[p], "executor", run))
    BY <1>1, <1>5, RanTurned
  <1>7. ApprovedSeen'
    BY <1>1, ApprovedSame
  <1>8. QED
    BY <1>1, <1>2, <1>6, <1>7, CalmRuns

\* A stage whose Executor runs.
LEMMA CalmExecutor ==
    ASSUME ChatInv, CalmInv, NEW p \in Process, turn[p].at \in {"executor", "submit"}
    PROVE  /\ Whole(turn[p]) /\ TurnsKept /\ turn[p] # Idle /\ turn[p].call.plan \in DOMAIN plans
           /\ turn[p].call.plan = Len(plans)
           /\ InHand(plans, shown, turn[p].call.plan, turn[p].call.stage, "doing")
  <1>1. InHand(plans, shown, turn[p].call.plan, turn[p].call.stage, "doing")
    BY CalmTurn DEF Calm
  <1>2. QED
    BY <1>1, ExecutorTurn, CalmTurn DEF ChatInv, InHand

\* The Executor goes on, on the same stage.
LEMMA CalmExecutes ==
    ASSUME ChatInv, CalmInv, NEW p \in Process, turn[p].at = "executor", NEW run,
           turn' = [turn EXCEPT ![p].run = run], UNCHANGED <<plans, shown>>
    PROVE  CalmInv'
  <1>1. /\ TurnsKept /\ Whole(turn[p])
        /\ InHand(plans, shown, turn[p].call.plan, turn[p].call.stage, "doing")
    BY CalmExecutor
  <1>2. Turned(p, Ran(turn[p], "executor", run))
    BY <1>1, RunWritten, SameRunTurned
  <1>3. ApprovedSeen'
    BY ApprovedSame
  <1>4. QED
    BY <1>1, <1>2, <1>3, CalmRuns

LEMMA ExecutorMakesCalm ==
    ASSUME ChatInv, CalmInv, NEW p \in Process, ExecutorMakes(p)
    PROVE  CalmInv'
  <1>1. turn[p].at = "executor" /\ UNCHANGED <<plans, shown>>
    BY DEF ExecutorMakes
  <1>2. PICK run : turn' = [turn EXCEPT ![p].run = run]
    BY DEF ExecutorMakes
  <1>3. QED
    BY <1>1, <1>2, CalmExecutes

LEMMA ExecutorMissesCalm ==
    ASSUME ChatInv, CalmInv, NEW p \in Process, ExecutorMisses(p)
    PROVE  CalmInv'
  <1>1. turn[p].at = "executor" /\ UNCHANGED <<plans, shown>> /\ TurnsKept
    BY DEF ExecutorMisses, ChatInv
  <1>2. PICK n : LeavesOut(p, n)
    BY DEF ExecutorMisses
  <1> DEFINE todo == turn[p].run.todo \ {n}
             run == [turn[p].run EXCEPT !.todo = todo]
  <1>3. turn' = [turn EXCEPT ![p].run = run]
    BY <1>1, <1>2 DEF LeavesOut, TurnsKept
  <1> HIDE DEF run
  <1>4. QED
    BY <1>1, <1>3, CalmExecutes

LEMMA ExecutorAttachesCalm ==
    ASSUME ChatInv, CalmInv, NEW p \in Process, ExecutorAttaches(p)
    PROVE  CalmInv'
  <1> DEFINE i == turn[p].call.plan
             s == turn[p].call.stage
             made == turn[p].run.made
             d == plans[i]
             stage == First!Extended(d.stages[s], made)
             e == First!WithStage(d, s, stage)
             r == [turn[p] EXCEPT !.at = "submit"]
  <1>1. turn[p].at = "executor" /\ UNCHANGED shown /\ turn' = [turn EXCEPT ![p].at = "submit"]
    BY DEF ExecutorAttaches
  <1>2. /\ Whole(turn[p]) /\ TurnsKept /\ turn[p] # Idle /\ i \in DOMAIN plans /\ i = Len(plans)
        /\ InHand(plans, shown, i, s, "doing")
    BY <1>1, CalmExecutor
  <1>3. RowKept(d) /\ s \in DOMAIN d.stages /\ made \subseteq Ref
    BY <1>1, ExecutorTurn DEF RunKept
  <1>4. InHand(plans', shown', i, s, "doing") /\ ApprovedSeen'
    <2>1. CASE UNCHANGED plans
      BY <1>1, <1>2, <2>1, ApprovedSame
    <2>2. CASE Writes(i, e)
      <3>1. d.stages[s] \in ChatStage
        BY <1>3, RowStages
      <3>2. /\ stage \in ChatStage /\ stage.state = d.stages[s].state
            /\ stage.approved = d.stages[s].approved
        BY <1>3, <3>1 DEF First!Extended, ChatStage
      <3> HIDE DEF stage
      <3>3. /\ DOMAIN e.stages = DOMAIN d.stages /\ e.stages[s] = stage
            /\ \A t \in DOMAIN d.stages \ {s} : e.stages[t] = d.stages[t]
            /\ e.open_questions = d.open_questions
        <4> HIDE DEF d, s
        <4>1. QED
          BY <1>3, <3>2, WithStageRow
      <3> HIDE DEF e
      <3>4. \A t \in DOMAIN e.stages : /\ e.stages[t].state = d.stages[t].state
                                       /\ e.stages[t].approved = d.stages[t].approved
        BY <3>2, <3>3
      <3>5. QED
        BY <1>1, <1>2, <2>2, <3>3, <3>4, SameStates
    <2>3. QED
      BY <2>1, <2>2 DEF ExecutorAttaches, First!Attached
  <1>5. Turned(p, r)
    BY <1>1, <1>2 DEF Turned, TurnsKept
  <1>6. r.at = "submit" /\ r.call = turn[p].call
    BY <1>2 DEF Whole, Fields
  <1> HIDE DEF r
  <1>7. Calm(plans', shown', r) /\ r # Idle
    BY <1>4, <1>6 DEF Calm, Idle
  <1>8. QED
    BY <1>2, <1>4, <1>5, <1>7, CalmStep

LEMMA ExecutorSubmitsCalm ==
    ASSUME ChatInv, CalmInv, NEW p \in Process, ExecutorSubmits(p)
    PROVE  CalmInv'
  <1> DEFINE r == turn[p]
             pending == PendingItems(Stage(p))
             out == [tool |-> "dispatch_executor", plan |-> r.call.plan, stage |-> r.call.stage,
                     pending |-> pending]
             tries == IF r.tries < 2 THEN r.tries + 1 ELSE r.tries
             new == [r EXCEPT !.at = "next", !.call = Idle, !.run = Idle, !.tries = tries, !.out = out]
  <1>1. /\ r.at = "submit" /\ UNCHANGED <<plans, shown>>
        /\ turn' = [turn EXCEPT ![p].at = "next", ![p].call = Idle, ![p].run = Idle,
                               ![p].tries = IF @ < 2 THEN @ + 1 ELSE @, ![p].out = out]
    BY DEF ExecutorSubmits
  <1>2. /\ Whole(r) /\ TurnsKept /\ r # Idle
        /\ InHand(plans, shown, r.call.plan, r.call.stage, "doing")
    BY <1>1, CalmExecutor
  <1>3. out.tool = "dispatch_executor" /\ out.plan = r.call.plan /\ out.stage = r.call.stage
    OBVIOUS
  <1> HIDE DEF out
  <1>4. turn' = [turn EXCEPT ![p] = new]
    BY <1>1, <1>2 DEF TurnsKept
  <1>5. new.at = "next" /\ new.out = out
    BY <1>2 DEF Whole, Fields
  <1>6. OutCalm(plans, shown, out)
    BY <1>2, <1>3 DEF OutCalm
  <1> HIDE DEF new
  <1>7. Calm(plans', shown', new) /\ new # Idle
    BY <1>1, <1>5, <1>6 DEF Calm, Idle
  <1>8. ApprovedSeen'
    BY <1>1, ApprovedSame
  <1>9. QED
    BY <1>2, <1>4, <1>7, <1>8, CalmStep DEF Turned

-----------------------------------------------------------------------------
(* While nothing fails, the chat stays calm.                                *)

\* A process whose turn is not running has none.
LEMMA NotRunning ==
    ASSUME TurnsKept, NEW p \in Process, p \notin Running
    PROVE  turn[p] = Idle
  BY DEF TurnsKept, TurnKept, Whole, Running

LEMMA UserSendsCalm ==
    ASSUME ChatInv, CalmInv, NEW p \in Process, NEW m \in Message, UserSends(p, m)
    PROVE  CalmInv'
  <1> DEFINE r == Turn(m)
  <1>1. /\ TurnsKept /\ Running = {} /\ turn' = [turn EXCEPT ![p] = r]
        /\ UNCHANGED <<plans, shown>>
    BY DEF UserSends, Send, ChatInv
  <1>2. \A q \in Process : turn[q] = Idle
    BY <1>1, NotRunning
  <1>3. AtRest(plans', shown')
    BY <1>1, <1>2 DEF CalmInv
  <1>4. r.at = "open"
    BY DEF Turn
  <1> HIDE DEF r
  <1>5. Calm(plans', shown', r) /\ r # Idle
    BY <1>3, <1>4 DEF Calm, Idle
  <1>6. turn'[p] = r /\ \A q \in Process \ {p} : turn'[q] = Idle
    BY <1>1, <1>2 DEF TurnsKept
  <1>7. ApprovedSeen'
    BY <1>1, ApprovedSame
  <1>8. QED
    BY <1>5, <1>6, <1>7 DEF CalmInv, OneRuns

LEMMA StepCalm ==
    ASSUME ChatInv, CalmInv, NEW p \in Process, Step(p)
    PROVE  CalmInv'
  <1>1. CASE OpenTurn(p)
    BY <1>1, OpenTurnCalm
  <1>2. CASE Decide(p)
    BY <1>2, DecideCalm
  <1>3. CASE AfterRouterOrContent(p)
    BY <1>3, AfterRouterOrContentCalm
  <1>4. CASE AfterState(p)
    BY <1>4, AfterStateCalm
  <1>5. CASE CountPlans(p)
    BY <1>5, CountPlansCalm
  <1>6. CASE InsertPlan(p)
    BY <1>6, InsertPlanCalm
  <1>7. CASE PlanUpdateStageState(p)
    BY <1>7, PlanUpdateStageStateCalm
  <1>8. CASE DispatchPlanner(p)
    BY <1>8, DispatchPlannerCalm
  <1>9. CASE PlannerAsks(p)
    BY <1>9, PlannerAsksCalm
  <1>10. CASE PlannerWrites(p)
    BY <1>10, PlannerWritesCalm
  <1>11. CASE PlannerSubmits(p)
    BY <1>11, PlannerSubmitsCalm
  <1>12. CASE DispatchExecutor(p)
    BY <1>12, DispatchExecutorCalm
  <1>13. CASE ExecutorMakes(p)
    BY <1>13, ExecutorMakesCalm
  <1>14. CASE ExecutorMisses(p)
    BY <1>14, ExecutorMissesCalm
  <1>15. CASE ExecutorAttaches(p)
    BY <1>15, ExecutorAttachesCalm
  <1>16. CASE ExecutorSubmits(p)
    BY <1>16, ExecutorSubmitsCalm
  <1>17. QED
    BY <1>1, <1>2, <1>3, <1>4, <1>5, <1>6, <1>7, <1>8, <1>9, <1>10, <1>11, <1>12, <1>13,
       <1>14, <1>15, <1>16 DEF Step

\* A fault is never undone.
LEMMA FaultCounts ==
    ASSUME RestKept, Fault
    PROVE  faults' # 0
  BY DEF RestKept, Fault

LEMMA NextCalm ==
    ASSUME ChatInv, faults = 0 => CalmInv, [PipelineNext]_pipelineVars, faults' = 0
    PROVE  CalmInv'
  <1>1. RestKept
    BY DEF ChatInv
  <1>2. CASE UNCHANGED pipelineVars
    <2>1. UNCHANGED <<plans, turn, faults, shown>> /\ CalmInv
      BY <1>2 DEF pipelineVars
    <2>2. QED
      BY <2>1 DEF CalmInv, OneRuns, ApprovedSeen
  <1>3. ASSUME NEW p \in Process, Step(p) PROVE CalmInv'
    <2>1. UNCHANGED faults
      BY <1>3 DEF Step, OpenTurn, Decide, AfterRouterOrContent, AfterState, CountPlans, InsertPlan,
                  PlanUpdateStageState, DispatchPlanner, PlannerAsks, PlannerWrites,
                  PlannerSubmits, DispatchExecutor, ExecutorMakes, ExecutorMisses,
                  ExecutorAttaches, ExecutorSubmits
    <2>2. QED
      BY <1>3, <2>1, StepCalm
  <1>4. ASSUME NEW p \in Process, NEW m \in Message, UserSends(p, m) \/ LeaseLapses(p, m)
        PROVE  CalmInv'
    <2>1. UserSends(p, m)
      BY <1>1, <1>4, FaultCounts DEF LeaseLapses
    <2>2. UNCHANGED faults
      BY <2>1 DEF UserSends
    <2>3. QED
      BY <2>1, <2>2, UserSendsCalm
  <1>5. ASSUME NEW p \in Process,
               \/ PlannerStops(p) /\ Fault
               \/ Crash(p) \/ TurnFails(p) \/ SubAgentFails(p) \/ ToolFails(p)
        PROVE  CalmInv'
    <2>1. Fault
      BY <1>5 DEF Crash, TurnFails, SubAgentFails, ToolFails
    <2>2. QED
      BY <1>1, <2>1, FaultCounts
  <1>6. QED
    BY <1>2, <1>3, <1>4, <1>5 DEF PipelineNext

LEMMA InitCalm ==
    ASSUME PipelineInit
    PROVE  CalmInv
  BY DEF PipelineInit, CalmInv, OneRuns, AtRest, ApprovedSeen

\* While nothing fails, one turn of the chat runs at a time and it knows where
\* the latest plan stands, whatever it calls next: the second inductive invariant.
THEOREM CalmInvHolds == PipelineSpec => [](faults = 0 => CalmInv)
  <1> DEFINE CalmIfNothingFailed == faults = 0 => CalmInv
  <1>1. PipelineInit => CalmIfNothingFailed
    BY InitCalm
  <1>2. ChatInv /\ CalmIfNothingFailed /\ [PipelineNext]_pipelineVars => CalmIfNothingFailed'
    BY NextCalm
  <1> HIDE DEF CalmIfNothingFailed
  <1>3. PipelineSpec => []CalmIfNothingFailed
    BY <1>1, <1>2, ChatInvHolds, PTL DEF PipelineSpec
  <1>4. QED
    BY <1>3 DEF CalmIfNothingFailed

\* While nothing fails, no stage is started that no reply has presented.
THEOREM NothingUnseenHolds == PipelineSpec => []NothingStartsUnseen
  <1>1. (faults = 0 => CalmInv) => NothingStartsUnseen
    BY DEF CalmInv, ApprovedSeen, NothingStartsUnseen
  <1>2. QED
    BY <1>1, CalmInvHolds, PTL

\* While nothing fails, every turn leaves the latest plan finished or waiting for
\* an answer that the user can give.
THEOREM AwaitsUserHolds == PipelineSpec => []UnfinishedPlanAwaitsUser
  <1>1. ASSUME ChatInv, faults = 0 => CalmInv PROVE UnfinishedPlanAwaitsUser
    <2> SUFFICES ASSUME faults = 0, Running = {}, plans # <<>>
                 PROVE  \/ Questions # {}
                        \/ InState("waiting_user") \cup InState("blocked") # {}
                        \/ /\ Stages # <<>>
                           /\ \A s \in DOMAIN Stages : Stages[s].state \in First!TERMINAL
      BY DEF UnfinishedPlanAwaitsUser
    <2>1. \A p \in Process : turn[p] = Idle
      BY <1>1, NotRunning DEF ChatInv
    <2>2. AtRest(plans, shown)
      BY <1>1, <2>1 DEF CalmInv
    <2>3. Awaits(LatestOf(plans))
      BY <2>2 DEF AtRest
    <2>4. Stages = LatestOf(plans).stages /\ Questions = LatestOf(plans).open_questions
      BY DEF Stages, Questions, LatestOf, Latest
    <2>5. QED
      BY <2>3, <2>4 DEF Awaits, InState
  <1>2. QED
    BY <1>1, ChatInvHolds, CalmInvHolds, PTL

=============================================================================
