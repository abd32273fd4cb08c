--------------------------- MODULE EnginesProofs ---------------------------
(***************************************************************************)
(* Theorems of the engines that drive the stage machine: every write of a  *)
(* chat is a whole operation of the abstract plan, and the types of both   *)
(* engines side by side.                                                   *)
(***************************************************************************)
EXTENDS MCEngines, PipelineProofs, GraphProofs

-----------------------------------------------------------------------------
(* A row as the abstract plan sees it: its refs reduced to their kinds.     *)

AbstractRow(d) == [d EXCEPT !.stages = [s \in DOMAIN @ |-> ByKind(@[s])]]

\* The stages of an abstract row.
AbstractStages(stages) == [s \in DOMAIN stages |-> ByKind(stages[s])]

\* The fields of a stage as the abstract plan sees it.
LEMMA ByKindFields ==
    ASSUME NEW stage \in ChatStage
    PROVE  ByKind(stage) =
              [order |-> stage.order, state |-> stage.state, contract |-> stage.contract,
               refs |-> KindsOf(stage.refs), review_kind |-> stage.review_kind,
               questions |-> stage.questions, approved |-> stage.approved]
  BY DEF ByKind, KindsOf, ChatStage

\* The fields of an abstract row.
LEMMA AbstractFields ==
    ASSUME NEW d, RowKept(d)
    PROVE  /\ AbstractRow(d) =
                 [revision |-> d.revision, stages |-> AbstractStages(d.stages),
                  open_questions |-> d.open_questions]
           /\ DOMAIN AbstractStages(d.stages) = DOMAIN d.stages
  <1>1. d \in ChatRow
    BY DEF RowKept
  <1> DEFINE q == AbstractStages(d.stages)
  <1>2. AbstractRow(d) = [d EXCEPT !.stages = q]
    BY DEF AbstractRow, AbstractStages
  <1>3. DOMAIN q = DOMAIN d.stages
    BY DEF AbstractStages
  <1> HIDE DEF q
  <1>4. [d EXCEPT !.stages = q] =
           [revision |-> d.revision, stages |-> q, open_questions |-> d.open_questions]
    BY <1>1 DEF ChatRow
  <1>5. QED
    BY <1>2, <1>3, <1>4 DEF q

\* Writing one stage is writing the abstract stage.
LEMMA AbstractWithStage ==
    ASSUME NEW d, RowKept(d), NEW s \in DOMAIN d.stages, NEW stage \in ChatStage,
           NEW e, e = First!WithStage(d, s, stage), RowKept(e)
    PROVE  AbstractRow(e) = First!WithStage(AbstractRow(d), s, ByKind(stage))
  <1> DEFINE q == AbstractStages(d.stages)
             a == AbstractRow(d)
             w == [d.stages EXCEPT ![s] = stage]
             x == [q EXCEPT ![s] = ByKind(stage)]
  <1>1. /\ a.revision = d.revision /\ a.stages = q /\ a.open_questions = d.open_questions
    BY AbstractFields
  <1>2. e = [revision |-> d.revision + 1, stages |-> w, open_questions |-> d.open_questions]
    BY DEF First!WithStage, First!Written
  <1>3. AbstractStages(w) = x
    BY DEF AbstractStages
  <1> HIDE DEF w, x, q
  <1>4. e.revision = d.revision + 1 /\ e.stages = w /\ e.open_questions = d.open_questions
    BY <1>2
  <1>5. AbstractRow(e) =
           [revision |-> d.revision + 1, stages |-> x, open_questions |-> d.open_questions]
    BY <1>3, <1>4, AbstractFields
  <1>6. First!WithStage(a, s, ByKind(stage)) =
           [revision |-> a.revision + 1, stages |-> [a.stages EXCEPT ![s] = ByKind(stage)],
            open_questions |-> a.open_questions]
    BY DEF First!WithStage, First!Written
  <1>7. QED
    BY <1>1, <1>5, <1>6 DEF x

\* A move reads nothing of the refs but whether there are any, and changes none.
LEMMA AbstractMoved ==
    ASSUME NEW stage \in ChatStage, NEW target, NEW confirmed, NEW kind, NEW asked
    PROVE  /\ ByKind(First!Moved(stage, target, confirmed, kind, asked)) =
                 First!Moved(ByKind(stage), target, confirmed, kind, asked)
           /\ First!CheckTransition(ByKind(stage), target, confirmed, kind) <=>
                 First!CheckTransition(stage, target, confirmed, kind)
  <1> DEFINE a == ByKind(stage)
             k == KindsOf(stage.refs)
  <1>1. a = [order |-> stage.order, state |-> stage.state, contract |-> stage.contract,
             refs |-> k, review_kind |-> stage.review_kind,
             questions |-> stage.questions, approved |-> stage.approved]
    BY ByKindFields
  <1>2. a = [stage EXCEPT !.refs = k]
    BY DEF ByKind, KindsOf
  <1>3. k # {} <=> stage.refs # {}
    BY DEF KindsOf
  <1>4. /\ a.state = stage.state /\ a.contract = stage.contract
        /\ a.review_kind = stage.review_kind /\ (a.refs # {} <=> stage.refs # {})
    BY <1>1, <1>3
  <1>5. First!CheckTransition(a, target, confirmed, kind) <=>
           First!CheckTransition(stage, target, confirmed, kind)
    BY <1>4 DEF First!CheckTransition, First!ReviewKindMatches, First!ContractPresent,
                First!ReviewPassed, First!ResultsPresent
  <1>6. ByKind(First!Moved(stage, target, confirmed, kind, asked)) =
           First!Moved(a, target, confirmed, kind, asked)
    <2> DEFINE m == First!Moved(stage, target, confirmed, kind, asked)
    <2>1. ByKind(m) = [m EXCEPT !.refs = KindsOf(m.refs)]
      BY DEF ByKind, KindsOf
    <2>2. m.refs = stage.refs
      BY DEF First!Moved, ChatStage
    <2>3. ByKind(m) = [m EXCEPT !.refs = k]
      BY <2>1, <2>2
    <2> HIDE DEF k
    <2>4. [m EXCEPT !.refs = k] = First!Moved([stage EXCEPT !.refs = k], target, confirmed, kind, asked)
      BY DEF First!Moved, ChatStage
    <2>5. QED
      BY <1>2, <2>3, <2>4
  <1>7. QED
    BY <1>5, <1>6

\* One write of the abstract plan: what each operation of the flow does to it.
PlanWrite(a, b) ==
    /\ a.revision < MaxRevision
    /\ \/ \E c \in Contract : Len(a.stages) < MaxStages /\ b = First!Authored(a, c, Len(a.stages) + 1)
       \/ \E s \in DOMAIN a.stages, refs \in SUBSET Kind :
             First!CanAttach(a, s) /\ b = First!Attached(a, s, refs)
       \/ \E s \in DOMAIN a.stages, target \in First!StageState, confirmed \in BOOLEAN,
             kind \in {"plan_review", First!NoKind} :
             /\ First!CheckTransition(a.stages[s], target, confirmed, kind)
             /\ b = First!Updated(a, s, target, confirmed, kind, {})
       \/ b = First!Asked(a, {"audience"})
       \/ b = First!Cleared(a)

\* A write of row d is a write of the abstract row.
LEMMA UpdatedWrites ==
    ASSUME NEW d, RowKept(d), d.revision < MaxRevision, NEW s \in DOMAIN d.stages,
           NEW target \in First!StageState, NEW confirmed \in BOOLEAN,
           NEW kind \in {"plan_review", First!NoKind}, target = "done" => AllMade(d, s),
           First!CheckTransition(d.stages[s], target, confirmed, kind)
    PROVE  PlanWrite(AbstractRow(d), AbstractRow(First!Updated(d, s, target, confirmed, kind, {})))
  <1> DEFINE a == AbstractRow(d)
             stage == d.stages[s]
             m == First!Moved(stage, target, confirmed, kind, {})
             e == First!Updated(d, s, target, confirmed, kind, {})
  <1>1. stage \in ChatStage
    BY RowStages
  <1>2. m \in ChatStage
    BY <1>1 DEF First!Moved, ChatStage
  <1>3. RowKept(e) /\ e = First!WithStage(d, s, m)
    BY UpdatedAdvances DEF Advances, First!Updated
  <1>4. /\ a.revision = d.revision /\ DOMAIN a.stages = DOMAIN d.stages /\ a.stages[s] = ByKind(stage)
    BY AbstractFields DEF AbstractStages
  <1> HIDE DEF m, e, a
  <1>5. AbstractRow(e) = First!WithStage(a, s, ByKind(m))
    BY <1>2, <1>3, AbstractWithStage DEF a
  <1>6. /\ ByKind(m) = First!Moved(ByKind(stage), target, confirmed, kind, {})
        /\ First!CheckTransition(ByKind(stage), target, confirmed, kind)
    BY <1>1, AbstractMoved DEF m
  <1>7. AbstractRow(e) = First!Updated(a, s, target, confirmed, kind, {})
    BY <1>4, <1>5, <1>6 DEF First!Updated
  <1>8. QED
    BY <1>4, <1>6, <1>7 DEF PlanWrite, e, a

LEMMA AttachedWrites ==
    ASSUME NEW d, RowKept(d), d.revision < MaxRevision, NEW s \in DOMAIN d.stages,
           NEW made \in SUBSET Ref, First!CanAttach(d, s),
           KindsOf(made) \subseteq ItemKinds(d.stages[s]), Grounded(d, s)
    PROVE  PlanWrite(AbstractRow(d), AbstractRow(First!Attached(d, s, made)))
  <1> DEFINE a == AbstractRow(d)
             stage == d.stages[s]
             m == First!Extended(stage, made)
             e == First!Attached(d, s, made)
  <1>1. stage \in ChatStage /\ stage.state = "doing"
    BY RowStages DEF First!CanAttach
  <1>2. m \in ChatStage /\ m = [stage EXCEPT !.refs = stage.refs \cup made]
    BY <1>1 DEF First!Extended, ChatStage
  <1>3. RowKept(e) /\ e = First!WithStage(d, s, m)
    BY <1>1, AttachedAdvances DEF Advances, First!Attached
  <1>4. /\ a.revision = d.revision /\ DOMAIN a.stages = DOMAIN d.stages /\ a.stages[s] = ByKind(stage)
    BY AbstractFields DEF AbstractStages
  <1>5. KindsOf(made) \in SUBSET Kind
    BY DEF KindsOf, Ref
  <1>6. ByKind(m) = First!Extended(ByKind(stage), KindsOf(made))
    <2> DEFINE k == KindsOf(stage.refs)
               l == KindsOf(made)
    <2>1. KindsOf(stage.refs \cup made) = k \cup l
      BY DEF KindsOf
    <2>2. m.refs = stage.refs \cup made
      BY <1>1, <1>2 DEF ChatStage
    <2>3. ByKind(m) = [m EXCEPT !.refs = k \cup l]
      BY <2>1, <2>2 DEF ByKind, KindsOf
    <2>4. ByKind(stage) = [stage EXCEPT !.refs = k]
      BY DEF ByKind, KindsOf
    <2> HIDE DEF k, l, m
    <2>5. [m EXCEPT !.refs = k \cup l] = [stage EXCEPT !.refs = k \cup l]
      BY <1>2
    <2>6. First!Extended([stage EXCEPT !.refs = k], l) = [stage EXCEPT !.refs = k \cup l]
      BY <1>1 DEF First!Extended, ChatStage
    <2>7. QED
      BY <2>3, <2>4, <2>5, <2>6 DEF l
  <1> HIDE DEF m, e, a
  <1>7. AbstractRow(e) = First!WithStage(a, s, ByKind(m))
    BY <1>2, <1>3, AbstractWithStage DEF a
  <1>8. AbstractRow(e) = First!Attached(a, s, KindsOf(made))
    BY <1>4, <1>6, <1>7 DEF First!Attached
  <1>9. First!CanAttach(a, s)
    <2>1. ByKind(stage).state = "doing"
      BY <1>1, ByKindFields
    <2>2. QED
      BY <1>4, <2>1 DEF First!CanAttach
  <1>10. QED
    BY <1>4, <1>5, <1>8, <1>9 DEF PlanWrite, e, a

LEMMA AuthoredWrites ==
    ASSUME NEW d, RowKept(d), d.revision < MaxRevision, Len(d.stages) < MaxStages,
           NEW c \in Contract, c.input <= Len(d.stages), c.spec = 1 => c.input = 0
    PROVE  PlanWrite(AbstractRow(d), AbstractRow(First!Authored(d, c, Len(d.stages) + 1)))
  <1> DEFINE a == AbstractRow(d)
             n == Len(d.stages) + 1
             stage == First!NewStage(c, n)
             q == Append(d.stages, stage)
             e == First!Authored(d, c, n)
  <1>1. RowKept(e)
    BY AuthoredAdvances DEF Advances
  <1>2. e = [revision |-> d.revision + 1, stages |-> q, open_questions |-> d.open_questions]
    BY DEF First!Authored, First!Written
  <1>3. /\ a.revision = d.revision /\ a.stages = AbstractStages(d.stages)
        /\ a.open_questions = d.open_questions
    BY AbstractFields
  <1>4. /\ d.stages \in Seq(ChatStage) /\ Len(d.stages) \in Nat
        /\ DOMAIN d.stages = 1 .. Len(d.stages)
    BY RowStages
  <1>5. stage \in ChatStage
    BY <1>4 DEF First!NewStage, ChatStage, First!StageState
  <1>6. ByKind(stage) = stage
    <2>1. stage.refs = {} /\ KindsOf(stage.refs) = {}
      BY DEF First!NewStage, KindsOf
    <2>2. ByKind(stage) = [stage EXCEPT !.refs = {}]
      BY <2>1 DEF ByKind, KindsOf
    <2>3. QED
      BY <1>5, <2>1, <2>2 DEF First!NewStage
  <1> HIDE DEF stage
  <1>7. /\ AbstractStages(d.stages) \in Seq({ByKind(x) : x \in ChatStage})
        /\ Len(AbstractStages(d.stages)) = Len(d.stages)
        /\ DOMAIN AbstractStages(d.stages) = 1 .. Len(d.stages)
    <2> DEFINE f == AbstractStages(d.stages)
               T == {ByKind(x) : x \in ChatStage}
    <2>1. f = [s \in 1 .. Len(d.stages) |-> ByKind(d.stages[s])]
      BY <1>4 DEF AbstractStages
    <2>2. f \in [1 .. Len(d.stages) -> T]
      BY <1>4, <2>1
    <2> HIDE DEF f, T
    <2>3. f \in Seq(T) /\ DOMAIN f = 1 .. Len(d.stages)
      BY <1>4, <2>2, SeqDef
    <2>4. QED
      BY <1>4, <2>3 DEF f, T
  <1>8. AbstractStages(q) = Append(AbstractStages(d.stages), stage)
    <2> DEFINE f == AbstractStages(d.stages)
               g == Append(f, stage)
               T == {ByKind(x) : x \in ChatStage}
    <2>1. /\ Len(q) = n /\ DOMAIN q = 1 .. n /\ q[n] = stage
          /\ \A t \in 1 .. Len(d.stages) : q[t] = d.stages[t]
      BY <1>4, <1>5
    <2> HIDE DEF q
    <2>2. AbstractStages(q) = [t \in 1 .. n |-> ByKind(q[t])]
      BY <2>1 DEF AbstractStages
    <2>3. \A t \in 1 .. Len(d.stages) : f[t] = ByKind(d.stages[t])
      BY <1>4 DEF AbstractStages
    <2>4. stage \in T
      BY <1>5, <1>6
    <2> HIDE DEF f, T
    <2>5. /\ g \in Seq(T) /\ Len(g) = n /\ DOMAIN g = 1 .. n /\ g[n] = stage
          /\ \A t \in 1 .. Len(d.stages) : g[t] = f[t]
      BY <1>4, <1>7, <2>4 DEF f, T
    <2>6. g = [t \in 1 .. n |-> g[t]]
      <3>1. PICK m \in Nat : g \in [1 .. m -> T]
        <4>1. g \in UNION {[1 .. m -> T] : m \in Nat}
          BY <2>5, SeqDef, Zenon
        <4>2. QED
          BY <4>1
      <3>2. g = [t \in DOMAIN g |-> g[t]]
        BY <3>1
      <3>3. QED
        BY <2>5, <3>2
    <2> HIDE DEF g
    <2>7. \A t \in 1 .. n : g[t] = ByKind(q[t])
      <3> TAKE t \in 1 .. n
      <3>1. t \in 1 .. Len(d.stages) \/ t = n
        BY <1>4
      <3>2. QED
        BY <1>6, <2>1, <2>3, <2>5, <3>1
    <2>8. QED
      BY <2>2, <2>6, <2>7 DEF g, f
  <1> HIDE DEF q, e, a
  <1>9. e.revision = d.revision + 1 /\ e.stages = q /\ e.open_questions = d.open_questions
    BY <1>2
  <1>10. AbstractRow(e) = [revision |-> d.revision + 1,
                           stages |-> Append(AbstractStages(d.stages), stage),
                           open_questions |-> d.open_questions]
    BY <1>1, <1>8, <1>9, AbstractFields
  <1>11. Len(a.stages) + 1 = n /\ Len(a.stages) < MaxStages
    BY <1>3, <1>7
  <1>12. AbstractRow(e) = First!Authored(a, c, Len(a.stages) + 1)
    BY <1>3, <1>10, <1>11 DEF First!Authored, First!Written, stage
  <1>13. QED
    BY <1>3, <1>11, <1>12 DEF PlanWrite, e, a

LEMMA ClearedWrites ==
    ASSUME NEW d, RowKept(d), d.revision < MaxRevision
    PROVE  PlanWrite(AbstractRow(d), AbstractRow(First!Cleared(d)))
  <1> DEFINE a == AbstractRow(d)
             e == First!Cleared(d)
  <1>1. RowKept(e)
    BY ClearedAdvances DEF Advances
  <1>2. /\ a.revision = d.revision /\ a.stages = AbstractStages(d.stages)
        /\ a.open_questions = d.open_questions
    BY AbstractFields
  <1>3. e.revision = d.revision + 1 /\ e.stages = d.stages /\ e.open_questions = {}
    BY DEF First!Cleared, First!Written
  <1> HIDE DEF e, a
  <1>4. AbstractRow(e) = [revision |-> d.revision + 1, stages |-> AbstractStages(d.stages),
                          open_questions |-> {}]
    BY <1>1, <1>3, AbstractFields
  <1>5. AbstractRow(e) = First!Cleared(a)
    BY <1>2, <1>4 DEF First!Cleared, First!Written
  <1>6. QED
    BY <1>2, <1>5 DEF PlanWrite, e, a

LEMMA AskedWrites ==
    ASSUME NEW d, RowKept(d), d.revision < MaxRevision
    PROVE  PlanWrite(AbstractRow(d), AbstractRow(First!Asked(d, {"audience"})))
  <1> DEFINE a == AbstractRow(d)
             e == First!Asked(d, {"audience"})
             q == e.stages
             f == AbstractStages(d.stages)
             Reviewed(stage) == First!Moved(stage, "waiting_user", FALSE, "plan_review", {"audience"})
  <1>1. RowKept(e)
    BY AskedAdvances DEF Advances
  <1>2. /\ a.revision = d.revision /\ a.stages = f /\ a.open_questions = d.open_questions
        /\ DOMAIN f = DOMAIN d.stages
    BY AbstractFields
  <1>3. /\ e.revision = d.revision + 1 /\ e.open_questions = {"audience"}
        /\ q = [s \in DOMAIN d.stages |-> IF s \in First!FirstAuthoredPending(d)
                                         THEN Reviewed(d.stages[s]) ELSE d.stages[s]]
    BY DEF First!Asked, First!Written, First!StageIds
  <1>4. ASSUME NEW s \in DOMAIN d.stages
        PROVE  /\ f[s].state = d.stages[s].state /\ f[s].contract = d.stages[s].contract
               /\ f[s].order = d.stages[s].order
               /\ f[s] = ByKind(d.stages[s])
               /\ ByKind(Reviewed(d.stages[s])) = Reviewed(f[s])
    <2>1. d.stages[s] \in ChatStage
      BY RowStages
    <2>2. f[s] = ByKind(d.stages[s])
      BY DEF AbstractStages
    <2> DEFINE target == "waiting_user"
               confirmed == FALSE
    <2>3. ByKind(Reviewed(d.stages[s])) = Reviewed(ByKind(d.stages[s]))
      <3> HIDE DEF target, confirmed
      <3>1. ByKind(First!Moved(d.stages[s], target, confirmed, "plan_review", {"audience"})) =
               First!Moved(ByKind(d.stages[s]), target, confirmed, "plan_review", {"audience"})
        BY <2>1, AbstractMoved
      <3>2. QED
        BY <3>1 DEF target, confirmed
    <2>4. /\ ByKind(d.stages[s]).state = d.stages[s].state
          /\ ByKind(d.stages[s]).contract = d.stages[s].contract
          /\ ByKind(d.stages[s]).order = d.stages[s].order
      BY <2>1, ByKindFields
    <2> HIDE DEF f, Reviewed
    <2>5. QED
      BY <2>2, <2>3, <2>4
  <1> HIDE DEF f, a, e, Reviewed
  <1>5. First!AuthoredPending(a) = First!AuthoredPending(d)
    BY <1>2, <1>4 DEF First!AuthoredPending, First!StageIds
  <1>6. First!FirstAuthoredPending(a) = First!FirstAuthoredPending(d)
    <2>1. First!AuthoredPending(d) \subseteq DOMAIN d.stages
      BY DEF First!AuthoredPending, First!StageIds
    <2>2. \A s, t \in First!AuthoredPending(d) : First!Precedes(a, s, t) <=> First!Precedes(d, s, t)
      BY <1>2, <1>4, <2>1 DEF First!Precedes
    <2>3. QED
      BY <1>5, <2>2 DEF First!FirstAuthoredPending
  <1> DEFINE S == First!FirstAuthoredPending(d)
             g == [s \in DOMAIN d.stages |-> IF s \in S THEN Reviewed(f[s]) ELSE f[s]]
  <1> HIDE DEF S
  <1>7. AbstractStages(q) = g
    <2>1. q = [s \in DOMAIN d.stages |-> IF s \in S THEN Reviewed(d.stages[s]) ELSE d.stages[s]]
      BY <1>3 DEF S
    <2> HIDE DEF q
    <2>2. AbstractStages(q) = [s \in DOMAIN d.stages |-> ByKind(q[s])]
      BY <2>1 DEF AbstractStages
    <2>3. \A s \in DOMAIN d.stages : ByKind(q[s]) = IF s \in S THEN Reviewed(f[s]) ELSE f[s]
      BY <1>4, <2>1
    <2>4. QED
      BY <2>2, <2>3
  <1> HIDE DEF g
  <1>8. AbstractRow(e) = [revision |-> d.revision + 1, stages |-> g, open_questions |-> {"audience"}]
    BY <1>1, <1>3, <1>7, AbstractFields
  <1>9. First!Asked(a, {"audience"}) =
           [revision |-> a.revision + 1,
            stages |-> [s \in DOMAIN a.stages |->
                          IF s \in First!FirstAuthoredPending(a) THEN Reviewed(a.stages[s])
                          ELSE a.stages[s]],
            open_questions |-> {"audience"}]
    BY DEF First!Asked, First!Written, First!StageIds, Reviewed
  <1>10. AbstractRow(e) = First!Asked(a, {"audience"})
    BY <1>2, <1>6, <1>8, <1>9 DEF g, S
  <1>11. QED
    BY <1>2, <1>10 DEF PlanWrite, e, a

-----------------------------------------------------------------------------
(* Every step of the flow writes at most one row, by one operation of the   *)
(* abstract plan.                                                           *)

RowWritten(i) ==
    /\ i \in DOMAIN plans
    /\ plans' = [plans EXCEPT ![i] = plans'[i]]
    /\ PlanWrite(AbstractRow(plans[i]), AbstractRow(plans'[i]))

PlansStep ==
    \/ UNCHANGED plans
    \/ plans' = Append(plans, First!NewPlan)
    \/ \E i \in DOMAIN plans : RowWritten(i)

LEMMA WritesRow ==
    ASSUME PlansKept, NEW i \in DOMAIN plans, NEW d, Writes(i, d),
           PlanWrite(AbstractRow(plans[i]), AbstractRow(d))
    PROVE  RowWritten(i)
  <1>1. plans' = [plans EXCEPT ![i] = d]
    BY DEF Writes
  <1>2. plans'[i] = d
    BY <1>1 DEF PlansKept
  <1>3. QED
    BY <1>1, <1>2 DEF RowWritten

LEMMA MoveWrites ==
    ASSUME ChatInv, NEW p \in Process, PlanUpdateStageState(p)
    PROVE  PlansStep
  <1> DEFINE call == turn[p].call
             i == call.plan
             s == call.stage
             d == plans[i]
             e == First!Updated(d, s, call.target, call.user_confirmed, call.review_kind, {})
  <1>1. CallKept(plans, turn[p].say, call) /\ call.tool = "plan_update_stage_state"
    BY PerformedCall DEF PlanUpdateStageState
  <1>2. /\ i \in DOMAIN plans /\ call.target \in First!StageState
        /\ call.user_confirmed \in BOOLEAN /\ call.review_kind \in {"plan_review", First!NoKind}
        /\ call.target = "done" => s \in DOMAIN d.stages /\ AllMade(d, s)
    BY <1>1, CallFields
  <1>3. RowKept(d) /\ PlansKept
    BY <1>2 DEF ChatInv, PlansKept
  <1>4. CASE UNCHANGED plans
    BY <1>4 DEF PlansStep
  <1>5. CASE Allowed(call) /\ Writes(i, e)
    <2>1. /\ s \in DOMAIN d.stages /\ d.revision < MaxRevision
          /\ First!CheckTransition(d.stages[s], call.target, call.user_confirmed, call.review_kind)
      BY <1>5 DEF Allowed, Writes
    <2>2. PlanWrite(AbstractRow(d), AbstractRow(e))
      BY <1>2, <1>3, <2>1, UpdatedWrites
    <2> HIDE DEF e
    <2>3. QED
      BY <1>2, <1>3, <1>5, <2>2, WritesRow DEF PlansStep
  <1>6. QED
    BY <1>4, <1>5 DEF PlanUpdateStageState

LEMMA PlannerRowWrites ==
    ASSUME ChatInv, NEW p \in Process, DispatchPlanner(p) \/ PlannerAsks(p) \/ PlannerWrites(p)
    PROVE  PlansStep
  <1> DEFINE i == turn[p].call.plan
             d == plans[i]
  <1>1. i \in DOMAIN plans
    <2>1. CASE DispatchPlanner(p)
      <3>1. CallKept(plans, turn[p].say, turn[p].call) /\ turn[p].call.tool = "dispatch_planner"
        BY <2>1, PerformedCall DEF DispatchPlanner
      <3>2. PICK j \in DOMAIN plans, answers \in BOOLEAN : turn[p].call = Plan(j, answers)
        BY <3>1, CallFields
      <3>3. QED
        BY <3>2 DEF Plan
    <2>2. CASE turn[p].at = "planner"
      BY <2>2, PlannerTurn
    <2>3. QED
      BY <2>1, <2>2 DEF PlannerAsks, PlannerWrites
  <1>2. RowKept(d) /\ PlansKept
    BY <1>1 DEF ChatInv, PlansKept
  <1>3. CASE UNCHANGED plans
    BY <1>3 DEF PlansStep
  <1>4. CASE Writes(i, First!Cleared(d))
    <2>1. PlanWrite(AbstractRow(d), AbstractRow(First!Cleared(d)))
      BY <1>2, <1>4, ClearedWrites DEF Writes
    <2>2. QED
      BY <1>1, <1>2, <1>4, <2>1, WritesRow DEF PlansStep
  <1>5. CASE Writes(i, First!Asked(d, {"audience"}))
    <2>1. PlanWrite(AbstractRow(d), AbstractRow(First!Asked(d, {"audience"})))
      BY <1>2, <1>5, AskedWrites DEF Writes
    <2>2. QED
      BY <1>1, <1>2, <1>5, <2>1, WritesRow DEF PlansStep
  <1>6. CASE PlannerWrites(p)
    <2> DEFINE w == turn[p].run.written
               c == [spec |-> Len(w) + 1, input |-> Consumes(w)]
               e == First!Authored(d, c, Len(d.stages) + 1)
    <2>1. Writes(i, e) /\ Len(d.stages) < MaxStages /\ d.revision < MaxRevision
      BY <1>6 DEF PlannerWrites, Writes
    <2>2. c \in Contract /\ c.input <= Len(d.stages) /\ (c.spec = 1 => c.input = 0)
      BY <1>6, ContractWritten
    <2> HIDE DEF c
    <2>3. PlanWrite(AbstractRow(d), AbstractRow(e))
      BY <1>2, <2>1, <2>2, AuthoredWrites
    <2> HIDE DEF e
    <2>4. QED
      BY <1>1, <1>2, <2>1, <2>3, WritesRow DEF PlansStep
  <1>7. QED
    BY <1>3, <1>4, <1>5, <1>6 DEF DispatchPlanner, PlannerAsks

LEMMA AttachWrites ==
    ASSUME ChatInv, NEW p \in Process, ExecutorAttaches(p)
    PROVE  PlansStep
  <1> DEFINE i == turn[p].call.plan
             s == turn[p].call.stage
             d == plans[i]
             made == turn[p].run.made
  <1>1. turn[p].at = "executor"
    BY DEF ExecutorAttaches
  <1>2. /\ i \in DOMAIN plans /\ RowKept(d) /\ s \in DOMAIN d.stages
        /\ RunKept(d, s, turn[p].run) /\ PlansKept
    BY <1>1, ExecutorTurn DEF ChatInv
  <1>3. CASE UNCHANGED plans
    BY <1>3 DEF PlansStep
  <1>4. CASE made # {} /\ First!CanAttach(d, s) /\ Writes(i, First!Attached(d, s, made))
    <2>1. /\ made \in SUBSET Ref /\ KindsOf(made) \subseteq ItemKinds(d.stages[s])
          /\ Grounded(d, s)
      BY <1>2, <1>4 DEF RunKept
    <2>2. d.revision < MaxRevision
      BY <1>4 DEF Writes
    <2>3. PlanWrite(AbstractRow(d), AbstractRow(First!Attached(d, s, made)))
      BY <1>2, <1>4, <2>1, <2>2, AttachedWrites
    <2>4. QED
      BY <1>2, <1>4, <2>3, WritesRow DEF PlansStep
  <1>5. QED
    BY <1>3, <1>4 DEF ExecutorAttaches

LEMMA NextWrites ==
    ASSUME ChatInv, [PipelineNext]_pipelineVars
    PROVE  PlansStep
  <1>1. CASE UNCHANGED pipelineVars
    BY <1>1 DEF pipelineVars, PlansStep
  <1>2. ASSUME NEW p \in Process, Step(p) PROVE PlansStep
    <2>1. CASE InsertPlan(p)
      BY <2>1 DEF InsertPlan, PlansStep
    <2>2. CASE PlanUpdateStageState(p)
      BY <2>2, MoveWrites
    <2>3. CASE DispatchPlanner(p) \/ PlannerAsks(p) \/ PlannerWrites(p)
      BY <2>3, PlannerRowWrites
    <2>4. CASE ExecutorAttaches(p)
      BY <2>4, AttachWrites
    <2>5. CASE OpenTurn(p) \/ Decide(p) \/ AfterRouterOrContent(p) \/ AfterState(p)
               \/ CountPlans(p) \/ PlannerSubmits(p) \/ DispatchExecutor(p)
               \/ ExecutorMakes(p) \/ ExecutorMisses(p) \/ ExecutorSubmits(p)
      BY <2>5 DEF PlansStep, OpenTurn, Decide, AfterRouterOrContent, AfterState, CountPlans,
                  PlannerSubmits, DispatchExecutor, ExecutorMakes, ExecutorMisses, ExecutorSubmits
    <2>6. QED
      BY <1>2, <2>1, <2>2, <2>3, <2>4, <2>5 DEF Step
  <1>3. ASSUME NEW p \in Process,
               \/ \E m \in Message : UserSends(p, m) \/ LeaseLapses(p, m)
               \/ PlannerStops(p) /\ Fault
               \/ Crash(p) \/ TurnFails(p) \/ SubAgentFails(p) \/ ToolFails(p)
        PROVE  PlansStep
    BY <1>3 DEF PlansStep, UserSends, LeaseLapses, Send, PlannerStops, Crash, TurnFails,
                SubAgentFails, ToolFails
  <1>4. QED
    BY <1>1, <1>2, <1>3 DEF PipelineNext

-----------------------------------------------------------------------------
(* The abstract plans.                                                      *)

\* The abstract plans change by one write, or not at all.
LEMMA AbstractStep ==
    ASSUME PlansKept, PlansKept', PlansStep, NEW j \in Nat
    PROVE  Abstract(j)' = Abstract(j) \/ PlanWrite(Abstract(j), Abstract(j)')
  <1> DEFINE empty == [revision |-> 0, stages |-> <<>>, open_questions |-> {}]
  <1>1. /\ Abstract(j) = IF j \notin DOMAIN plans THEN empty ELSE AbstractRow(plans[j])
        /\ Abstract(j)' = IF j \notin DOMAIN plans' THEN empty ELSE AbstractRow(plans'[j])
    BY DEF Abstract, AbstractRow
  <1>2. CASE UNCHANGED plans
    BY <1>1, <1>2
  <1>3. CASE plans' = Append(plans, First!NewPlan)
    <2>1. First!NewPlan \in ChatRow /\ plans \in Seq(ChatRow)
      BY NewPlanKept DEF RowKept, PlansKept
    <2>2. /\ DOMAIN plans = 1 .. Len(plans) /\ DOMAIN plans' = 1 .. Len(plans) + 1
          /\ \A i \in DOMAIN plans : plans'[i] = plans[i]
          /\ plans'[Len(plans) + 1] = First!NewPlan /\ Len(plans) \in Nat
      BY <1>3, <2>1
    <2>3. AbstractRow(First!NewPlan) = empty
      <3>1. AbstractStages(<<>>) = <<>>
        BY DEF AbstractStages
      <3>2. First!NewPlan.stages = <<>> /\ First!NewPlan.revision = 0
            /\ First!NewPlan.open_questions = {}
        BY DEF First!NewPlan
      <3>3. QED
        BY <3>1, <3>2, NewPlanKept, AbstractFields
    <2> HIDE DEF empty
    <2>4. CASE j \in DOMAIN plans
      BY <1>1, <2>2, <2>4
    <2>5. CASE j \notin DOMAIN plans /\ j \in DOMAIN plans'
      <3>1. j = Len(plans) + 1
        BY <2>2, <2>5
      <3>2. QED
        BY <1>1, <2>2, <2>3, <2>5, <3>1
    <2>6. CASE j \notin DOMAIN plans /\ j \notin DOMAIN plans'
      BY <1>1, <2>6
    <2>7. QED
      BY <2>2, <2>4, <2>5, <2>6
  <1>4. ASSUME NEW i \in DOMAIN plans, RowWritten(i)
        PROVE  Abstract(j)' = Abstract(j) \/ PlanWrite(Abstract(j), Abstract(j)')
    <2>1. /\ DOMAIN plans' = DOMAIN plans
          /\ \A l \in DOMAIN plans : l # i => plans'[l] = plans[l]
      BY <1>4 DEF RowWritten, PlansKept
    <2> HIDE DEF empty
    <2>2. CASE j = i
      BY <1>1, <1>4, <2>1, <2>2 DEF RowWritten
    <2>3. CASE j # i
      BY <1>1, <2>1, <2>3
    <2>4. QED
      BY <2>2, <2>3
  <1>5. QED
    BY <1>2, <1>3, <1>4 DEF PlansStep

\* The operations are the same of either plan.
LEMMA SameOperations ==
    /\ \A a, c, o : Second!Authored(a, c, o) = First!Authored(a, c, o)
    /\ \A a, s, refs : Second!Attached(a, s, refs) = First!Attached(a, s, refs)
    /\ \A a, s, target, confirmed, kind, asked :
          Second!Updated(a, s, target, confirmed, kind, asked) =
             First!Updated(a, s, target, confirmed, kind, asked)
    /\ \A a, asked : Second!Asked(a, asked) = First!Asked(a, asked)
    /\ \A a : Second!Cleared(a) = First!Cleared(a)
    /\ \A a, s : Second!CanAttach(a, s) <=> First!CanAttach(a, s)
    /\ \A stage, target, confirmed, kind :
          Second!CheckTransition(stage, target, confirmed, kind) <=>
             First!CheckTransition(stage, target, confirmed, kind)
  <1>1. \A a, c, o : Second!Authored(a, c, o) = First!Authored(a, c, o)
    BY DEF First!Authored, Second!Authored, First!Written, Second!Written, First!NewStage,
           Second!NewStage, First!NoKind, Second!NoKind
  <1>2. \A a, s, refs : Second!Attached(a, s, refs) = First!Attached(a, s, refs)
    BY DEF First!Attached, Second!Attached, First!WithStage, Second!WithStage, First!Written,
           Second!Written, First!Extended, Second!Extended
  <1>3. \A a, s, target, confirmed, kind, asked :
          Second!Updated(a, s, target, confirmed, kind, asked) =
             First!Updated(a, s, target, confirmed, kind, asked)
    BY DEF First!Updated, Second!Updated, First!WithStage, Second!WithStage, First!Written,
           Second!Written, First!Moved, Second!Moved, First!NoKind, Second!NoKind
  <1>4. \A a, asked : Second!Asked(a, asked) = First!Asked(a, asked)
    BY DEF First!Asked, Second!Asked, First!Written, Second!Written, First!Moved, Second!Moved,
           First!NoKind, Second!NoKind, First!StageIds, Second!StageIds,
           First!FirstAuthoredPending, Second!FirstAuthoredPending, First!AuthoredPending,
           Second!AuthoredPending, First!Precedes, Second!Precedes
  <1>5. \A a : Second!Cleared(a) = First!Cleared(a)
    BY DEF First!Cleared, Second!Cleared, First!Written, Second!Written
  <1>6. \A a, s : Second!CanAttach(a, s) <=> First!CanAttach(a, s)
    BY DEF First!CanAttach, Second!CanAttach
  <1>7. \A stage, target, confirmed, kind :
          Second!CheckTransition(stage, target, confirmed, kind) <=>
             First!CheckTransition(stage, target, confirmed, kind)
    BY DEF First!CheckTransition, Second!CheckTransition, First!ReviewKindMatches,
           Second!ReviewKindMatches, First!ContractPresent, Second!ContractPresent,
           First!ReviewPassed, Second!ReviewPassed, First!ResultsPresent, Second!ResultsPresent,
           First!TRANSITIONS, Second!TRANSITIONS
  <1>8. QED
    BY <1>1, <1>2, <1>3, <1>4, <1>5, <1>6, <1>7

\* A write of the chat's first abstract plan is a step of Plan.
LEMMA FirstStep ==
    ASSUME PlanWrite(Abstract(1), Abstract(1)')
    PROVE  First!PlanNext
  <1> DEFINE a == Abstract(1)
             b == Abstract(1)'
  <1>1. a.revision < MaxRevision
    BY DEF PlanWrite
  <1>2. CASE \E c \in Contract : Len(a.stages) < MaxStages /\ b = First!Authored(a, c, Len(a.stages) + 1)
    <2>1. PICK c \in Contract : Len(a.stages) < MaxStages /\ b = First!Authored(a, c, Len(a.stages) + 1)
      BY <1>2
    <2>2. First!AuthorStage(c, Len(a.stages) + 1)
      BY <1>1, <2>1, SameOperations DEF First!AuthorStage, First!Writable
    <2>3. Len(a.stages) + 1 \in First!Orders(a)
      BY DEF First!Orders
    <2>4. QED
      BY <2>1, <2>2, <2>3 DEF First!PlanNext
  <1>3. CASE \E s \in DOMAIN a.stages, refs \in SUBSET Kind :
                First!CanAttach(a, s) /\ b = First!Attached(a, s, refs)
    <2>1. PICK s \in DOMAIN a.stages, refs \in SUBSET Kind :
             First!CanAttach(a, s) /\ b = First!Attached(a, s, refs)
      BY <1>3
    <2>2. First!AttachRuntime(s, refs)
      BY <1>1, <2>1, SameOperations DEF First!AttachRuntime, First!Writable
    <2>3. QED
      BY <2>1, <2>2 DEF First!PlanNext, First!StageIds
  <1>4. CASE \E s \in DOMAIN a.stages, target \in First!StageState, confirmed \in BOOLEAN,
                kind \in {"plan_review", First!NoKind} :
                /\ First!CheckTransition(a.stages[s], target, confirmed, kind)
                /\ b = First!Updated(a, s, target, confirmed, kind, {})
    <2>1. PICK s \in DOMAIN a.stages, target \in First!StageState, confirmed \in BOOLEAN,
               kind \in {"plan_review", First!NoKind} :
             /\ First!CheckTransition(a.stages[s], target, confirmed, kind)
             /\ b = First!Updated(a, s, target, confirmed, kind, {})
      BY <1>4
    <2>2. First!UpdateStageState(s, target, confirmed, kind, {})
      BY <1>1, <2>1, SameOperations DEF First!UpdateStageState, First!Writable
    <2>3. /\ s \in First!StageIds(a) /\ target \in First!StageState
          /\ kind \in First!ReviewKind \cup {First!NoKind} /\ {} \in SUBSET {"audience"}
      BY <2>1 DEF First!StageState, First!NoKind, First!StageIds, First!StageState, First!ReviewKind, First!NoKind
    <2>4. QED
      BY <2>1, <2>2, <2>3 DEF First!PlanNext
  <1>5. CASE b = First!Asked(a, {"audience"})
    <2>1. First!AskUser({"audience"})
      BY <1>1, <1>5, SameOperations DEF First!AskUser, First!Writable
    <2>2. QED
      BY <2>1 DEF First!PlanNext
  <1>6. CASE b = First!Cleared(a)
    <2>1. First!ClearQuestions
      BY <1>1, <1>6, SameOperations DEF First!ClearQuestions, First!Writable
    <2>2. QED
      BY <2>1 DEF First!PlanNext
  <1>7. QED
    BY <1>2, <1>3, <1>4, <1>5, <1>6 DEF PlanWrite

\* A write of the chat's second abstract plan is a step of Plan.
LEMMA SecondStep ==
    ASSUME PlanWrite(Abstract(2), Abstract(2)')
    PROVE  Second!PlanNext
  <1> DEFINE a == Abstract(2)
             b == Abstract(2)'
  <1>1. a.revision < MaxRevision
    BY DEF PlanWrite
  <1>2. CASE \E c \in Contract : Len(a.stages) < MaxStages /\ b = First!Authored(a, c, Len(a.stages) + 1)
    <2>1. PICK c \in Contract : Len(a.stages) < MaxStages /\ b = First!Authored(a, c, Len(a.stages) + 1)
      BY <1>2
    <2>2. Second!AuthorStage(c, Len(a.stages) + 1)
      BY <1>1, <2>1, SameOperations DEF Second!AuthorStage, Second!Writable
    <2>3. Len(a.stages) + 1 \in Second!Orders(a)
      BY DEF Second!Orders
    <2>4. QED
      BY <2>1, <2>2, <2>3 DEF Second!PlanNext
  <1>3. CASE \E s \in DOMAIN a.stages, refs \in SUBSET Kind :
                First!CanAttach(a, s) /\ b = First!Attached(a, s, refs)
    <2>1. PICK s \in DOMAIN a.stages, refs \in SUBSET Kind :
             First!CanAttach(a, s) /\ b = First!Attached(a, s, refs)
      BY <1>3
    <2>2. Second!AttachRuntime(s, refs)
      BY <1>1, <2>1, SameOperations DEF Second!AttachRuntime, Second!Writable
    <2>3. QED
      BY <2>1, <2>2 DEF Second!PlanNext, Second!StageIds
  <1>4. CASE \E s \in DOMAIN a.stages, target \in First!StageState, confirmed \in BOOLEAN,
                kind \in {"plan_review", First!NoKind} :
                /\ First!CheckTransition(a.stages[s], target, confirmed, kind)
                /\ b = First!Updated(a, s, target, confirmed, kind, {})
    <2>1. PICK s \in DOMAIN a.stages, target \in First!StageState, confirmed \in BOOLEAN,
               kind \in {"plan_review", First!NoKind} :
             /\ First!CheckTransition(a.stages[s], target, confirmed, kind)
             /\ b = First!Updated(a, s, target, confirmed, kind, {})
      BY <1>4
    <2>2. Second!UpdateStageState(s, target, confirmed, kind, {})
      BY <1>1, <2>1, SameOperations DEF Second!UpdateStageState, Second!Writable
    <2>3. /\ s \in Second!StageIds(a) /\ target \in Second!StageState
          /\ kind \in Second!ReviewKind \cup {Second!NoKind} /\ {} \in SUBSET {"audience"}
      BY <2>1 DEF First!StageState, First!NoKind, Second!StageIds, Second!StageState, Second!ReviewKind, Second!NoKind
    <2>4. QED
      BY <2>1, <2>2, <2>3 DEF Second!PlanNext
  <1>5. CASE b = First!Asked(a, {"audience"})
    <2>1. Second!AskUser({"audience"})
      BY <1>1, <1>5, SameOperations DEF Second!AskUser, Second!Writable
    <2>2. QED
      BY <2>1 DEF Second!PlanNext
  <1>6. CASE b = First!Cleared(a)
    <2>1. Second!ClearQuestions
      BY <1>1, <1>6, SameOperations DEF Second!ClearQuestions, Second!Writable
    <2>2. QED
      BY <2>1 DEF Second!PlanNext
  <1>7. QED
    BY <1>2, <1>3, <1>4, <1>5, <1>6 DEF PlanWrite

\* Whatever the user says, whichever process answers and whatever fails, the
\* chat's plans change by whole operations of the abstract plan.
THEOREM PlansImplementHolds == PipelineSpec => PlansImplementPlan
  <1>1. ASSUME PipelineInit PROVE First!PlanInit /\ Second!PlanInit
    <2>1. 1 \notin DOMAIN plans /\ 2 \notin DOMAIN plans
      BY <1>1 DEF PipelineInit
    <2>2. QED
      BY <2>1 DEF First!PlanInit, Second!PlanInit, First!NewPlan, Second!NewPlan, Abstract
  <1>2. ASSUME ChatInv, [PipelineNext]_pipelineVars
        PROVE  [plans' # plans =>
                   [First!PlanNext]_(Abstract(1)) /\ [Second!PlanNext]_(Abstract(2))]_plans
    <2>1. PlansStep /\ PlansKept /\ PlansKept'
      BY <1>2, NextWrites, NextKept DEF ChatInv
    <2>2. Abstract(1)' = Abstract(1) \/ PlanWrite(Abstract(1), Abstract(1)')
      BY <2>1, AbstractStep
    <2>3. Abstract(2)' = Abstract(2) \/ PlanWrite(Abstract(2), Abstract(2)')
      BY <2>1, AbstractStep
    <2>4. QED
      BY <2>2, <2>3, FirstStep, SecondStep
  <1>3. QED
    BY <1>1, <1>2, ChatInvHolds, PTL DEF PipelineSpec, PlansImplementPlan

-----------------------------------------------------------------------------
(* Both engines.                                                            *)

\* The engines run side by side without touching each other's variables, so
\* the invariants of both hold together.
THEOREM EnginesInvHolds == EnginesSpec => [](ChatInv /\ GraphInv)
  <1>1. EnginesInit => ChatInv /\ GraphInv
    BY InitKept, GraphInitKept DEF EnginesInit
  <1>2. ASSUME ChatInv, GraphInv, [EnginesNext]_<<part, pipelineVars, graphVars>>
        PROVE  ChatInv' /\ GraphInv'
    <2>1. [PipelineNext]_pipelineVars /\ [GraphNext]_graphVars
      BY <1>2 DEF EnginesNext
    <2>2. QED
      BY <1>2, <2>1, NextKept, GraphStepKept
  <1>3. QED
    BY <1>1, <1>2, PTL DEF EnginesSpec

\* The variables of both engines have their types.
THEOREM EnginesTypeCorrect == EnginesSpec => []EnginesTypeOK
  <1>1. ChatInv /\ GraphInv => EnginesTypeOK
    BY ChatInvTypes, GraphInvTypes DEF EnginesTypeOK
  <1>2. QED
    BY <1>1, EnginesInvHolds, PTL

=============================================================================
