------------------------------ MODULE EvalChecks ------------------------------
(***************************************************************************)
(* What a case of the evaluation suite may claim (evals/cases.py) and how a *)
(* claim is held against what was recorded (evals/checks.py).  An optional  *)
(* part of a claim, and a plan that may not be there, is a set of at most   *)
(* one element; a text is the set of the terms and ids in it.               *)
(***************************************************************************)
EXTENDS Integers, Sequences, FiniteSets
LOCAL INSTANCE SequencesExt

CONSTANT Tools   \* per role, the names of its tools (ROLE_TOOLS)

\* The scope of the calls of all roles is none of them.
ASSUME RolesAssumption == "any" \notin DOMAIN Tools

Scopes == DOMAIN Tools \cup {"any"}

AnyRange == [min |-> {}, max |-> {}]

Holds(range, n) == (\A lo \in range.min : n >= lo) /\ (\A hi \in range.max : n <= hi)

\* The parts of a claim that are left out ask for nothing.
NoCalls == [includes |-> {}, excludes |-> {}, ordered |-> <<>>, counts |-> {}, args |-> {}]

NoPlanClaim ==
    [exists |-> {}, stages |-> {}, all_in |-> {}, any_in |-> {}, none_in |-> {},
     state_counts |-> {}, open_questions |-> {}, upstream_inputs |-> {}, sources |-> {}]

NoOutput == [contains_any |-> {}, contains_all |-> {}, excludes |-> {}, asks_question |-> {}]

Expect ==
    [route |-> {}, calls |-> [s \in Scopes |-> NoCalls], plan |-> NoPlanClaim,
     counts |-> {}, render_formats |-> {}, draft_tones |-> {}, output |-> NoOutput,
     interrupted |-> {}]

\* A case is loaded only if every tool it names is one the role could call; an
\* excluded tool need only exist.
NamesResolve(expect) ==
    \A scope \in Scopes :
        LET claim == expect.calls[scope]
            everything == UNION {Tools[role] : role \in DOMAIN Tools}
            held == IF scope = "any" THEN everything ELSE Tools[scope]
        IN
        /\ claim.includes \cup Range(claim.ordered) \cup {c.name : c \in claim.counts}
             \cup {a.tool : a \in claim.args} \subseteq held
        /\ claim.excludes \subseteq everything

-----------------------------------------------------------------------------
(* Calls.                                                                   *)

Routes(claim, calls) ==
    LET IsRouting(c) == c.role = "orchestrator" /\ c.name = "dispatch_router"
        routed == SelectSeq(calls, IsRouting)
    IN \A route \in claim : routed # <<>> /\ Last(routed).ok /\ Last(routed).route = route

\* _is_subsequence: one pass over those calls that are mine, for the name that is
\* wanted next; found[k] of the names are found after k calls.
IsSubsequence(wanted, calls, mine) ==
    \E found \in [0 .. Len(calls) -> 0 .. Len(wanted)] :
        /\ found[0] = 0 /\ found[Len(calls)] = Len(wanted)
        /\ \A k \in DOMAIN calls :
              LET n == found[k - 1] IN
              found[k] = IF k \in mine /\ n < Len(wanted) /\ calls[k].name = wanted[n + 1]
                         THEN n + 1 ELSE n

\* An argument has the terms of a text or list, or a number.
ValueMatches(m, value) ==
    CASE m.op = "equals" -> value = m.operand
      [] m.op = "one_of" -> value \in m.operand
      [] m.op = "contains" -> m.operand \in value.terms
      [] m.op = "min" -> \E n \in value.number : n >= m.operand
      [] m.op = "max" -> \E n \in value.number : n <= m.operand

Matches(match, arguments) ==
    \A m \in match : m.key \in DOMAIN arguments /\ ValueMatches(m, arguments[m.key])

ArgsMatch(claim, calls, mine) ==
    LET candidates == {i \in mine : calls[i].name = claim.tool}
        matched == {i \in candidates : Matches(claim.match, calls[i].arguments)}
    IN candidates # {} /\ IF claim.every THEN matched = candidates ELSE matched # {}

CallsHold(scope, claim, calls) ==
    LET mine == {i \in DOMAIN calls : scope = "any" \/ calls[i].role = scope}
        names == {calls[i].name : i \in mine}
        Count(name) == Cardinality({i \in mine : calls[i].name = name})
    IN
    /\ claim.includes \subseteq names
    /\ claim.excludes \cap names = {}
    /\ IsSubsequence(claim.ordered, calls, mine)
    /\ \A c \in claim.counts : Holds(c.range, Count(c.name))
    /\ \A a \in claim.args : ArgsMatch(a, calls, mine)

-----------------------------------------------------------------------------
(* Plan, workspace and reply.  No plan reads as a plan with no stages.      *)

PlanHolds(claim, plan) ==
    LET stages == UNION {Range(p.stages) : p \in plan}
        later == UNION {Range(Tail(p.stages)) : p \in {q \in plan : q.stages # <<>>}}
        InState(states) == {s \in stages : s.state \in states}
    IN
    /\ \A exists \in claim.exists : (plan # {}) = exists
    /\ \A range \in claim.stages : Holds(range, Cardinality(stages))
    /\ claim.all_in # {} => stages # {} /\ InState(claim.all_in) = stages
    /\ claim.any_in # {} => InState(claim.any_in) # {}
    /\ InState(claim.none_in) = {}
    /\ \A c \in claim.state_counts : Holds(c.range, Cardinality(InState({c.state})))
    /\ \A open \in claim.open_questions : (\E p \in plan : p.open_questions) = open
    /\ \A cites \in claim.sources : (\E s \in stages : s.sources # {}) = cites
    /\ \A asked \in claim.upstream_inputs : stages # {} /\ \A s \in later : s.inputs # {}

\* The tone of a draft, the format of a render.
AttributeHolds(allowed, kind, records) ==
    LET mine == {r \in records : r.kind = kind}
    IN allowed # {} => mine # {} /\ \A r \in mine : r.attribute \in allowed

WorkspaceHolds(expect, records) ==
    /\ \A c \in expect.counts : Holds(c.range, Cardinality({r \in records : r.kind = c.kind}))
    /\ AttributeHolds(expect.render_formats, "render", records)
    /\ AttributeHolds(expect.draft_tones, "draft", records)

OutputHolds(claim, output) ==
    /\ claim.contains_any # {} => claim.contains_any \cap output # {}
    /\ claim.contains_all \subseteq output
    /\ claim.excludes \cap output = {}
    /\ \A asks \in claim.asks_question : ("?" \in output) = asks

\* The orchestrator's own calls are recorded after those of its sub-agents.
Interrupted(turn) == \E i \in DOMAIN turn.calls :
    turn.calls[i].role = "orchestrator" /\ turn.calls[i].interrupt

\* The calls of the turns observed, and the state after the last of them.
Evaluate(expect, calls, last) ==
    /\ Routes(expect.route, calls)
    /\ \A scope \in Scopes : CallsHold(scope, expect.calls[scope], calls)
    /\ PlanHolds(expect.plan, last.plan)
    /\ WorkspaceHolds(expect, last.workspace)
    /\ OutputHolds(expect.output, last.output)
    /\ \A seen \in expect.interrupted : Interrupted(last) = seen

\* What a claim about a case is held against.
AllCalls(turns) == FlattenSeq([i \in DOMAIN turns |-> turns[i].calls])

-----------------------------------------------------------------------------
(* grounded_ids.                                                            *)

Known(turns, plans) ==
    UNION {{r.id : r \in turns[i].workspace} : i \in DOMAIN turns}
    \cup UNION {{p.id} \cup {s.id : s \in Range(p.stages)} : p \in plans}

\* Ids that a reply or an argument names and that are neither known nor the
\* user's own.
Invented(turns, plans, Id) ==
    LET named(turn) ==
            turn.output \cup UNION {UNION {turn.calls[i].arguments[k].terms :
                                             k \in DOMAIN turn.calls[i].arguments} :
                                      i \in DOMAIN turn.calls}
    IN (UNION {named(turns[i]) : i \in DOMAIN turns} \cap Id)
         \ (Known(turns, plans) \cup UNION {turns[i].user : i \in DOMAIN turns})
=============================================================================
