------------------------------ MODULE EvalSuite ------------------------------
(***************************************************************************)
(* A run of the evaluation suite: evals/runner.py, with the meters of      *)
(* trace.py and the judge.  Jobs run a few at a time; each plays its case, *)
(* is checked and perhaps judged.  An endpoint that fails makes a job an   *)
(* error, tried once more; one that refuses the account stops the suite.   *)
(***************************************************************************)
EXTENDS EvalChecks
LOCAL INSTANCE SequencesExt

CONSTANTS
    Job,            \* a case and an attempt
    Case,           \* the case of a job
    Behaviour,      \* what one turn of the agents may be
    Id,             \* the terms that look like ids
    Concurrency     \* how many jobs may run at a time

ASSUME CasesLoad ==
    \A j \in Job : \A e \in Range(Case[j].turns) \cup Case[j].final : NamesResolve(e)

IsSequence(s) == s \in Seq({s[i] : i \in DOMAIN s})

ASSUME SuiteAssumption ==
    /\ Concurrency \subseteq Nat
    /\ \A b \in Behaviour :
          "calls" \in DOMAIN b /\ IsSequence(b.calls) /\ IsSequence(b.own)
    /\ \A j \in Job :
          /\ IsSequence(Case[j].turns) /\ Case[j].judge \in BOOLEAN
          /\ \A i \in DOMAIN Case[j].turns : \A role \in DOMAIN Tools :
                IsSequence(Case[j].turns[i].calls[role].ordered)

VARIABLES
    job,       \* per job: where it is, and the case run it is in
    result,    \* results
    free,      \* permits of the semaphore
    refused,   \* the endpoint refused the account
    suite      \* how run_suite ended

evalVars == <<job, result, free, refused, suite>>

\* A job whose run has not played a turn, or is over.
Blank(at, tries) ==
    [at |-> at, tries |-> tries, turns |-> <<>>, held |-> TRUE, infra |-> FALSE, refused |-> FALSE]

Fresh(tries) == Blank("playing", tries)

Away(at) == Blank(at, 0)

Put(j, r) == job' = [job EXCEPT ![j] = r]

-----------------------------------------------------------------------------
(* CaseSession.send and _play.                                              *)

\* The finished runs of sub-agents, then what the orchestrator's own run, or
\* the SDK's error, still holds.
Recorded(b) ==
    [b EXCEPT !.calls = b.calls \o IF b.outcome = "crashed" THEN <<>> ELSE b.own]

\* The plan and the workspace only grow.
Follows(turns, b) ==
    turns # <<>> =>
        /\ Last(turns).workspace \subseteq b.workspace
        /\ \A p \in Last(turns).plan : \E q \in b.plan :
               q = p \/ q.revision > p.revision

Scripted(j) == Len(job[j].turns) < Len(Case[j].turns)

Crashed(j) == \E i \in DOMAIN job[j].turns : job[j].turns[i].outcome # "ok"

\* The user who approves whatever waits, until nothing does, a question is open
\* or a turn changed nothing.
Approves(j) ==
    LET turns == job[j].turns
        loops == Len(turns) - Len(Case[j].turns)
    IN
    /\ ~Scripted(j) /\ loops < Case[j].approve
    /\ \E p \in Last(turns).plan :
          /\ ~p.open_questions
          /\ \E s \in Range(p.stages) : s.state = "waiting_user"
          /\ loops > 0 => \A before \in turns[Len(turns) - 1].plan : before.revision # p.revision
    /\ loops > 0 => turns[Len(turns) - 1].plan # {}

PlaysOn(j) == ~Crashed(j) /\ (Scripted(j) \/ Approves(j))

\* A turn that ends.  Its checks see its own calls and state; an endpoint that
\* failed or refused under a sub-agent is only a result of the dispatch, and on
\* the meter.
Send(j) ==
    \E b \in Behaviour, meter \in {"clean", "infra", "refused"} :
        LET turn == Recorded(b)
            n == Len(job[j].turns) + 1
        IN
        /\ job[j].at = "playing" /\ PlaysOn(j) /\ Follows(job[j].turns, b)
        /\ Put(j, [job[j] EXCEPT
              !.turns = Append(@, turn),
              !.held = @ /\ turn.outcome = "ok"
                         /\ (Scripted(j) => Evaluate(Case[j].turns[n], turn.calls, turn)),
              !.infra = @ \/ meter = "infra",
              !.refused = @ \/ meter = "refused"])
        /\ UNCHANGED <<result, free, refused, suite>>

-----------------------------------------------------------------------------
(* run_case and the job around it.                                          *)

\* The first error is tried again with a fresh run and meter.
Scored(j, status) ==
    IF status = "error" /\ job[j].tries = 1
    THEN Put(j, Fresh(2)) /\ UNCHANGED <<result, free, refused, suite>>
    ELSE /\ Put(j, Blank("done", job[j].tries))
         /\ result' = [result EXCEPT ![j] = status]
         /\ free' = free + 1
         /\ UNCHANGED <<refused, suite>>

Refuse(j) ==
    /\ Put(j, Away("refused"))
    /\ refused' = TRUE
    /\ free' = free + 1
    /\ UNCHANGED <<result, suite>>

\* The endpoint fails, or refuses, under the orchestrator itself.
EndpointFails(j) == job[j].at = "playing" /\ PlaysOn(j) /\ Scored(j, "error")

EndpointRefuses(j) == job[j].at = "playing" /\ PlaysOn(j) /\ Refuse(j)

\* The plans whose creation was recorded, as they are now.
Plans(turns) ==
    {p \in UNION {turns[i].plan : i \in DOMAIN turns} :
        /\ \A i \in DOMAIN turns : \A q \in turns[i].plan : q.id = p.id => q.revision <= p.revision
        /\ \E i \in DOMAIN turns : \E k \in DOMAIN turns[i].calls :
              turns[i].calls[k].name = "plan_create" /\ turns[i].calls[k].plan_id = p.id}

Grounded(j) == Case[j].grounded => Invented(job[j].turns, Plans(job[j].turns), Id) = {}

Held(j) ==
    /\ job[j].held
    /\ \/ Crashed(j)
       \/ \A final \in Case[j].final : Evaluate(final, AllCalls(job[j].turns), Last(job[j].turns))
    /\ Grounded(j)

Checked_MeterUnread(j) ==
    /\ job[j].at = "playing" /\ ~PlaysOn(j)
    /\ IF Held(j) /\ Case[j].judge
       THEN Put(j, [job[j] EXCEPT !.at = "judging"]) /\ UNCHANGED <<result, free, refused, suite>>
       ELSE Scored(j, IF Held(j) THEN "passed" ELSE "failed")

\* What the meter saw comes before any check; only a case that held is judged.
Checked(j) ==
    /\ job[j].at = "playing" /\ ~PlaysOn(j)
    /\ CASE job[j].refused -> Refuse(j)
         [] ~job[j].refused /\ job[j].infra -> Scored(j, "error")
         [] OTHER ->
              IF Held(j) /\ Case[j].judge
              THEN /\ Put(j, [job[j] EXCEPT !.at = "judging"])
                   /\ UNCHANGED <<result, free, refused, suite>>
              ELSE Scored(j, IF Held(j) THEN "passed" ELSE "failed")

\* verdict_result; a judge that would not submit, or whose endpoint failed; one
\* that was refused.
Judged(j) ==
    /\ job[j].at = "judging"
    /\ Refuse(j) \/ \E status \in {"passed", "failed", "error"} : Scored(j, status)

\* Anything else a judge raises (MaxTurnsExceeded) ends the suite.
JudgeRaises(j) ==
    /\ job[j].at = "judging"
    /\ suite' = "raised"
    /\ Put(j, Away("raised"))
    /\ UNCHANGED <<result, free, refused>>

\* async with gate; after a refusal a job that gets the permit leaves at once.
Start(j) ==
    /\ job[j].at = "queued" /\ free > 0
    /\ IF refused THEN Put(j, Away("skipped")) /\ UNCHANGED free
       ELSE Put(j, Fresh(1)) /\ free' = free - 1
    /\ UNCHANGED <<result, refused, suite>>

\* gather is over: SuiteAborted, and no report, or the results.
SuiteEnds ==
    /\ \A j \in Job : job[j].at \in {"done", "skipped", "refused"}
    /\ suite' = IF refused THEN "aborted" ELSE "reported"
    /\ UNCHANGED <<job, result, free, refused>>

-----------------------------------------------------------------------------
EvalInit ==
    /\ job = [j \in Job |-> Away("queued")]
    /\ result = [j \in Job |-> "none"]
    /\ free \in Concurrency
    /\ refused = FALSE /\ suite = "running"

EvalNext ==
    /\ suite = "running"
    /\ \/ SuiteEnds
       \/ \E j \in Job :
             \/ Start(j) \/ Send(j) \/ Checked(j) \/ Judged(j) \/ JudgeRaises(j)
             \/ EndpointFails(j) \/ EndpointRefuses(j)

EvalSpec == EvalInit /\ [][EvalNext]_evalVars

-----------------------------------------------------------------------------
EvalTypeOK ==
    /\ free \in Nat
    /\ suite \in {"running", "reported", "aborted", "raised"}
    /\ \A j \in Job :
          /\ result[j] \in {"none", "passed", "failed", "error"}
          /\ job[j].at \in
                {"queued", "playing", "judging", "done", "skipped", "refused", "raised"}
          /\ job[j].tries \in 0 .. 2

\* The declared meaning of "calls in order": places further and further on.
InOrder(wanted, calls, mine) ==
    \E place \in [DOMAIN wanted -> mine] :
        /\ \A i \in DOMAIN wanted : calls[place[i]].name = wanted[i]
        /\ \A i, k \in DOMAIN wanted : i < k => place[i] < place[k]

OrderClaimsHold(j) ==
    \A i \in DOMAIN Case[j].turns : \A role \in DOMAIN Tools :
        LET calls == job[j].turns[i].calls
            mine == {k \in DOMAIN calls : calls[k].role = role}
        IN InOrder(Case[j].turns[i].calls[role].ordered, calls, mine)

\* A report is about the agents and about every job.  A job passes or fails only
\* by a run under which no endpoint failed or refused; it passes only after every
\* scripted turn, none of them crashed, each as its claim says and no id invented;
\* it stays an error only after a second try; and a suite any of whose jobs was
\* refused, before or after others were scored, is never reported.
ReportIsWhole ==
    /\ [](/\ suite = "reported" =>
              \A j \in Job : result[j] # "none" /\ (result[j] = "error" => job[j].tries = 2)
          /\ (\E j \in Job : job[j].at \in {"refused", "skipped"}) => suite # "reported")
    /\ [][\A j \in Job : result'[j] # result[j] /\ result'[j] # "error" =>
              /\ ~job[j].infra /\ ~job[j].refused
              /\ result'[j] = "passed" =>
                    /\ ~Crashed(j) /\ ~Scripted(j) /\ OrderClaimsHold(j) /\ Grounded(j)
                    /\ Case[j].judge => job[j].at = "judging"]_evalVars
=============================================================================
