--------------------------- MODULE ServicesProofs ---------------------------
(***************************************************************************)
(* Theorems of the evaluation suite (for any cases, jobs and behaviours of *)
(* the agents), of the events of a turn (for any number of responses, calls *)
(* and other turns) and of the services together.                          *)
(***************************************************************************)
EXTENDS MCServices, MemoryProofs

-----------------------------------------------------------------------------
(* _is_subsequence.  A pass that finds every name takes each wanted name at *)
(* a call further on.                                                       *)

\* A pass over the calls that are mine, which finds all the names.
OnePass(found, wanted, calls, mine) ==
    /\ found \in [0 .. Len(calls) -> 0 .. Len(wanted)]
    /\ found[0] = 0 /\ found[Len(calls)] = Len(wanted)
    /\ \A k \in DOMAIN calls :
          found[k] = IF /\ k \in mine /\ found[k - 1] < Len(wanted)
                        /\ calls[k].name = wanted[found[k - 1] + 1]
                     THEN found[k - 1] + 1 ELSE found[k - 1]

\* Call k is where it finds the i-th.
Finds(found, wanted, calls, i, k) ==
    calls[k].name = wanted[i] /\ found[k] = i /\ \A l \in 0 .. k - 1 : found[l] < i

LEMMA SequenceDomain ==
    ASSUME NEW s, IsSequence(s)
    PROVE  Len(s) \in Nat /\ DOMAIN s = 1 .. Len(s)
  BY DEF IsSequence

\* The pass finds names one by one, so each is found at some call.
LEMMA FoundAt ==
    ASSUME NEW wanted, IsSequence(wanted), NEW calls, IsSequence(calls),
           NEW mine \in SUBSET DOMAIN calls,
           NEW found, OnePass(found, wanted, calls, mine), NEW i \in DOMAIN wanted
    PROVE  \E k \in mine : Finds(found, wanted, calls, i, k)
  <1> USE DEF OnePass
  <1> DEFINE T == {k \in 0 .. Len(calls) : found[k] >= i}
  <1>1. Len(calls) \in Nat /\ DOMAIN calls = 1 .. Len(calls)
    BY SequenceDomain
  <1>2. Len(wanted) \in Nat /\ i \in 1 .. Len(wanted)
    BY SequenceDomain
  <1>3. PICK k \in T : \A l \in T : k <= l
    <2>1. Len(calls) \in T /\ T \in SUBSET Nat
      BY <1>1, <1>2
    <2> HIDE DEF T
    <2> QED
      BY <2>1, LeastOf
  <1>4. k \in 1 .. Len(calls) /\ k - 1 \in 0 .. Len(calls)
    BY <1>1, <1>2, <1>3
  <1>5. ASSUME NEW l \in 0 .. k - 1 PROVE found[l] < i
    <2>1. l \in 0 .. Len(calls) /\ l < k /\ found[l] \in 0 .. Len(wanted)
      BY <1>1, <1>4
    <2> QED
      BY <1>2, <1>3, <1>4, <2>1
  <1>6. found[k - 1] \in Nat /\ found[k - 1] < i /\ found[k] \in Nat /\ found[k] >= i
    BY <1>1, <1>2, <1>3, <1>4, <1>5
  <1>7. /\ k \in mine /\ calls[k].name = wanted[found[k - 1] + 1]
        /\ found[k] = found[k - 1] + 1
    <2>1. found[k] # found[k - 1]
      BY <1>2, <1>6
    <2>2. k \in DOMAIN calls
      BY <1>1, <1>4
    <2> QED
      BY <2>1, <2>2
  <1>8. found[k - 1] + 1 = i
    BY <1>2, <1>6, <1>7
  <1> QED
    BY <1>3, <1>5, <1>7, <1>8 DEF Finds

\* So the names are there in order.
LEMMA SubsequenceInOrder ==
    ASSUME NEW wanted, IsSequence(wanted), NEW calls, IsSequence(calls),
           NEW mine \in SUBSET DOMAIN calls, IsSubsequence(wanted, calls, mine)
    PROVE  InOrder(wanted, calls, mine)
  <1>1. Len(calls) \in Nat /\ DOMAIN calls = 1 .. Len(calls)
    BY SequenceDomain
  <1>2. Len(wanted) \in Nat /\ DOMAIN wanted = 1 .. Len(wanted)
    BY SequenceDomain
  <1>3. PICK found : OnePass(found, wanted, calls, mine)
    BY DEF IsSubsequence, OnePass
  <1> DEFINE At(i, k) == Finds(found, wanted, calls, i, k)
             place == [i \in DOMAIN wanted |-> CHOOSE k \in mine : At(i, k)]
  <1>4. ASSUME NEW i \in DOMAIN wanted PROVE place[i] \in mine /\ At(i, place[i])
    <2>1. \E k \in mine : At(i, k)
      BY <1>3, FoundAt
    <2> QED
      BY <2>1
  <1>5. ASSUME NEW i \in DOMAIN wanted, NEW k \in DOMAIN wanted, i < k
        PROVE  place[i] < place[k]
    <2>1. place[i] \in 1 .. Len(calls) /\ place[k] \in 1 .. Len(calls)
      BY <1>1, <1>4
    <2>2. /\ found[place[i]] = i /\ found[place[k]] = k
          /\ \A l \in 0 .. place[i] - 1 : found[l] < i
      BY <1>4 DEF Finds
    <2> HIDE DEF place
    <2>3. ~(place[k] < place[i])
      BY <1>1, <1>2, <1>5, <2>1, <2>2
    <2>4. place[k] # place[i]
      BY <1>2, <1>5, <2>2
    <2> QED
      BY <1>1, <2>1, <2>3, <2>4
  <1>6. place \in [DOMAIN wanted -> mine] /\ \A i \in DOMAIN wanted : calls[place[i]].name = wanted[i]
    BY <1>4 DEF Finds
  <1> HIDE DEF place
  <1> QED
    BY <1>5, <1>6 DEF InOrder

-----------------------------------------------------------------------------
(* The suite.  A job's run is held as its claims say; what the judge is      *)
(* given has passed everything else; a job that is done has its result.      *)

Played == {Recorded(b) : b \in Behaviour}

JobRecord ==
    [at : {"queued", "playing", "judging", "done", "skipped", "refused", "raised"},
     tries : 0 .. 2, turns : Seq(Played), held : BOOLEAN, infra : BOOLEAN, refused : BOOLEAN]

Score == {"passed", "failed", "error"}

\* The scripted turns that were played: none crashed, and each as its claim says.
TurnsHold(j) ==
    /\ \A i \in DOMAIN job[j].turns : job[j].turns[i].outcome = "ok"
    /\ \A i \in DOMAIN job[j].turns : i <= Len(Case[j].turns) =>
          Evaluate(Case[j].turns[i], job[j].turns[i].calls, job[j].turns[i])

\* What only a judge could still change.
Sound(j) ==
    /\ ~job[j].infra /\ ~job[j].refused
    /\ ~Crashed(j) /\ ~Scripted(j) /\ OrderClaimsHold(j) /\ Grounded(j)

JobInv(j) ==
    /\ job[j].held => TurnsHold(j)
    /\ job[j].at \in {"playing", "judging"} => job[j].tries \in 1 .. 2
    /\ job[j].at = "judging" => Sound(j)
    /\ job[j].at = "done" =>
          result[j] # "none" /\ (result[j] = "error" => job[j].tries = 2)
    /\ job[j].at \in {"refused", "skipped"} => refused

EvalInv ==
    /\ job \in [Job -> JobRecord] /\ result \in [Job -> Score \cup {"none"}]
    /\ free \in Nat /\ refused \in BOOLEAN
    /\ suite \in {"running", "reported", "aborted", "raised"}
    /\ \A j \in Job : JobInv(j)
    /\ suite = "reported" => \A j \in Job : job[j].at = "done"

\* A recorded turn has the calls of its sub-agents, then the orchestrator's.
LEMMA RecordedCalls ==
    ASSUME NEW b \in Behaviour
    PROVE  IsSequence(Recorded(b).calls)
  <1>1. "calls" \in DOMAIN b /\ IsSequence(b.calls) /\ IsSequence(b.own)
    BY SuiteAssumption
  <1> DEFINE S == {b.calls[i] : i \in DOMAIN b.calls} \cup {b.own[i] : i \in DOMAIN b.own}
             t == IF b.outcome = "crashed" THEN <<>> ELSE b.own
             c == b.calls \o t
  <1>2. b.calls \in Seq(S) /\ b.own \in Seq(S)
    BY <1>1, SeqDef DEF IsSequence
  <1>3. t \in Seq(S)
    BY <1>2
  <1>4. c \in Seq(S)
    <2> HIDE DEF S, t
    <2> QED
      BY <1>2, <1>3
  <1>5. Recorded(b).calls = c
    BY <1>1 DEF Recorded
  <1>6. IsSequence(c)
    <2> HIDE DEF S, c
    <2> QED
      BY <1>4, SeqDef DEF IsSequence
  <1> QED
    BY <1>5, <1>6

\* Names in order, if every claim about the turns played holds.
LEMMA ClaimsInOrder ==
    ASSUME NEW j \in Job, job[j].turns \in Seq(Played), TurnsHold(j), ~Scripted(j)
    PROVE  OrderClaimsHold(j)
  <1> SUFFICES ASSUME NEW i \in DOMAIN Case[j].turns, NEW role \in DOMAIN Tools
               PROVE  LET calls == job[j].turns[i].calls
                          mine == {k \in DOMAIN calls : calls[k].role = role}
                      IN InOrder(Case[j].turns[i].calls[role].ordered, calls, mine)
    BY DEF OrderClaimsHold
  <1> DEFINE calls == job[j].turns[i].calls
             wanted == Case[j].turns[i].calls[role].ordered
             mine == {k \in DOMAIN calls : calls[k].role = role}
  <1>1. i \in 1 .. Len(Case[j].turns) /\ Len(Case[j].turns) \in Nat
    BY SuiteAssumption, SequenceDomain
  <1>2. i \in DOMAIN job[j].turns /\ i <= Len(Case[j].turns)
    BY <1>1 DEF Scripted
  <1>3. IsSequence(calls)
    BY <1>2, RecordedCalls DEF Played
  <1>4. IsSequence(wanted)
    BY SuiteAssumption
  <1>5. Evaluate(Case[j].turns[i], calls, job[j].turns[i])
    BY <1>2 DEF TurnsHold
  <1>6. role \in Scopes /\ role # "any"
    BY RolesAssumption DEF Scopes
  <1>7. CallsHold(role, Case[j].turns[i].calls[role], calls)
    <2> HIDE DEF calls
    <2> QED
      BY <1>5, <1>6 DEF Evaluate
  <1>8. mine = {k \in DOMAIN calls : role = "any" \/ calls[k].role = role}
    BY <1>6
  <1>9. IsSubsequence(wanted, calls, mine)
    <2> HIDE DEF calls, mine
    <2> QED
      BY <1>7, <1>8 DEF CallsHold
  <1>10. InOrder(wanted, calls, mine)
    <2>1. mine \in SUBSET DOMAIN calls
      OBVIOUS
    <2> HIDE DEF calls, wanted, mine
    <2> QED
      BY <1>3, <1>4, <1>9, <2>1, SubsequenceInOrder
  <1> QED
    BY <1>10

\* A run that plays no further turn and is held is sound.
LEMMA HeldIsSound ==
    ASSUME EvalInv, NEW j \in Job, job[j].held, ~PlaysOn(j), Grounded(j),
           ~job[j].infra, ~job[j].refused
    PROVE  Sound(j)
  <1>1. job[j].turns \in Seq(Played) /\ TurnsHold(j)
    BY DEF EvalInv, JobRecord, JobInv
  <1>2. ~Crashed(j) /\ ~Scripted(j)
    BY <1>1 DEF TurnsHold, Crashed, PlaysOn
  <1> QED
    BY <1>1, <1>2, ClaimsInOrder DEF Sound

\* A step of another job leaves a job's run and result alone.
LEMMA OthersKept ==
    ASSUME NEW j \in Job, JobInv(j), job'[j] = job[j], result'[j] = result[j],
           refused => refused'
    PROVE  JobInv(j)'
  <1>1. TurnsHold(j) => TurnsHold(j)'
    BY DEF TurnsHold
  <1>2. /\ Crashed(j)' <=> Crashed(j)
        /\ Scripted(j)' <=> Scripted(j)
    BY DEF Crashed, Scripted
  <1>3. OrderClaimsHold(j) => OrderClaimsHold(j)'
    BY DEF OrderClaimsHold
  <1>4. Grounded(j) => Grounded(j)'
    BY DEF Grounded
  <1>5. Sound(j) => Sound(j)'
    BY <1>2, <1>3, <1>4 DEF Sound
  <1> QED
    BY <1>1, <1>5 DEF JobInv

\* A job that is put where no run is judged, or starts one anew.
LEMMA PutAway ==
    ASSUME EvalInv, suite = "running", NEW j \in Job, NEW r \in JobRecord, Put(j, r),
           \A k \in Job : k # j => result'[k] = result[k],
           result' \in [Job -> Score \cup {"none"}],
           refused' \in BOOLEAN, refused => refused', free' \in Nat,
           suite' \in {"running", "raised"},
           r.turns = <<>>, r.at # "judging", r.at = "playing" => r.tries \in 1 .. 2,
           r.at = "done" => result'[j] # "none" /\ (result'[j] = "error" => r.tries = 2),
           r.at \in {"refused", "skipped"} => refused'
    PROVE  EvalInv'
  <1>1. job' \in [Job -> JobRecord] /\ job'[j] = r /\ \A k \in Job : k # j => job'[k] = job[k]
    BY DEF EvalInv, Put
  <1>2. JobInv(j)'
    BY <1>1 DEF JobInv, TurnsHold
  <1>3. ASSUME NEW k \in Job, k # j PROVE JobInv(k)'
    BY <1>1, <1>3, OthersKept DEF EvalInv
  <1> QED
    BY <1>1, <1>2, <1>3 DEF EvalInv

\* The records a job is put in.
LEMMA BlankRecord ==
    ASSUME NEW at \in {"queued", "playing", "done", "skipped", "refused", "raised"},
           NEW tries \in 0 .. 2
    PROVE  /\ Blank(at, tries) \in JobRecord /\ Blank(at, tries).turns = <<>>
           /\ Blank(at, tries).at = at /\ Blank(at, tries).tries = tries
  BY DEF Blank, JobRecord

\* A score is the second try's, or no error.
LEMMA ScoredInv ==
    ASSUME EvalInv, suite = "running", NEW j \in Job, NEW status \in Score,
           job[j].at \in {"playing", "judging"}, Scored(j, status)
    PROVE  EvalInv'
  <1>1. job[j].tries \in 1 .. 2 /\ job[j].tries \in 0 .. 2
    BY DEF EvalInv, JobInv
  <1>2. CASE status = "error" /\ job[j].tries = 1
    <2>1. Put(j, Fresh(2)) /\ UNCHANGED <<result, free, refused, suite>>
      BY <1>2 DEF Scored
    <2>2. 2 \in 0 .. 2 /\ 2 \in 1 .. 2
      OBVIOUS
    <2>3. Fresh(2) \in JobRecord /\ Fresh(2).at = "playing" /\ Fresh(2).tries = 2
             /\ Fresh(2).turns = <<>>
      BY <2>2, BlankRecord DEF Fresh
    <2> QED
      BY <2>1, <2>2, <2>3, PutAway DEF EvalInv
  <1>3. CASE ~(status = "error" /\ job[j].tries = 1)
    <2> DEFINE r == Blank("done", job[j].tries)
    <2>1. /\ Put(j, r) /\ result' = [result EXCEPT ![j] = status] /\ free' = free + 1
          /\ UNCHANGED <<refused, suite>>
      BY <1>3 DEF Scored
    <2>2. r \in JobRecord /\ r.at = "done" /\ r.turns = <<>> /\ r.tries = job[j].tries
      BY <1>1, BlankRecord
    <2> HIDE DEF r
    <2>3. /\ result' \in [Job -> Score \cup {"none"}] /\ result'[j] = status
          /\ \A k \in Job : k # j => result'[k] = result[k]
      BY <2>1 DEF EvalInv
    <2>4. status # "none" /\ (status = "error" => r.tries = 2) /\ free' \in Nat
      BY <1>1, <1>3, <2>1, <2>2 DEF EvalInv, Score
    <2> QED
      BY <2>1, <2>2, <2>3, <2>4, PutAway DEF EvalInv
  <1> QED
    BY <1>2, <1>3

LEMMA RefuseInv ==
    ASSUME EvalInv, suite = "running", NEW j \in Job, Refuse(j)
    PROVE  EvalInv'
  <1>1. /\ Away("refused") \in JobRecord /\ Away("refused").at = "refused"
        /\ Away("refused").turns = <<>>
    BY BlankRecord DEF Away
  <1>2. /\ Put(j, Away("refused")) /\ refused' = TRUE /\ free' \in Nat
        /\ UNCHANGED <<result, suite>>
    BY DEF Refuse, EvalInv
  <1> HIDE DEF Away
  <1> QED
    BY <1>1, <1>2, PutAway DEF EvalInv

LEMMA StartInv ==
    ASSUME EvalInv, suite = "running", NEW j \in Job, Start(j)
    PROVE  EvalInv'
  <1>1. CASE refused
    <2>1. /\ Away("skipped") \in JobRecord /\ Away("skipped").at = "skipped"
          /\ Away("skipped").turns = <<>>
      BY BlankRecord DEF Away
    <2>2. Put(j, Away("skipped")) /\ UNCHANGED <<result, free, refused, suite>>
      BY <1>1 DEF Start
    <2> QED
      BY <1>1, <2>1, <2>2, PutAway DEF EvalInv
  <1>2. CASE ~refused
    <2>1. 1 \in 0 .. 2 /\ 1 \in 1 .. 2
      OBVIOUS
    <2>2. Fresh(1) \in JobRecord /\ Fresh(1).at = "playing" /\ Fresh(1).tries = 1
             /\ Fresh(1).turns = <<>>
      BY <2>1, BlankRecord DEF Fresh
    <2>3. /\ Put(j, Fresh(1)) /\ free' \in Nat /\ UNCHANGED <<result, refused, suite>>
      BY <1>2 DEF Start, EvalInv
    <2> QED
      BY <2>1, <2>2, <2>3, PutAway DEF EvalInv
  <1> QED
    BY <1>1, <1>2

\* A turn more: held only if it did not crash and is as its claim says.
LEMMA SendInv ==
    ASSUME EvalInv, suite = "running", NEW j \in Job, Send(j)
    PROVE  EvalInv'
  <1>1. PICK b \in Behaviour, meter \in {"clean", "infra", "refused"} :
           /\ job[j].at = "playing"
           /\ Put(j, [job[j] EXCEPT
                 !.turns = Append(@, Recorded(b)),
                 !.held = @ /\ Recorded(b).outcome = "ok"
                            /\ (Scripted(j) => Evaluate(Case[j].turns[Len(job[j].turns) + 1],
                                                        Recorded(b).calls, Recorded(b))),
                 !.infra = @ \/ meter = "infra",
                 !.refused = @ \/ meter = "refused"])
           /\ UNCHANGED <<result, free, refused, suite>>
    BY DEF Send
  <1> DEFINE n == Len(job[j].turns) + 1
             turn == Recorded(b)
             turns == Append(job[j].turns, turn)
             held == /\ job[j].held /\ turn.outcome = "ok"
                     /\ Scripted(j) => Evaluate(Case[j].turns[n], turn.calls, turn)
             infra == job[j].infra \/ meter = "infra"
             away == job[j].refused \/ meter = "refused"
             r == [job[j] EXCEPT !.turns = turns, !.held = held, !.infra = infra,
                                 !.refused = away]
  <1>2. Put(j, r)
    BY <1>1
  <1>3. job[j] \in JobRecord /\ JobInv(j) /\ job[j].turns \in Seq(Played) /\ turn \in Played
    BY DEF EvalInv, JobRecord, Played
  <1>4. turns \in Seq(Played) /\ held \in BOOLEAN /\ infra \in BOOLEAN /\ away \in BOOLEAN
    <2>1. turns \in Seq(Played)
      <3> HIDE DEF turn
      <3> QED
        BY <1>3
    <2>2. job[j].held \in BOOLEAN /\ job[j].infra \in BOOLEAN /\ job[j].refused \in BOOLEAN
      BY <1>3 DEF JobRecord
    <2>3. held \in BOOLEAN
      BY <2>2
    <2> QED
      BY <2>1, <2>2, <2>3
  <1> HIDE DEF turns, held, infra, away
  <1>5. r \in JobRecord /\ r.turns = turns /\ r.held = held /\ r.at = job[j].at
           /\ r.tries = job[j].tries
    BY <1>3, <1>4 DEF JobRecord
  <1> HIDE DEF r
  <1>6. /\ job' \in [Job -> JobRecord] /\ job'[j] = r
        /\ \A k \in Job : k # j => job'[k] = job[k]
    BY <1>2, <1>5 DEF EvalInv, Put
  <1>7. ASSUME held
        PROVE  /\ \A i \in DOMAIN turns : turns[i].outcome = "ok"
               /\ \A i \in DOMAIN turns : i <= Len(Case[j].turns) =>
                     Evaluate(Case[j].turns[i], turns[i].calls, turns[i])
    <2>1. /\ job[j].held /\ turn.outcome = "ok" /\ TurnsHold(j)
          /\ Scripted(j) => Evaluate(Case[j].turns[n], turn.calls, turn)
      BY <1>3, <1>7 DEF held, JobInv
    <2>2. Len(job[j].turns) \in Nat /\ Len(Case[j].turns) \in Nat /\ n \in Nat
      BY <1>3, SuiteAssumption, SequenceDomain
    <2>3. n <= Len(Case[j].turns) => Scripted(j)
      BY <2>2 DEF Scripted
    <2>4. /\ DOMAIN turns = 1 .. n /\ turns[n] = turn
          /\ \A i \in 1 .. n : i # n => i \in DOMAIN job[j].turns /\ turns[i] = job[j].turns[i]
      <3> HIDE DEF turn
      <3> QED
        BY <1>3, <2>2 DEF turns
    <2> HIDE DEF turn, n
    <2>5. ASSUME NEW i \in DOMAIN turns
          PROVE  /\ turns[i].outcome = "ok"
                 /\ i <= Len(Case[j].turns) =>
                        Evaluate(Case[j].turns[i], turns[i].calls, turns[i])
      <3>1. CASE i = n
        BY <2>1, <2>3, <2>4, <3>1
      <3>2. CASE i # n
        BY <2>1, <2>4, <3>2 DEF TurnsHold
      <3> QED
        BY <3>1, <3>2
    <2> QED
      BY <2>5
  <1>8. JobInv(j)'
    <2>1. r.at = "playing" /\ r.tries \in 1 .. 2
      BY <1>1, <1>3, <1>5 DEF JobInv
    <2>2. r.held => TurnsHold(j)'
      BY <1>5, <1>6, <1>7 DEF TurnsHold
    <2> QED
      BY <1>6, <2>1, <2>2 DEF JobInv
  <1>9. ASSUME NEW k \in Job, k # j PROVE JobInv(k)'
    BY <1>1, <1>6, <1>9, OthersKept DEF EvalInv
  <1> QED
    BY <1>1, <1>6, <1>8, <1>9 DEF EvalInv

\* What goes to the judge is sound.
LEMMA CheckedInv ==
    ASSUME EvalInv, suite = "running", NEW j \in Job, Checked(j)
    PROVE  EvalInv'
  <1>1. job[j].at = "playing" /\ ~PlaysOn(j)
    BY DEF Checked
  <1>2. CASE Refuse(j)
    BY <1>2, RefuseInv
  <1>3. CASE \E status \in Score : Scored(j, status)
    BY <1>1, <1>3, ScoredInv
  <1>4. CASE /\ Held(j) /\ ~job[j].infra /\ ~job[j].refused
             /\ Put(j, [job[j] EXCEPT !.at = "judging"])
             /\ UNCHANGED <<result, free, refused, suite>>
    <2> DEFINE r == [job[j] EXCEPT !.at = "judging"]
    <2>1. job[j] \in JobRecord /\ JobInv(j)
      BY DEF EvalInv
    <2>2. /\ r \in JobRecord /\ r.at = "judging" /\ r.turns = job[j].turns
          /\ r.held = job[j].held /\ r.tries = job[j].tries
          /\ r.infra = job[j].infra /\ r.refused = job[j].refused
      BY <2>1 DEF JobRecord
    <2> HIDE DEF r
    <2>3. /\ job' \in [Job -> JobRecord] /\ job'[j] = r
          /\ \A k \in Job : k # j => job'[k] = job[k]
      BY <1>4, <2>2 DEF EvalInv, Put, r
    <2>4. Sound(j)
      BY <1>1, <1>4, HeldIsSound DEF Held
    <2>5. Sound(j)'
      <3>1. OrderClaimsHold(j)'
        BY <2>2, <2>3, <2>4 DEF Sound, OrderClaimsHold
      <3>2. Grounded(j)'
        BY <2>2, <2>3, <2>4 DEF Sound, Grounded
      <3> QED
        BY <2>2, <2>3, <2>4, <3>1, <3>2 DEF Sound, Crashed, Scripted
    <2>6. job[j].held => TurnsHold(j)'
      BY <2>1, <2>2, <2>3 DEF JobInv, TurnsHold
    <2>7. JobInv(j)'
      BY <1>1, <2>1, <2>2, <2>3, <2>5, <2>6 DEF JobInv
    <2>8. ASSUME NEW k \in Job, k # j PROVE JobInv(k)'
      BY <1>4, <2>3, <2>8, OthersKept DEF EvalInv
    <2> QED
      BY <1>4, <2>3, <2>7, <2>8 DEF EvalInv
  <1> QED
    BY <1>2, <1>3, <1>4 DEF Checked, Score

LEMMA JudgeRaisesInv ==
    ASSUME EvalInv, suite = "running", NEW j \in Job, JudgeRaises(j)
    PROVE  EvalInv'
  <1>1. /\ Away("raised") \in JobRecord /\ Away("raised").at = "raised"
        /\ Away("raised").turns = <<>>
    BY BlankRecord DEF Away
  <1>2. /\ Put(j, Away("raised")) /\ suite' = "raised"
        /\ UNCHANGED <<result, free, refused>>
    BY DEF JudgeRaises
  <1> QED
    BY <1>1, <1>2, PutAway DEF EvalInv

\* When no job was refused, none was skipped, and so all are done.
LEMMA SuiteEndsInv ==
    ASSUME EvalInv, suite = "running", SuiteEnds
    PROVE  EvalInv'
  <1>1. UNCHANGED <<job, result, free, refused>> /\ suite' \in {"aborted", "reported"}
    BY DEF SuiteEnds
  <1>2. ASSUME suite' = "reported", NEW j \in Job PROVE job[j].at = "done"
    BY <1>2 DEF SuiteEnds, EvalInv, JobInv
  <1>3. ASSUME NEW j \in Job PROVE JobInv(j)'
    BY <1>1, OthersKept DEF EvalInv
  <1> QED
    BY <1>1, <1>2, <1>3 DEF EvalInv

LEMMA EvalInitInv == EvalInit => EvalInv
  <1> SUFFICES ASSUME EvalInit PROVE EvalInv
    OBVIOUS
  <1>1. /\ Away("queued") \in JobRecord /\ Away("queued").at = "queued"
        /\ Away("queued").turns = <<>>
    BY BlankRecord DEF Away
  <1>2. job \in [Job -> JobRecord] /\ \A j \in Job : JobInv(j)
    BY <1>1 DEF EvalInit, JobInv, TurnsHold
  <1> QED
    BY <1>2, SuiteAssumption DEF EvalInit, EvalInv, Score

LEMMA EvalStepInv == EvalInv /\ [EvalNext]_evalVars => EvalInv'
  <1> SUFFICES ASSUME EvalInv, [EvalNext]_evalVars PROVE EvalInv'
    OBVIOUS
  <1>1. CASE UNCHANGED evalVars
    <2>1. ASSUME NEW j \in Job PROVE JobInv(j)'
      BY <1>1, OthersKept DEF EvalInv, evalVars
    <2> QED
      BY <1>1, <2>1 DEF EvalInv, evalVars
  <1>2. ASSUME suite = "running", SuiteEnds PROVE EvalInv'
    BY <1>2, SuiteEndsInv
  <1>3. ASSUME suite = "running", NEW j \in Job, Start(j) PROVE EvalInv'
    BY <1>3, StartInv
  <1>4. ASSUME suite = "running", NEW j \in Job, Send(j) PROVE EvalInv'
    BY <1>4, SendInv
  <1>5. ASSUME suite = "running", NEW j \in Job, Checked(j) PROVE EvalInv'
    BY <1>5, CheckedInv
  <1>6. ASSUME suite = "running", NEW j \in Job, Judged(j) PROVE EvalInv'
    BY <1>6, RefuseInv, ScoredInv DEF Judged, Score
  <1>7. ASSUME suite = "running", NEW j \in Job, JudgeRaises(j) PROVE EvalInv'
    BY <1>7, JudgeRaisesInv
  <1>8. ASSUME suite = "running", NEW j \in Job, EndpointFails(j) PROVE EvalInv'
    BY <1>8, ScoredInv DEF EndpointFails, Score
  <1>9. ASSUME suite = "running", NEW j \in Job, EndpointRefuses(j) PROVE EvalInv'
    BY <1>9, RefuseInv DEF EndpointRefuses
  <1> QED
    BY <1>1, <1>2, <1>3, <1>4, <1>5, <1>6, <1>7, <1>8, <1>9 DEF EvalNext

\* Where every job of the suite stands, and what its run is worth.
THEOREM EvalInvHolds == EvalSpec => []EvalInv
  BY EvalInitInv, EvalStepInv, PTL DEF EvalSpec

\* The suite's types.
THEOREM EvalTypeCorrect == EvalSpec => []EvalTypeOK
  <1>1. EvalInv => EvalTypeOK
    BY DEF EvalInv, EvalTypeOK, JobRecord, Score
  <1> QED
    BY <1>1, EvalInvHolds, PTL

\* A report is there only when every job is done.
ReportedDone ==
    /\ suite = "reported" =>
           \A j \in Job : result[j] # "none" /\ (result[j] = "error" => job[j].tries = 2)
    /\ (\E j \in Job : job[j].at \in {"refused", "skipped"}) => suite # "reported"

\* A score of the agents comes from a run under which nothing else failed.
ScoresAreEarned ==
    \A j \in Job : result'[j] # result[j] /\ result'[j] # "error" =>
        /\ ~job[j].infra /\ ~job[j].refused
        /\ result'[j] = "passed" =>
              /\ ~Crashed(j) /\ ~Scripted(j) /\ OrderClaimsHold(j) /\ Grounded(j)
              /\ Case[j].judge => job[j].at = "judging"

\* Only a job that was checked, or judged, is passed or failed.
LEMMA ScoredBy ==
    ASSUME EvalInv, EvalNext, NEW j \in Job, result'[j] # result[j], result'[j] # "error"
    PROVE  \/ Checked(j) /\ Scored(j, result'[j])
           \/ Judged(j) /\ job[j].at = "judging"
  <1>1. ASSUME NEW k \in Job, NEW status \in Score, Scored(k, status)
        PROVE  k = j /\ status = result'[j]
    BY <1>1 DEF Scored, EvalInv
  <1>2. ASSUME NEW k \in Job, Refuse(k) PROVE FALSE
    BY <1>2 DEF Refuse
  <1>3. ~SuiteEnds
    BY DEF SuiteEnds
  <1>4. ASSUME NEW k \in Job, Start(k) \/ Send(k) \/ JudgeRaises(k) PROVE FALSE
    BY <1>4 DEF Start, Send, JudgeRaises
  <1>5. ASSUME NEW k \in Job, EndpointFails(k) \/ EndpointRefuses(k) PROVE FALSE
    BY <1>1, <1>2, <1>5 DEF EndpointFails, EndpointRefuses, Score
  <1>6. ASSUME NEW k \in Job, Judged(k) PROVE Judged(j) /\ job[j].at = "judging"
    BY <1>1, <1>2, <1>6 DEF Judged, Score
  <1>7. ASSUME NEW k \in Job, Checked(k) PROVE Checked(j) /\ Scored(j, result'[j])
    <2>1. \E status \in Score : Scored(k, status)
      BY <1>2, <1>7 DEF Checked, Score
    <2> QED
      BY <1>1, <1>7, <2>1
  <1> QED
    BY <1>3, <1>4, <1>5, <1>6, <1>7 DEF EvalNext

LEMMA EvalStepEarns == EvalInv /\ [EvalNext]_evalVars => [ScoresAreEarned]_evalVars
  <1> SUFFICES ASSUME EvalInv, EvalNext, NEW j \in Job,
                      result'[j] # result[j], result'[j] # "error"
               PROVE  /\ ~job[j].infra /\ ~job[j].refused
                      /\ result'[j] = "passed" =>
                            /\ ~Crashed(j) /\ ~Scripted(j) /\ OrderClaimsHold(j) /\ Grounded(j)
                            /\ Case[j].judge => job[j].at = "judging"
    BY DEF ScoresAreEarned
  <1>1. CASE Judged(j) /\ job[j].at = "judging"
    BY <1>1 DEF EvalInv, JobInv, Sound
  <1>2. CASE Checked(j) /\ Scored(j, result'[j])
    <2>1. ~job[j].refused /\ ~job[j].infra
      BY <1>2 DEF Checked, Refuse, Scored, EvalInv
    <2>2. ASSUME result'[j] = "passed" PROVE Held(j) /\ ~Case[j].judge
      BY <1>2, <2>1, <2>2, SuiteAssumption DEF Checked, Scored, EvalInv
    <2>3. ASSUME Held(j) PROVE Sound(j)
      BY <1>2, <2>1, <2>3, HeldIsSound DEF Checked, Held
    <2> QED
      BY <2>1, <2>2, <2>3 DEF Sound
  <1> QED
    BY <1>1, <1>2, ScoredBy

\* A report is about the agents and about every job, however jobs interleave and
\* endpoints fail.
THEOREM ReportHolds == EvalSpec => ReportIsWhole
  <1>1. EvalInv => ReportedDone
    BY DEF EvalInv, JobInv, ReportedDone
  <1>2. EvalSpec => []ReportedDone
    BY <1>1, EvalInvHolds, PTL
  <1>3. EvalSpec => [][ScoresAreEarned]_evalVars
    BY EvalStepEarns, EvalInvHolds, PTL DEF EvalSpec
  <1> QED
    BY <1>2, <1>3 DEF ReportIsWhole, ReportedDone, ScoresAreEarned

EventTypes == {"turn_started", "state", "item_started", "item_delta", "item_completed", "sub_run",
               "turn_completed", "turn_failed"}

Event ==
    [type : EventTypes, turn : {1, 2}, item : Nat,
     kind : {"none", "message", "tool_call"}, flag : BOOLEAN]

QueuedEvent ==
    [type : {"delta", "message", "tool_called", "tool_output"}, item : Nat, dispatch : BOOLEAN,
     interrupt : BOOLEAN]

ToolCall == [kind : Kinds, status : {"running", "ok", "interrupt", "error", "answered"}]

\* Positions in a log.
Places(log, type, item) ==
    {i \in DOMAIN log : log[i].turn = 1 /\ log[i].type = type /\ log[i].item = item}

Starts(log, item) == Places(log, "item_started", item)
Completes(log, item) == Places(log, "item_completed", item)
SubRuns(log, item) == Places(log, "sub_run", item)

\* The item has started and not completed since.
IsOpen(log, item) ==
    \E k \in Starts(log, item) : \A i \in Completes(log, item) : i < k

Alternates(log, item) ==
    /\ \A i \in Completes(log, item) : \E k \in Starts(log, item) :
          k < i /\ \A l \in Starts(log, item) \cup Completes(log, item) : l <= k \/ i <= l
    /\ \A k, l \in Starts(log, item) : k < l => \E i \in Completes(log, item) : k < i /\ i < l

SubRunWithin(log, item) ==
    \A i \in SubRuns(log, item) :
        /\ SubRuns(log, item) = {i}
        /\ \E k \in Starts(log, item) : k < i
        /\ \A k \in Completes(log, item) : i < k

\* Where a log that was added to tells of an item.
LEMMA PlacesGrow ==
    ASSUME NEW log \in Seq(Event), NEW new \in Seq(Event), NEW type, NEW item
    PROVE  /\ Places(log \o new, type, item) =
                Places(log, type, item) \cup {Len(log) + i : i \in Places(new, type, item)}
           /\ Places(new, type, item) = {} =>
                Places(log \o new, type, item) = Places(log, type, item)
           /\ Places(log, type, item) \subseteq 1 .. Len(log)
           /\ Places(new, type, item) \subseteq 1 .. Len(new)
           /\ Len(log) \in Nat /\ Len(new) \in Nat
  <1>1. /\ Len(log) \in Nat /\ Len(new) \in Nat
        /\ Places(log, type, item) \subseteq 1 .. Len(log)
        /\ Places(new, type, item) \subseteq 1 .. Len(new)
    BY DEF Places
  <1> DEFINE all == log \o new
  <1>2. /\ DOMAIN all = 1 .. Len(log) + Len(new)
        /\ \A i \in 1 .. Len(log) : all[i] = log[i]
        /\ \A i \in 1 .. Len(new) : all[Len(log) + i] = new[i]
        /\ DOMAIN log = 1 .. Len(log) /\ DOMAIN new = 1 .. Len(new)
    BY <1>1
  <1> HIDE DEF all
  <1>3. ASSUME NEW i \in Places(all, type, item)
        PROVE  i \in Places(log, type, item) \cup {Len(log) + j : j \in Places(new, type, item)}
    <2>1. CASE i \in 1 .. Len(log)
      BY <1>2, <1>3, <2>1 DEF Places
    <2>2. CASE i \notin 1 .. Len(log)
      <3>1. i \in 1 .. Len(log) + Len(new)
        BY <1>2, <1>3 DEF Places
      <3>2. PICK j \in 1 .. Len(new) : i = Len(log) + j
        <4>1. i - Len(log) \in 1 .. Len(new) /\ i = Len(log) + (i - Len(log))
          BY <1>1, <2>2, <3>1
        <4> QED
          BY <4>1
      <3>3. j \in Places(new, type, item)
        BY <1>2, <1>3, <3>2 DEF Places
      <3> QED
        BY <3>2, <3>3
    <2> QED
      BY <2>1, <2>2
  <1>4. ASSUME NEW i \in Places(log, type, item) PROVE i \in Places(all, type, item)
    BY <1>1, <1>2 DEF Places
  <1>5. ASSUME NEW j \in Places(new, type, item) PROVE Len(log) + j \in Places(all, type, item)
    BY <1>1, <1>2 DEF Places
  <1>6. Places(all, type, item) =
           Places(log, type, item) \cup {Len(log) + i : i \in Places(new, type, item)}
    BY <1>3, <1>4, <1>5
  <1>7. Places(new, type, item) = {} => Places(all, type, item) = Places(log, type, item)
    BY <1>3, <1>4
  <1> QED
    BY <1>1, <1>6, <1>7 DEF all

\* Nothing new is told of an item.
LEMMA QuietKept ==
    ASSUME NEW log \in Seq(Event), NEW new \in Seq(Event), NEW item,
           Starts(new, item) = {}, Completes(new, item) = {}
    PROVE  /\ Starts(log \o new, item) = Starts(log, item)
           /\ Completes(log \o new, item) = Completes(log, item)
           /\ Alternates(log \o new, item) <=> Alternates(log, item)
           /\ IsOpen(log \o new, item) <=> IsOpen(log, item)
  <1>1. /\ Starts(log \o new, item) = Starts(log, item)
        /\ Completes(log \o new, item) = Completes(log, item)
    BY PlacesGrow DEF Starts, Completes
  <1> QED
    BY <1>1 DEF Alternates, IsOpen

\* An item that is not open starts.
LEMMA StartedKept ==
    ASSUME NEW log \in Seq(Event), NEW new \in Seq(Event), NEW item, NEW p,
           Starts(new, item) = {p}, Completes(new, item) = {},
           Alternates(log, item), ~IsOpen(log, item)
    PROVE  Alternates(log \o new, item) /\ IsOpen(log \o new, item)
  <1> DEFINE q == Len(log) + p
  <1>1. /\ Starts(log \o new, item) = Starts(log, item) \cup {q}
        /\ Completes(log \o new, item) = Completes(log, item)
        /\ Starts(log, item) \cup Completes(log, item) \subseteq 1 .. Len(log)
        /\ q \in Nat /\ q > Len(log) /\ Len(log) \in Nat
    <2>1. p \in 1 .. Len(new)
      BY PlacesGrow DEF Starts
    <2>2. Len(log) \in Nat /\ Len(new) \in Nat
      BY PlacesGrow
    <2>3. Starts(log \o new, item) = Starts(log, item) \cup {q}
      <3>1. {Len(log) + i : i \in Starts(new, item)} = {q}
        OBVIOUS
      <3> HIDE DEF q
      <3> QED
        BY <3>1, PlacesGrow DEF Starts
    <2>4. Completes(log \o new, item) = Completes(log, item)
      BY PlacesGrow DEF Completes
    <2>5. Starts(log, item) \cup Completes(log, item) \subseteq 1 .. Len(log)
      BY PlacesGrow DEF Starts, Completes
    <2> QED
      BY <2>1, <2>2, <2>3, <2>4, <2>5
  <1> DEFINE S == Starts(log, item)  C == Completes(log, item)
  <1>2. /\ \A i \in C : \E k \in S : k < i /\ \A l \in S \cup C : l <= k \/ i <= l
        /\ \A k, l \in S : k < l => \E i \in C : k < i /\ i < l
        /\ \A k \in S : \E i \in C : ~(i < k)
    BY DEF Alternates, IsOpen
  <1> HIDE DEF q, S, C
  <1>3. \A i \in C : \E k \in S \cup {q} : k < i /\ \A l \in (S \cup {q}) \cup C : l <= k \/ i <= l
    BY <1>1, <1>2 DEF S, C
  <1>4. ASSUME NEW k \in S \cup {q}, NEW l \in S \cup {q}, k < l
        PROVE  \E i \in C : k < i /\ i < l
    <2>1. CASE l \in S
      BY <1>1, <1>2, <1>4, <2>1 DEF S
    <2>2. CASE l = q
      <3>1. k \in S
        BY <1>1, <1>4, <2>2
      <3>2. PICK i \in C : ~(i < k)
        BY <1>2, <3>1
      <3>3. i # k
        BY <3>1, <3>2 DEF S, C, Starts, Completes, Places
      <3> QED
        BY <1>1, <2>2, <3>1, <3>2, <3>3 DEF S, C
    <2> QED
      BY <2>1, <2>2, <1>4
  <1>5. \A i \in C : i < q
    BY <1>1 DEF C
  <1> QED
    BY <1>1, <1>3, <1>4, <1>5 DEF Alternates, IsOpen, S, C

\* An item that is open completes.
LEMMA CompletedKept ==
    ASSUME NEW log \in Seq(Event), NEW new \in Seq(Event), NEW item, NEW p,
           Starts(new, item) = {}, Completes(new, item) = {p},
           Alternates(log, item), IsOpen(log, item)
    PROVE  Alternates(log \o new, item) /\ ~IsOpen(log \o new, item)
  <1> DEFINE q == Len(log) + p
  <1>1. /\ Starts(log \o new, item) = Starts(log, item)
        /\ Completes(log \o new, item) = Completes(log, item) \cup {q}
        /\ Starts(log, item) \cup Completes(log, item) \subseteq 1 .. Len(log)
        /\ q \in Nat /\ q > Len(log) /\ Len(log) \in Nat
    <2>1. p \in 1 .. Len(new)
      BY PlacesGrow DEF Completes
    <2>2. Len(log) \in Nat /\ Len(new) \in Nat
      BY PlacesGrow
    <2>3. Completes(log \o new, item) = Completes(log, item) \cup {q}
      <3>1. {Len(log) + i : i \in Completes(new, item)} = {q}
        OBVIOUS
      <3> HIDE DEF q
      <3> QED
        BY <3>1, PlacesGrow DEF Completes
    <2>4. Starts(log \o new, item) = Starts(log, item)
      BY PlacesGrow DEF Starts
    <2>5. Starts(log, item) \cup Completes(log, item) \subseteq 1 .. Len(log)
      BY PlacesGrow DEF Starts, Completes
    <2> QED
      BY <2>1, <2>2, <2>3, <2>4, <2>5
  <1> DEFINE S == Starts(log, item)  C == Completes(log, item)
  <1>2. /\ \A i \in C : \E k \in S : k < i /\ \A l \in S \cup C : l <= k \/ i <= l
        /\ \A k, l \in S : k < l => \E i \in C : k < i /\ i < l
    BY DEF Alternates
  <1>3. PICK k \in S : \A i \in C : i < k
    BY DEF IsOpen
  <1>4. S \cup C \subseteq 1 .. Len(log)
    BY <1>1
  <1> HIDE DEF q, S, C
  <1>5. \A l \in S \cup C : l <= k
    BY <1>2, <1>3, <1>4
  <1>6. \A i \in C \cup {q} : \E m \in S : m < i /\ \A l \in S \cup (C \cup {q}) : l <= m \/ i <= l
    <2>1. \A l \in S \cup (C \cup {q}) : l <= k \/ q <= l
      BY <1>1, <1>5
    <2>2. k < q
      BY <1>1, <1>4
    <2>3. ASSUME NEW i \in C
          PROVE  \E m \in S : m < i /\ \A l \in S \cup (C \cup {q}) : l <= m \/ i <= l
      <3>1. PICK m \in S : m < i /\ \A l \in S \cup C : l <= m \/ i <= l
        BY <1>2
      <3>2. i <= q
        BY <1>1, <1>4
      <3> QED
        BY <3>1, <3>2
    <2> QED
      BY <2>1, <2>2, <2>3
  <1>7. \A m, l \in S : m < l => \E i \in C \cup {q} : m < i /\ i < l
    BY <1>2
  <1>8. \A m \in S : ~(q < m)
    BY <1>1, <1>4
  <1> QED
    BY <1>1, <1>6, <1>7, <1>8 DEF Alternates, IsOpen, S, C

\* An item that is not open starts and completes.
LEMMA ToldAtOnceKept ==
    ASSUME NEW log \in Seq(Event), NEW a \in Seq(Event), NEW b \in Seq(Event), NEW item,
           NEW p, NEW q, Starts(a, item) = {p}, Completes(a, item) = {},
           Starts(b, item) = {}, Completes(b, item) = {q},
           Alternates(log, item), ~IsOpen(log, item)
    PROVE  Alternates(log \o (a \o b), item) /\ ~IsOpen(log \o (a \o b), item)
  <1>1. Alternates(log \o a, item) /\ IsOpen(log \o a, item)
    BY StartedKept
  <1> DEFINE s == log \o a
  <1>2. s \in Seq(Event) /\ s \o b = log \o (a \o b)
    OBVIOUS
  <1>3. Alternates(s, item) /\ IsOpen(s, item)
    BY <1>1
  <1> HIDE DEF s
  <1>4. Alternates(s \o b, item) /\ ~IsOpen(s \o b, item)
    BY <1>2, <1>3, CompletedKept
  <1> QED
    BY <1>2, <1>4

\* No sub-agent's run of the item is told.
LEMMA SubRunKept ==
    ASSUME NEW log \in Seq(Event), NEW new \in Seq(Event), NEW item,
           SubRuns(new, item) = {}, SubRunWithin(log, item)
    PROVE  SubRunWithin(log \o new, item) /\ SubRuns(log \o new, item) = SubRuns(log, item)
  <1> DEFINE all == log \o new
  <1>1. SubRuns(all, item) = SubRuns(log, item)
    BY PlacesGrow DEF SubRuns
  <1>2. Starts(log, item) \subseteq Starts(all, item)
    BY PlacesGrow DEF Starts
  <1>3. ASSUME NEW k \in Completes(all, item), k \notin Completes(log, item)
        PROVE  k > Len(log)
    BY <1>3, PlacesGrow DEF Completes
  <1>4. SubRuns(log, item) \subseteq 1 .. Len(log) /\ Len(log) \in Nat
    BY PlacesGrow DEF SubRuns
  <1>5. Completes(all, item) \subseteq Nat
    BY PlacesGrow DEF Completes
  <1> HIDE DEF all
  <1>6. SubRunWithin(all, item)
    BY <1>1, <1>2, <1>3, <1>4, <1>5 DEF SubRunWithin
  <1> QED
    BY <1>1, <1>6 DEF all

\* The run is told of a call that has started, before it completes.
LEMMA SubRunTold ==
    ASSUME NEW log \in Seq(Event), NEW new \in Seq(Event), NEW item, NEW p,
           SubRuns(new, item) = {p}, SubRuns(log, item) = {},
           Starts(log, item) # {}, Completes(log, item) = {},
           \A k \in Completes(new, item) : p < k
    PROVE  SubRunWithin(log \o new, item)
  <1> DEFINE all == log \o new
             q == Len(log) + p
  <1>1. SubRuns(all, item) = {q}
    <2>1. {Len(log) + i : i \in SubRuns(new, item)} = {q}
      OBVIOUS
    <2>2. SubRuns(all, item) = SubRuns(log, item) \cup {Len(log) + i : i \in SubRuns(new, item)}
      BY PlacesGrow DEF SubRuns
    <2> HIDE DEF q
    <2> QED
      BY <2>1, <2>2
  <1>2. p \in 1 .. Len(new) /\ Len(log) \in Nat /\ Len(new) \in Nat
    BY PlacesGrow DEF SubRuns
  <1>3. PICK k \in Starts(all, item) : k <= Len(log) /\ k \in Nat
    BY PlacesGrow DEF Starts
  <1>4. ASSUME NEW i \in Completes(all, item) PROVE q < i
    <2>1. i \in {Len(log) + l : l \in Completes(new, item)}
      BY PlacesGrow DEF Completes
    <2>2. PICK l \in Completes(new, item) : i = Len(log) + l
      BY <2>1
    <2>3. l \in Nat /\ p < l
      BY <1>2, PlacesGrow DEF Completes
    <2> QED
      BY <1>2, <2>2, <2>3
  <1>5. k < q
    BY <1>2, <1>3
  <1> HIDE DEF all, q
  <1>6. SubRunWithin(all, item)
    BY <1>1, <1>3, <1>4, <1>5 DEF SubRunWithin
  <1> QED
    BY <1>6 DEF all

-----------------------------------------------------------------------------
(* The events of a turn.                                                    *)

InQueue(type, item) == \E k \in DOMAIN stream : stream[k].type = type /\ stream[k].item = item

OutputsWait == \E k \in DOMAIN stream : stream[k].type = "tool_output"

EventTypesOK ==
    /\ agent \in [at : {"off", "model", "tools", "done"}, responses : Nat, answered : Nat,
                  calls : Seq(ToolCall)]
    /\ stream \in Seq(QueuedEvent) /\ events \in Seq(Event)
    /\ told \in [running : BOOLEAN, open : SUBSET {0}, dispatches : SUBSET Nat,
                 sub_runs : Seq(Nat), interrupted : BOOLEAN]
    /\ follower \in [at : {"off", "starting", "following", "returned"}, seen : Nat,
                     calls : Seq(Nat), interrupted : BOOLEAN,
                     status : {"started", "turn_completed", "turn_failed", "timeout"}]

\* The calls before the last response's have answered.
CallsKept ==
    /\ agent.answered <= Len(agent.calls)
    /\ agent.at # "tools" => agent.answered = Len(agent.calls)
    /\ \A i \in DOMAIN agent.calls : i <= agent.answered <=> agent.calls[i].status = "answered"

\* The queue names calls in order, outputs of one response before calls of the
\* next; and while outputs wait, no call of the next response has answered.
StreamKept ==
    /\ \A k \in DOMAIN stream :
          LET ev == stream[k] IN
          /\ ev.type \in {"delta", "message"} => ev.item = 0
          /\ ev.type \in {"tool_called", "tool_output"} => ev.item \in DOMAIN agent.calls
          /\ ev.type = "tool_called" => (ev.dispatch <=> agent.calls[ev.item].kind = "dispatch")
          /\ ev.type = "tool_output" => ev.item <= agent.answered
          /\ ev.type = "delta" => \E l \in DOMAIN stream : k < l /\ stream[l].type = "message"
    /\ \A k, l \in DOMAIN stream : k < l =>
          /\ stream[k].type = stream[l].type /\ stream[k].type \in {"tool_called", "tool_output"} =>
                stream[k].item < stream[l].item
          /\ stream[k].type = "tool_output" /\ stream[l].type = "tool_called" =>
                stream[l].item > agent.answered
    /\ OutputsWait => \A i \in DOMAIN agent.calls :
          i > agent.answered => agent.calls[i].status = "running"

\* What the turn remembers: of the sub-agents' runs, that they are of calls that
\* have not completed, none of them told.
TextOpen == 0 \in told.open => \E k \in DOMAIN stream : stream[k].type = "message"

DispatchesKnown ==
    told.dispatches =
        {i \in DOMAIN agent.calls : agent.calls[i].kind = "dispatch" /\ ~InQueue("tool_called", i)}

SubRunsHeld ==
    \A k \in DOMAIN told.sub_runs :
        LET i == told.sub_runs[k] IN
        /\ i \in DOMAIN agent.calls /\ agent.calls[i].kind = "dispatch"
        /\ agent.calls[i].status # "running"
        /\ i <= agent.answered => InQueue("tool_output", i)
        /\ SubRuns(events, i) = {}

SubRunsDiffer == \A k, l \in DOMAIN told.sub_runs : k # l => told.sub_runs[k] # told.sub_runs[l]

RunningUntold ==
    \A i \in DOMAIN agent.calls : agent.calls[i].status = "running" => SubRuns(events, i) = {}

ToldKept == TextOpen /\ DispatchesKnown /\ SubRunsHeld /\ SubRunsDiffer /\ RunningUntold

\* What was published, and what is still queued.
LogKept ==
    /\ IsOpen(events, 0) <=> 0 \in told.open
    /\ \A i \in DOMAIN agent.calls :
          /\ Starts(events, i) = {} <=> InQueue("tool_called", i)
          /\ Completes(events, i) # {} <=> i <= agent.answered /\ ~InQueue("tool_output", i)
          /\ IsOpen(events, i) => Completes(events, i) = {}

ItemsTold ==
    \A i \in 0 .. Len(agent.calls) : Alternates(events, i) /\ SubRunWithin(events, i)

ItemsKnown ==
    \A i \in DOMAIN events : events[i].turn = 1 => events[i].item \in 0 .. Len(agent.calls)

InterruptTold ==
    told.interrupted <=>
        \E k \in DOMAIN events :
            events[k].turn = 1 /\ events[k].type = "item_completed" /\ events[k].flag

EndKept ==
    /\ \A i \in DOMAIN events : IsEnd(events[i]) =>
          /\ ~told.running /\ agent.at # "off" /\ events[i].item = 0
          /\ events[i].type = "turn_completed" =>
                /\ \A item \in 0 .. Len(agent.calls) : ~IsOpen(events, item)
                /\ told.sub_runs = <<>> /\ events[i].flag = told.interrupted
          /\ \A k \in i + 1 .. Len(events) : events[k].turn = 1 => events[k].type = "state"
    /\ agent.at = "off" => ~told.running /\ \A i \in DOMAIN events : events[i].turn = 2
    /\ agent.at # "off" /\ ~told.running => \E i \in DOMAIN events : IsEnd(events[i])

LogInv == ItemsTold /\ ItemsKnown /\ InterruptTold /\ EndKept

FollowerKept ==
    /\ follower.seen <= Len(events)
    /\ follower.at = "following" =>
          /\ agent.at # "off" /\ TellsCalls(follower.calls, follower.seen)
          /\ \A i \in 1 .. follower.seen : ~IsEnd(events[i])
    /\ follower.at \in {"off", "starting"} => follower.calls = <<>>
    /\ follower.status # "started" => follower.at = "returned"
    /\ follower.status \in {"turn_completed", "turn_failed"} =>
          /\ \E i \in Of(follower.status, 0) : events[i].flag = follower.interrupted
          /\ \E i \in DOMAIN events : IsEnd(events[i])
          /\ TellsCalls(follower.calls, Len(events))

\* A turn that has not started has told nothing.
OffKept ==
    agent.at = "off" =>
        /\ agent.calls = <<>> /\ stream = <<>>
        /\ told.open = {} /\ told.dispatches = {} /\ told.sub_runs = <<>>

EventsInv ==
    /\ EventTypesOK /\ CallsKept /\ OffKept /\ LogInv /\ FollowerKept
    /\ told.running => StreamKept /\ ToldKept /\ LogKept

\* A sequence that another was added to.
LEMMA ConcatAt ==
    ASSUME NEW S, NEW s \in Seq(S), NEW t \in Seq(S)
    PROVE  /\ s \o t \in Seq(S) /\ Len(s \o t) = Len(s) + Len(t)
           /\ Len(s) \in Nat /\ Len(t) \in Nat
           /\ \A i \in DOMAIN s : i \in DOMAIN (s \o t) /\ (s \o t)[i] = s[i] /\ i <= Len(s)
           /\ \A k \in DOMAIN t : Len(s) + k \in DOMAIN (s \o t) /\ (s \o t)[Len(s) + k] = t[k]
           /\ \A i \in DOMAIN (s \o t) : i \in DOMAIN s \/ \E k \in DOMAIN t : i = Len(s) + k
           /\ DOMAIN s = 1 .. Len(s) /\ DOMAIN t = 1 .. Len(t)
           /\ DOMAIN (s \o t) = 1 .. Len(s \o t)
  <1>1. \A i \in DOMAIN (s \o t) : i \notin DOMAIN s => i - Len(s) \in DOMAIN t /\ i = Len(s) + (i - Len(s))
    OBVIOUS
  <1>2. \A i \in DOMAIN (s \o t) : i \in DOMAIN s \/ \E k \in DOMAIN t : i = Len(s) + k
    BY <1>1
  <1> QED
    BY <1>2

\* The log, when events were added to it.
LEMMA LogAt ==
    ASSUME NEW log \in Seq(Event), NEW new \in Seq(Event), NEW all, all = log \o new
    PROVE  /\ all \in Seq(Event) /\ Len(all) = Len(log) + Len(new)
           /\ Len(log) \in Nat /\ Len(new) \in Nat
           /\ \A i \in DOMAIN log : i \in DOMAIN all /\ all[i] = log[i] /\ i <= Len(log)
           /\ \A k \in DOMAIN new : Len(log) + k \in DOMAIN all /\ all[Len(log) + k] = new[k]
           /\ \A i \in DOMAIN all : i \in DOMAIN log \/ \E k \in DOMAIN new : i = Len(log) + k
           /\ DOMAIN log = 1 .. Len(log) /\ DOMAIN all = 1 .. Len(all)
  BY ConcatAt

\* TellsCalls, of any log.
Tells(log, calls, n) ==
    LET starts == {k \in 1 .. n : IsCall(log[k])} IN
    /\ {calls[i] : i \in DOMAIN calls} = {log[k].item : k \in starts}
    /\ \A i, j \in DOMAIN calls : i < j =>
          \E k, l \in starts : k < l /\ log[k].item = calls[i] /\ log[l].item = calls[j]

\* What was told of the calls does not change where the log does not, and is all
\* while no other call is told.
LEMMA TellsKept ==
    ASSUME NEW log, NEW grown, NEW n \in Nat, NEW m \in Nat, n <= m, NEW calls,
           \A k \in 1 .. n : grown[k] = log[k], \A k \in n + 1 .. m : ~IsCall(grown[k]),
           Tells(log, calls, n)
    PROVE  Tells(grown, calls, m)
  <1> DEFINE starts == {k \in 1 .. n : IsCall(log[k])}
             more == {k \in 1 .. m : IsCall(grown[k])}
  <1>1. more = starts
    OBVIOUS
  <1>2. \A k \in starts : grown[k] = log[k]
    OBVIOUS
  <1>3. /\ {calls[i] : i \in DOMAIN calls} = {log[k].item : k \in starts}
        /\ \A i, j \in DOMAIN calls : i < j =>
              \E k, l \in starts : k < l /\ log[k].item = calls[i] /\ log[l].item = calls[j]
    BY DEF Tells
  <1> HIDE DEF starts
  <1>4. {grown[k].item : k \in starts} = {log[k].item : k \in starts}
    BY <1>2
  <1>5. \A i, j \in DOMAIN calls : i < j =>
              \E k, l \in starts : k < l /\ grown[k].item = calls[i] /\ grown[l].item = calls[j]
    BY <1>2, <1>3
  <1> HIDE DEF more
  <1>6. {calls[i] : i \in DOMAIN calls} = {grown[k].item : k \in more}
    BY <1>1, <1>3, <1>4
  <1>7. \A i, j \in DOMAIN calls : i < j =>
              \E k, l \in more : k < l /\ grown[k].item = calls[i] /\ grown[l].item = calls[j]
    BY <1>1, <1>5
  <1> QED
    BY <1>6, <1>7 DEF Tells, more

\* The next call, and nothing but it, is seen.
LEMMA TellsNext ==
    ASSUME NEW log, NEW n \in Nat, NEW m \in Nat, n < m, NEW calls \in Seq(Nat),
           \A k \in n + 1 .. m - 1 : ~IsCall(log[k]), IsCall(log[m]), Tells(log, calls, n),
           log[m].item \in Nat
    PROVE  Tells(log, Append(calls, log[m].item), m)
  <1> DEFINE starts == {k \in 1 .. n : IsCall(log[k])}
             more == {k \in 1 .. m : IsCall(log[k])}
             seen == Append(calls, log[m].item)
  <1>1. more = starts \cup {m}
    OBVIOUS
  <1>2. /\ {calls[i] : i \in DOMAIN calls} = {log[k].item : k \in starts}
        /\ \A i, j \in DOMAIN calls : i < j =>
              \E k, l \in starts : k < l /\ log[k].item = calls[i] /\ log[l].item = calls[j]
    BY DEF Tells
  <1>3. /\ DOMAIN calls = 1 .. Len(calls) /\ Len(calls) \in Nat
        /\ DOMAIN seen = 1 .. Len(calls) + 1 /\ seen[Len(calls) + 1] = log[m].item
        /\ \A i \in DOMAIN calls : seen[i] = calls[i]
    OBVIOUS
  <1>4. \A k \in starts : k < m
    OBVIOUS
  <1> HIDE DEF starts, more, seen
  <1>5. {seen[i] : i \in DOMAIN seen} = {log[k].item : k \in more}
    <2>1. {seen[i] : i \in DOMAIN seen} = {calls[i] : i \in DOMAIN calls} \cup {log[m].item}
      <3>1. ASSUME NEW i \in DOMAIN seen
            PROVE  seen[i] \in {calls[j] : j \in DOMAIN calls} \cup {log[m].item}
        <4>1. i \in DOMAIN calls \/ i = Len(calls) + 1
          BY <1>3
        <4> QED
          BY <1>3, <4>1
      <3>2. ASSUME NEW i \in DOMAIN calls PROVE calls[i] \in {seen[j] : j \in DOMAIN seen}
        <4>1. i \in DOMAIN seen
          BY <1>3
        <4> QED
          BY <1>3, <4>1
      <3>3. log[m].item \in {seen[j] : j \in DOMAIN seen}
        BY <1>3
      <3> QED
        BY <3>1, <3>2, <3>3
    <2>2. {log[k].item : k \in more} = {log[k].item : k \in starts} \cup {log[m].item}
      BY <1>1
    <2> QED
      BY <1>2, <2>1, <2>2
  <1>6. ASSUME NEW i \in DOMAIN seen, NEW j \in DOMAIN seen, i < j
        PROVE  \E k, l \in more : k < l /\ log[k].item = seen[i] /\ log[l].item = seen[j]
    <2>1. i \in DOMAIN calls
      BY <1>3, <1>6
    <2>2. CASE j \in DOMAIN calls
      <3>1. PICK k \in starts, l \in starts :
               k < l /\ log[k].item = calls[i] /\ log[l].item = calls[j]
        BY <1>2, <1>6, <2>1, <2>2
      <3> QED
        BY <1>1, <1>3, <2>1, <2>2, <3>1
    <2>3. CASE j \notin DOMAIN calls
      <3>1. seen[j] = log[m].item
        BY <1>3, <2>3
      <3>2. PICK k \in starts : log[k].item = calls[i]
        <4>1. calls[i] \in {calls[l] : l \in DOMAIN calls}
          BY <2>1
        <4>2. calls[i] \in {log[k].item : k \in starts}
          BY <1>2, <4>1
        <4> QED
          BY <4>2
      <3> QED
        BY <1>1, <1>3, <1>4, <2>1, <3>1, <3>2
    <2> QED
      BY <2>2, <2>3
  <1> QED
    BY <1>5, <1>6 DEF Tells, seen, more

\* What the follower has stays what the log says while the log grows.
LEMMA FollowerGrows ==
    ASSUME EventTypesOK, FollowerKept, NEW new \in Seq(Event), events' = events \o new,
           follower' = follower, agent.at # "off" => agent'.at # "off",
           \/ follower.status \notin {"turn_completed", "turn_failed"}
           \/ \A k \in DOMAIN new : ~IsCall(new[k])
    PROVE  FollowerKept'
  <1>1. /\ events \in Seq(Event) /\ Len(events) \in Nat /\ Len(events') = Len(events) + Len(new)
        /\ Len(new) \in Nat
        /\ \A i \in DOMAIN events : i \in DOMAIN events' /\ events'[i] = events[i]
        /\ \A i \in DOMAIN events' :
              i \in DOMAIN events \/ \E k \in DOMAIN new : i = Len(events) + k
        /\ \A k \in DOMAIN new :
              Len(events) + k \in DOMAIN events' /\ events'[Len(events) + k] = new[k]
        /\ DOMAIN events = 1 .. Len(events) /\ DOMAIN events' = 1 .. Len(events')
    <2>1. events \in Seq(Event)
      BY DEF EventTypesOK
    <2> QED
      BY <2>1, ConcatAt
  <1>2. follower.seen \in 0 .. Len(events)
    BY <1>1 DEF FollowerKept, EventTypesOK
  <1>3. ASSUME follower.at = "following" PROVE TellsCalls(follower.calls, follower.seen)'
    <2>1. Tells(events, follower.calls, follower.seen)
      BY <1>3 DEF FollowerKept, TellsCalls, Tells
    <2>2. /\ \A k \in 1 .. follower.seen : events'[k] = events[k]
          /\ \A k \in follower.seen + 1 .. follower.seen : ~IsCall(events'[k])
          /\ follower.seen \in Nat /\ follower.seen <= follower.seen
      BY <1>1, <1>2
    <2>3. Tells(events', follower.calls, follower.seen)
      BY <2>1, <2>2, TellsKept
    <2>4. Tells(events', follower'.calls, follower'.seen)
      BY <2>3
    <2> QED
      BY <2>4 DEF TellsCalls, Tells
  <1>4. ASSUME follower.status \in {"turn_completed", "turn_failed"}
        PROVE  TellsCalls(follower.calls, Len(events))'
    <2>1. Tells(events, follower.calls, Len(events))
      BY <1>4 DEF FollowerKept, TellsCalls, Tells
    <2>2. /\ \A k \in 1 .. Len(events) : events'[k] = events[k]
          /\ \A k \in Len(events) + 1 .. Len(events') : ~IsCall(events'[k])
          /\ Len(events') \in Nat /\ Len(events) <= Len(events')
      <3>1. ASSUME NEW k \in Len(events) + 1 .. Len(events') PROVE ~IsCall(events'[k])
        <4>1. k \in DOMAIN events' /\ k \notin DOMAIN events
          BY <1>1
        <4>2. PICK j \in DOMAIN new : k = Len(events) + j
          BY <1>1, <4>1
        <4> QED
          BY <1>1, <1>4, <4>2
      <3> QED
        BY <1>1, <3>1
    <2>3. Tells(events', follower.calls, Len(events'))
      BY <1>1, <2>1, <2>2, TellsKept
    <2>4. Tells(events', follower'.calls, Len(events'))
      BY <2>3
    <2> QED
      BY <2>4 DEF TellsCalls, Tells
  <1>5. follower.at = "following" => \A i \in 1 .. follower.seen : ~IsEnd(events'[i])
    BY <1>1, <1>2 DEF FollowerKept
  <1>6. follower.status \in {"turn_completed", "turn_failed"} =>
           /\ \E i \in Of(follower.status, 0)' : events'[i].flag = follower.interrupted
           /\ \E i \in DOMAIN events' : IsEnd(events'[i])
    BY <1>1 DEF FollowerKept, Of
  <1>7. follower.seen <= Len(events')
    BY <1>1, <1>2
  <1> QED
    BY <1>3, <1>4, <1>5, <1>6, <1>7 DEF FollowerKept

\* Publishing while the turn runs: what is left to show of the log.
LEMMA LogGrows ==
    ASSUME EventTypesOK, LogInv, FollowerKept, told.running, NEW new \in Seq(Event),
           events' = events \o new, UNCHANGED <<agent, follower>>, told'.running = TRUE,
           \A i \in DOMAIN new :
               new[i].turn = 1 /\ new[i].item \in 0 .. Len(agent.calls) /\ ~IsEnd(new[i]),
           \A i \in 0 .. Len(agent.calls) : Alternates(events', i) /\ SubRunWithin(events', i),
           told'.interrupted <=> \/ told.interrupted
                                 \/ \E k \in DOMAIN new :
                                       new[k].type = "item_completed" /\ new[k].flag
    PROVE  LogInv' /\ FollowerKept'
  <1>1. /\ events \in Seq(Event) /\ Len(events) \in Nat /\ Len(events') = Len(events) + Len(new)
        /\ Len(new) \in Nat
        /\ \A i \in DOMAIN events : i \in DOMAIN events' /\ events'[i] = events[i]
        /\ \A k \in DOMAIN new :
              Len(events) + k \in DOMAIN events' /\ events'[Len(events) + k] = new[k]
        /\ \A i \in DOMAIN events' :
              i \in DOMAIN events \/ \E k \in DOMAIN new : i = Len(events) + k
        /\ DOMAIN events = 1 .. Len(events)
    BY ConcatAt DEF EventTypesOK
  <1>2. ItemsTold'
    BY DEF ItemsTold
  <1>3. ItemsKnown'
    BY <1>1 DEF ItemsKnown, LogInv
  <1>4. InterruptTold'
    <2> DEFINE Flag(ev) == ev.turn = 1 /\ ev.type = "item_completed" /\ ev.flag
    <2>1. told.interrupted <=> \E k \in DOMAIN events : Flag(events[k])
      BY DEF LogInv, InterruptTold
    <2>2. told'.interrupted <=> told.interrupted \/ \E k \in DOMAIN new : Flag(new[k])
      OBVIOUS
    <2>3. (\E k \in DOMAIN events' : Flag(events'[k])) <=>
             (\E k \in DOMAIN events : Flag(events[k])) \/ \E k \in DOMAIN new : Flag(new[k])
      <3> HIDE DEF Flag
      <3>1. ASSUME NEW k \in DOMAIN events', Flag(events'[k])
            PROVE  (\E i \in DOMAIN events : Flag(events[i])) \/ \E i \in DOMAIN new : Flag(new[i])
        <4>1. CASE k \in DOMAIN events
          BY <1>1, <3>1, <4>1
        <4>2. CASE k \notin DOMAIN events
          <5>1. PICK i \in DOMAIN new : k = Len(events) + i
            BY <1>1, <4>2
          <5>2. events'[k] = new[i]
            BY <1>1, <5>1
          <5> QED
            BY <3>1, <5>2
        <4> QED
          BY <4>1, <4>2
      <3>2. ASSUME NEW k \in DOMAIN events, Flag(events[k])
            PROVE  \E i \in DOMAIN events' : Flag(events'[i])
        BY <1>1, <3>2
      <3>3. ASSUME NEW k \in DOMAIN new, Flag(new[k])
            PROVE  \E i \in DOMAIN events' : Flag(events'[i])
        BY <1>1, <3>3
      <3> QED
        BY <3>1, <3>2, <3>3
    <2> QED
      BY <2>1, <2>2, <2>3 DEF InterruptTold
  <1>5. \A i \in DOMAIN events' : ~IsEnd(events'[i])
    BY <1>1 DEF LogInv, EndKept
  <1>6. EndKept'
    BY <1>5 DEF EndKept, LogInv
  <1>7. FollowerKept'
    <2>1. follower.status \notin {"turn_completed", "turn_failed"}
      BY <1>1 DEF FollowerKept, LogInv, EndKept
    <2> QED
      BY <2>1, FollowerGrows
  <1> QED
    BY <1>2, <1>3, <1>4, <1>6, <1>7 DEF LogInv

\* The queue without its head.
LEMMA TailKept ==
    ASSUME EventTypesOK, StreamKept, stream # <<>>, stream' = Tail(stream), agent' = agent
    PROVE  /\ Head(stream) \in QueuedEvent /\ Head(stream) = stream[1] /\ 1 \in DOMAIN stream
           /\ stream' \in Seq(QueuedEvent) /\ StreamKept'
           /\ \A type, item :
                 InQueue(type, item) <=>
                    \/ Head(stream).type = type /\ Head(stream).item = item
                    \/ InQueue(type, item)'
           /\ \A type, item :
                 /\ type \in {"tool_called", "tool_output"}
                 /\ Head(stream).type = type /\ Head(stream).item = item
                 => ~InQueue(type, item)'
           /\ Head(stream).type = "tool_output" =>
                 \A i \in Nat : InQueue("tool_called", i)' => i > agent.answered
           /\ Head(stream).type = "delta" =>
                 \E k \in DOMAIN stream' : stream'[k].type = "message"
           /\ Head(stream).type # "message" /\ (\E k \in DOMAIN stream : stream[k].type = "message") =>
                 \E k \in DOMAIN stream' : stream'[k].type = "message"
  <1> DEFINE ev == Head(stream)
  <1>1. /\ ev \in QueuedEvent /\ ev = stream[1] /\ 1 \in DOMAIN stream
        /\ stream' \in Seq(QueuedEvent) /\ Len(stream) \in Nat /\ DOMAIN stream = 1 .. Len(stream)
        /\ Len(stream') = Len(stream) - 1 /\ DOMAIN stream' = 1 .. Len(stream) - 1
        /\ \A k \in DOMAIN stream' : k + 1 \in DOMAIN stream /\ stream'[k] = stream[k + 1] /\ 1 < k + 1
    BY DEF EventTypesOK
  <1>2. \A k \in DOMAIN stream : k # 1 => k - 1 \in DOMAIN stream' /\ stream'[k - 1] = stream[k]
    <2> SUFFICES ASSUME NEW k \in DOMAIN stream, k # 1
                 PROVE  k - 1 \in DOMAIN stream' /\ stream'[k - 1] = stream[k]
      OBVIOUS
    <2>1. k - 1 \in DOMAIN stream' /\ (k - 1) + 1 = k
      BY <1>1
    <2> QED
      BY <1>1, <2>1
  <1> HIDE DEF ev
  <1>3. ASSUME NEW k \in DOMAIN stream'
        PROVE  LET e == stream'[k] IN
               /\ e.type \in {"delta", "message"} => e.item = 0
               /\ e.type \in {"tool_called", "tool_output"} => e.item \in DOMAIN agent.calls
               /\ e.type = "tool_called" => (e.dispatch <=> agent.calls[e.item].kind = "dispatch")
               /\ e.type = "tool_output" => e.item <= agent.answered
               /\ e.type = "delta" => \E l \in DOMAIN stream' : k < l /\ stream'[l].type = "message"
    <2>1. k + 1 \in DOMAIN stream /\ stream'[k] = stream[k + 1] /\ k \in Nat
      BY <1>1
    <2>2. ASSUME stream[k + 1].type = "delta"
          PROVE  \E l \in DOMAIN stream' : k < l /\ stream'[l].type = "message"
      <3>1. PICK l \in DOMAIN stream : k + 1 < l /\ stream[l].type = "message"
        BY <2>1, <2>2 DEF StreamKept
      <3>2. l - 1 \in DOMAIN stream' /\ stream'[l - 1] = stream[l] /\ k < l - 1
        BY <1>1, <1>2, <2>1, <3>1
      <3> QED
        BY <3>1, <3>2
    <2> QED
      BY <2>1, <2>2 DEF StreamKept
  <1>4. ASSUME NEW k \in DOMAIN stream', NEW l \in DOMAIN stream', k < l
        PROVE  /\ stream'[k].type = stream'[l].type
                     /\ stream'[k].type \in {"tool_called", "tool_output"} =>
                        stream'[k].item < stream'[l].item
               /\ stream'[k].type = "tool_output" /\ stream'[l].type = "tool_called" =>
                        stream'[l].item > agent.answered
    <2>1. /\ k + 1 \in DOMAIN stream /\ l + 1 \in DOMAIN stream /\ k + 1 < l + 1
          /\ stream'[k] = stream[k + 1] /\ stream'[l] = stream[l + 1]
      BY <1>1, <1>4
    <2> QED
      BY <2>1 DEF StreamKept
  <1>5. OutputsWait' => OutputsWait
    BY <1>1 DEF OutputsWait
  <1>6. StreamKept'
    BY <1>3, <1>4, <1>5 DEF StreamKept
  <1>7. ASSUME NEW type, NEW item
        PROVE  InQueue(type, item) <=> (ev.type = type /\ ev.item = item) \/ InQueue(type, item)'
    BY <1>1, <1>2 DEF InQueue
  <1>8. ASSUME NEW type \in {"tool_called", "tool_output"}, NEW item,
               ev.type = type, ev.item = item, InQueue(type, item)'
        PROVE  FALSE
    <2>1. PICK k \in DOMAIN stream' : stream'[k].type = type /\ stream'[k].item = item
      BY <1>8 DEF InQueue
    <2>2. k + 1 \in DOMAIN stream /\ stream[k + 1] = stream'[k] /\ 1 < k + 1
      BY <1>1
    <2>3. item < item /\ item \in Nat
      BY <1>1, <1>8, <2>1, <2>2 DEF StreamKept, QueuedEvent
    <2> QED
      BY <2>3
  <1>9. ASSUME ev.type = "tool_output", NEW i \in Nat, InQueue("tool_called", i)'
        PROVE  i > agent.answered
    <2>1. PICK k \in DOMAIN stream' : stream'[k].type = "tool_called" /\ stream'[k].item = i
      BY <1>9 DEF InQueue
    <2>2. k + 1 \in DOMAIN stream /\ stream[k + 1] = stream'[k] /\ 1 < k + 1
      BY <1>1
    <2> QED
      BY <1>1, <1>9, <2>1, <2>2 DEF StreamKept
  <1>10. ev.type = "delta" => \E k \in DOMAIN stream' : stream'[k].type = "message"
    <2> SUFFICES ASSUME ev.type = "delta" PROVE \E k \in DOMAIN stream' : stream'[k].type = "message"
      OBVIOUS
    <2>1. PICK l \in DOMAIN stream : 1 < l /\ stream[l].type = "message"
      BY <1>1 DEF StreamKept
    <2> QED
      BY <1>1, <1>2, <2>1
  <1>11. ev.type # "message" /\ (\E k \in DOMAIN stream : stream[k].type = "message") =>
            \E k \in DOMAIN stream' : stream'[k].type = "message"
    BY <1>1, <1>2
  <1> QED
    BY <1>1, <1>6, <1>7, <1>8, <1>9, <1>10, <1>11 DEF ev

\* Who waits for a turn touches nothing else.
LEMMA FollowerMoves ==
    ASSUME EventsInv, UNCHANGED <<agent, stream, told, events>>, EventTypesOK', FollowerKept'
    PROVE  EventsInv'
  BY DEF EventsInv, CallsKept, OffKept, LogInv, ItemsTold, ItemsKnown, InterruptTold, EndKept,
         StreamKept, OutputsWait, ToldKept, TextOpen, DispatchesKnown, SubRunsHeld,
         SubRunsDiffer, RunningUntold, LogKept, InQueue

\* What the follower has read so far is nothing.
LEMMA ReadLastSeqKept ==
    ASSUME EventsInv, ReadLastSeq PROVE EventsInv'
  <1>1. Len(events) \in Nat
    BY DEF EventsInv, EventTypesOK
  <1>2. EventTypesOK'
    BY <1>1 DEF EventsInv, EventTypesOK, ReadLastSeq
  <1>3. FollowerKept'
    BY DEF EventsInv, EventTypesOK, FollowerKept, ReadLastSeq
  <1> QED
    BY <1>2, <1>3, FollowerMoves DEF ReadLastSeq

\* A follower that gives up has no outcome.
LEMMA FollowTimesOutKept ==
    ASSUME EventsInv, FollowTimesOut PROVE EventsInv'
  <1>1. EventTypesOK'
    BY DEF EventsInv, EventTypesOK, FollowTimesOut
  <1>2. FollowerKept'
    BY DEF EventsInv, EventTypesOK, FollowerKept, FollowTimesOut
  <1> QED
    BY <1>1, <1>2, FollowerMoves DEF FollowTimesOut

\* Nor has one whose message started nothing.
LEMMA SendRefusedKept ==
    ASSUME EventsInv, follower.at = "starting", follower' = [follower EXCEPT !.at = "returned"],
           UNCHANGED <<agent, stream, told, events>>
    PROVE  EventsInv'
  <1>1. EventTypesOK'
    BY DEF EventsInv, EventTypesOK
  <1>2. FollowerKept'
    BY DEF EventsInv, EventTypesOK, FollowerKept
  <1> QED
    BY <1>1, <1>2, FollowerMoves

\* The follower takes the next call.
LEMMA FollowCallKept ==
    ASSUME EventsInv, NEW k \in DOMAIN events, FollowCall(k) PROVE EventsInv'
  <1>1. /\ k \in Nat /\ k <= Len(events) /\ events[k].item \in Nat
        /\ follower.seen \in Nat /\ follower.seen < k /\ follower.calls \in Seq(Nat)
    <2>1. /\ k \in Nat /\ k <= Len(events) /\ events[k] \in Event
      BY DEF EventsInv, EventTypesOK
    <2> QED
      BY <2>1 DEF EventsInv, EventTypesOK, FollowCall, FollowsTo, Event
  <1>2. EventTypesOK'
    <2> DEFINE calls == Append(follower.calls, events[k].item)
    <2>1. calls \in Seq(Nat) /\ follower' = [follower EXCEPT !.seen = k, !.calls = calls]
      BY <1>1 DEF FollowCall
    <2> HIDE DEF calls
    <2>2. follower' \in [at : {"off", "starting", "following", "returned"}, seen : Nat,
                     calls : Seq(Nat), interrupted : BOOLEAN,
                     status : {"started", "turn_completed", "turn_failed", "timeout"}]
      BY <1>1, <2>1 DEF EventsInv, EventTypesOK
    <2> QED
      BY <2>2 DEF EventsInv, EventTypesOK, FollowCall
  <1>3. /\ follower'.at = "following" /\ follower'.seen = k
        /\ follower'.calls = Append(follower.calls, events[k].item)
        /\ follower'.status = follower.status /\ follower'.interrupted = follower.interrupted
        /\ follower.at = "following" /\ events' = events /\ agent' = agent
    BY DEF EventsInv, EventTypesOK, FollowCall, FollowsTo
  <1>4. Tells(events, follower.calls, follower.seen)
    BY <1>3 DEF EventsInv, FollowerKept, TellsCalls, Tells
  <1>5. /\ IsCall(events[k]) /\ ~IsEnd(events[k])
        /\ \A l \in follower.seen + 1 .. k - 1 : ~IsCall(events[l]) /\ ~IsEnd(events[l])
    BY DEF FollowCall, FollowsTo, IsCall, IsEnd
  <1>6. Tells(events, Append(follower.calls, events[k].item), k)
    BY <1>1, <1>4, <1>5, TellsNext
  <1>7. Tells(events', follower'.calls, follower'.seen)
    BY <1>3, <1>6
  <1>8. TellsCalls(follower.calls, follower.seen)'
    BY <1>7 DEF TellsCalls, Tells
  <1>9. \A i \in 1 .. k : ~IsEnd(events[i])
    <2>1. \A i \in 1 .. follower.seen : ~IsEnd(events[i])
      BY <1>3 DEF EventsInv, FollowerKept
    <2>2. \A i \in 1 .. k : i \in 1 .. follower.seen \/ i \in follower.seen + 1 .. k - 1 \/ i = k
      BY <1>1
    <2> QED
      BY <1>5, <2>1, <2>2
  <1>10. FollowerKept'
    BY <1>1, <1>3, <1>8, <1>9 DEF EventsInv, FollowerKept
  <1> QED
    BY <1>2, <1>10, FollowerMoves DEF FollowCall

\* It takes the end of the turn, after which the log tells of no call.
LEMMA FollowEndKept ==
    ASSUME EventsInv, NEW k \in DOMAIN events, FollowEnd(k) PROVE EventsInv'
  <1>1. /\ k \in Nat /\ k <= Len(events) /\ events[k] \in Event /\ Len(events) \in Nat
        /\ follower.seen \in Nat /\ follower.seen < k /\ follower.calls \in Seq(Nat)
        /\ DOMAIN events = 1 .. Len(events)
    BY DEF EventsInv, EventTypesOK, FollowEnd, FollowsTo
  <1>2. /\ follower'.at = "returned" /\ follower'.seen = k
        /\ follower'.calls = follower.calls
        /\ follower'.status = events[k].type /\ follower'.interrupted = events[k].flag
        /\ follower.at = "following" /\ events' = events /\ agent' = agent
    BY DEF EventsInv, EventTypesOK, FollowEnd, FollowsTo
  <1>3. IsEnd(events[k])
    BY DEF FollowEnd
  <1>4. EventTypesOK'
    BY <1>1, <1>3 DEF EventsInv, EventTypesOK, FollowEnd, Event, IsEnd
  <1>5. Tells(events, follower.calls, follower.seen)
    BY <1>2 DEF EventsInv, FollowerKept, TellsCalls, Tells
  <1>6. \A l \in follower.seen + 1 .. Len(events) : ~IsCall(events[l])
    <2>1. \A l \in follower.seen + 1 .. k - 1 : ~IsCall(events[l])
      BY DEF FollowEnd, FollowsTo
    <2>2. ~IsCall(events[k])
      BY <1>3 DEF IsCall, IsEnd
    <2>3. \A l \in k + 1 .. Len(events) : ~IsCall(events[l])
      BY <1>3 DEF EventsInv, LogInv, EndKept, IsCall
    <2>4. \A l \in follower.seen + 1 .. Len(events) :
             l \in follower.seen + 1 .. k - 1 \/ l = k \/ l \in k + 1 .. Len(events)
      BY <1>1
    <2> QED
      BY <2>1, <2>2, <2>3, <2>4
  <1>7. Tells(events, follower.calls, Len(events))
    <2>1. follower.seen <= Len(events) /\ \A l \in 1 .. follower.seen : events[l] = events[l]
      BY <1>1
    <2> QED
      BY <1>1, <1>5, <1>6, <2>1, TellsKept
  <1>8. Tells(events', follower'.calls, Len(events'))
    BY <1>2, <1>7
  <1>9. TellsCalls(follower.calls, Len(events))'
    BY <1>8 DEF TellsCalls, Tells
  <1>10. events[k].item = 0
    BY <1>3 DEF EventsInv, LogInv, EndKept
  <1>11. FollowerKept'
    BY <1>1, <1>2, <1>3, <1>9, <1>10 DEF EventsInv, FollowerKept, Of, IsEnd
  <1> QED
    BY <1>4, <1>11, FollowerMoves DEF FollowEnd

\* Events that say nothing of an item.
LEMMA PlainKept ==
    ASSUME NEW log \in Seq(Event), NEW new \in Seq(Event), NEW item,
           \A k \in DOMAIN new : new[k].turn = 1 =>
               new[k].type \notin {"item_started", "item_completed", "sub_run"}
    PROVE  /\ Starts(log \o new, item) = Starts(log, item)
           /\ Completes(log \o new, item) = Completes(log, item)
           /\ SubRuns(log \o new, item) = SubRuns(log, item)
           /\ Alternates(log, item) => Alternates(log \o new, item)
           /\ IsOpen(log \o new, item) <=> IsOpen(log, item)
           /\ SubRunWithin(log, item) => SubRunWithin(log \o new, item)
  <1>1. Starts(new, item) = {} /\ Completes(new, item) = {} /\ SubRuns(new, item) = {}
    BY DEF Starts, Completes, SubRuns, Places
  <1>2. SubRuns(log \o new, item) = SubRuns(log, item)
    BY <1>1, PlacesGrow DEF SubRuns
  <1> QED
    BY <1>1, <1>2, QuietKept, SubRunKept

\* An interrupt is told only with the completion of an item.
LEMMA InterruptKept ==
    ASSUME EventTypesOK, InterruptTold, NEW new \in Seq(Event), events' = events \o new,
           \A k \in DOMAIN new : new[k].turn = 1 => new[k].type # "item_completed",
           told'.interrupted = told.interrupted
    PROVE  InterruptTold'
  <1>1. /\ \A i \in DOMAIN events : i \in DOMAIN events' /\ events'[i] = events[i]
        /\ \A i \in DOMAIN events' :
              i \in DOMAIN events \/ \E k \in DOMAIN new : i = Len(events) + k
        /\ \A k \in DOMAIN new : events'[Len(events) + k] = new[k]
    BY ConcatAt DEF EventTypesOK
  <1> QED
    BY <1>1 DEF InterruptTold

\* What another turn publishes tells nothing of this one.
LEMMA OtherTurnKept ==
    ASSUME EventsInv, OtherTurn PROVE EventsInv'
  <1> DEFINE new == <<Ev("item_started", 2, 1, "tool_call", FALSE),
                      Ev("turn_completed", 2, 0, "none", FALSE)>>
  <1>1. /\ new \in Seq(Event) /\ \A k \in DOMAIN new : new[k].turn = 2
        /\ events' = events \o new
        /\ UNCHANGED <<agent, stream, told, follower>> /\ told.running = FALSE
    <2>1. \A k \in DOMAIN new : new[k].turn = 2
      BY DEF Ev
    <2>2. new \in Seq(Event)
      BY DEF Ev, Event, EventTypes
    <2> QED
      BY <2>1, <2>2 DEF OtherTurn, Published, EventsInv, EventTypesOK
  <1> HIDE DEF new
  <1>2. EventTypesOK /\ ItemsTold /\ ItemsKnown /\ InterruptTold /\ EndKept /\ FollowerKept
    BY DEF EventsInv, LogInv
  <1>3. \A k \in DOMAIN new : ~IsCall(new[k]) /\ ~IsEnd(new[k])
    BY <1>1 DEF IsCall, IsEnd
  <1>4. /\ \A i \in DOMAIN events : i \in DOMAIN events' /\ events'[i] = events[i]
        /\ \A i \in DOMAIN events' :
              i \in DOMAIN events \/ \E k \in DOMAIN new : i = Len(events) + k
        /\ \A k \in DOMAIN new : events'[Len(events) + k] = new[k]
        /\ events' \in Seq(Event) /\ DOMAIN events' = 1 .. Len(events') /\ events \in Seq(Event)
        /\ DOMAIN events = 1 .. Len(events) /\ Len(events) \in Nat /\ Len(events') \in Nat
    BY <1>1, <1>2, ConcatAt DEF EventTypesOK
  <1>5. FollowerKept'
    BY <1>1, <1>2, <1>3, FollowerGrows
  <1>6. ASSUME NEW i PROVE (Alternates(events, i) => Alternates(events', i)) /\
                           (SubRunWithin(events, i) => SubRunWithin(events', i)) /\
                           (IsOpen(events, i) <=> IsOpen(events', i))
    <2>1. \A k \in DOMAIN new : new[k].turn = 1 =>
             new[k].type \notin {"item_started", "item_completed", "sub_run"}
      BY <1>1
    <2> QED
      BY <1>1, <1>4, <2>1, PlainKept
  <1>7. ItemsTold'
    BY <1>1, <1>2, <1>6 DEF ItemsTold
  <1>8. \A i \in DOMAIN events' : i \in DOMAIN events \/ events'[i].turn = 2
    BY <1>1, <1>4
  <1>9. ItemsKnown'
    BY <1>1, <1>2, <1>4, <1>8 DEF ItemsKnown
  <1>10. InterruptTold'
    BY <1>1, <1>2, InterruptKept
  <1>11. EndKept'
    <2>1. ASSUME NEW i \in DOMAIN events', IsEnd(events'[i])
          PROVE  /\ ~told.running /\ agent.at # "off" /\ events'[i].item = 0
                 /\ events'[i].type = "turn_completed" =>
                       /\ \A item \in 0 .. Len(agent.calls) : ~IsOpen(events', item)
                       /\ told.sub_runs = <<>> /\ events'[i].flag = told.interrupted
                 /\ \A k \in i + 1 .. Len(events') : events'[k].turn = 1 => events'[k].type = "state"
      <3>1. i \in DOMAIN events /\ events'[i] = events[i]
        BY <1>4, <1>8, <2>1 DEF IsEnd
      <3>2. ASSUME NEW k \in i + 1 .. Len(events'), events'[k].turn = 1
            PROVE  events'[k].type = "state"
        <4>1. k \in DOMAIN events'
          BY <1>4, <3>1
        <4>2. k \in DOMAIN events /\ events'[k] = events[k]
          BY <1>4, <1>8, <3>2, <4>1
        <4>3. k \in i + 1 .. Len(events)
          BY <1>4, <4>2
        <4> QED
          BY <1>2, <2>1, <3>1, <3>2, <4>2, <4>3 DEF EndKept
      <3> QED
        BY <1>2, <1>6, <2>1, <3>1, <3>2 DEF EndKept
    <2>2. agent.at = "off" => ~told.running /\ \A i \in DOMAIN events' : events'[i].turn = 2
      BY <1>2, <1>4, <1>8 DEF EndKept
    <2>3. agent.at # "off" /\ ~told.running => \E i \in DOMAIN events' : IsEnd(events'[i])
      BY <1>2, <1>4 DEF EndKept
    <2> QED
      BY <1>1, <2>1, <2>2, <2>3 DEF EndKept
  <1>12. EventTypesOK' /\ CallsKept' /\ OffKept'
    BY <1>1, <1>4 DEF EventsInv, EventTypesOK, CallsKept, OffKept
  <1> QED
    BY <1>1, <1>5, <1>7, <1>9, <1>10, <1>11, <1>12 DEF EventsInv, LogInv

\* A turn starts with nothing of it told.
LEMMA TurnStartedKept ==
    ASSUME EventsInv, TurnStarted,
           \/ UNCHANGED follower
           \/ /\ follower.at = "starting"
              /\ \E at \in {"following", "returned"} : follower' = [follower EXCEPT !.at = at]
    PROVE  EventsInv'
  <1> DEFINE new == <<Ev("turn_started", 1, 0, "none", FALSE), State>>
  <1>1. new \in Seq(Event) /\ \A k \in DOMAIN new :
           /\ new[k].turn = 1 /\ new[k].type \in {"turn_started", "state"} /\ new[k].item = 0
    BY DEF Ev, State, Event, EventTypes
  <1>2. /\ events' = events \o new /\ UNCHANGED stream
        /\ agent.at = "off" /\ agent' = [agent EXCEPT !.at = "model"]
        /\ told' = [told EXCEPT !.running = TRUE]
    BY DEF TurnStarted, Published
  <1> HIDE DEF new
  <1>3. /\ EventTypesOK /\ CallsKept /\ ItemsTold /\ ItemsKnown /\ InterruptTold /\ EndKept
        /\ FollowerKept
        /\ \A i \in DOMAIN events : events[i].turn = 2
        /\ agent.calls = <<>> /\ stream = <<>>
        /\ told.open = {} /\ told.dispatches = {} /\ told.sub_runs = <<>>
    BY <1>2 DEF EventsInv, LogInv, EndKept, OffKept
  <1>4. /\ \A i \in DOMAIN events : i \in DOMAIN events' /\ events'[i] = events[i]
        /\ \A i \in DOMAIN events' :
              i \in DOMAIN events \/ \E k \in DOMAIN new : i = Len(events) + k
        /\ \A k \in DOMAIN new : events'[Len(events) + k] = new[k]
        /\ events' \in Seq(Event) /\ DOMAIN events' = 1 .. Len(events') /\ events \in Seq(Event)
        /\ DOMAIN events = 1 .. Len(events) /\ Len(events) \in Nat /\ Len(events') \in Nat
        /\ Len(events) <= Len(events')
    <2>1. events \in Seq(Event)
      BY <1>3 DEF EventTypesOK
    <2> QED
      BY <1>1, <1>2, <2>1, ConcatAt
  <1>5. /\ agent' \in [at : {"off", "model", "tools", "done"}, responses : Nat, answered : Nat,
                       calls : Seq(ToolCall)]
        /\ agent'.at = "model" /\ agent'.calls = <<>> /\ agent'.answered = 0
        /\ told' \in [running : BOOLEAN, open : SUBSET {0}, dispatches : SUBSET Nat,
                      sub_runs : Seq(Nat), interrupted : BOOLEAN]
        /\ told'.running = TRUE /\ told'.open = {} /\ told'.dispatches = {}
        /\ told'.sub_runs = <<>> /\ told'.interrupted = told.interrupted
    BY <1>2, <1>3 DEF EventTypesOK, CallsKept
  <1>6. \A i \in DOMAIN events' : events'[i].turn = 2 \/
           (events'[i].turn = 1 /\ events'[i].type \in {"turn_started", "state"}
               /\ events'[i].item = 0)
    BY <1>1, <1>3, <1>4
  <1>7. ASSUME NEW i
        PROVE  Starts(events', i) = {} /\ Completes(events', i) = {} /\ SubRuns(events', i) = {}
    BY <1>6 DEF Starts, Completes, SubRuns, Places
  <1>8. ItemsTold'
    BY <1>7 DEF ItemsTold, Alternates, SubRunWithin
  <1>9. ItemsKnown'
    BY <1>5, <1>6 DEF ItemsKnown
  <1>10. InterruptTold'
    BY <1>1, <1>2, <1>3, <1>5, InterruptKept
  <1>11. EndKept'
    BY <1>5, <1>6 DEF EndKept, IsEnd
  <1>12. CallsKept' /\ OffKept'
    BY <1>5 DEF CallsKept, OffKept
  <1>13. follower' \in [at : {"off", "starting", "following", "returned"}, seen : Nat,
                     calls : Seq(Nat), interrupted : BOOLEAN,
                     status : {"started", "turn_completed", "turn_failed", "timeout"}]
    BY <1>3 DEF EventTypesOK
  <1>14. EventTypesOK'
    BY <1>2, <1>3, <1>4, <1>5, <1>13 DEF EventTypesOK
  <1>15. FollowerKept'
    <2>1. \A i \in DOMAIN events' : ~IsCall(events'[i]) /\ ~IsEnd(events'[i])
      BY <1>6 DEF IsCall, IsEnd
    <2>2. CASE UNCHANGED follower
      <3>1. \A k \in DOMAIN new : ~IsCall(new[k])
        BY <1>1 DEF IsCall
      <3> QED
        BY <1>2, <1>3, <1>1, <2>2, <3>1, FollowerGrows
    <2>3. ASSUME follower.at = "starting",
                 NEW at \in {"following", "returned"}, follower' = [follower EXCEPT !.at = at]
          PROVE  FollowerKept'
      <3>1. /\ follower'.at = at /\ follower'.seen = follower.seen /\ follower'.calls = <<>>
            /\ follower'.status = "started" /\ follower.seen \in 0 .. Len(events')
        BY <1>3, <1>4, <2>3 DEF EventTypesOK, FollowerKept
      <3>2. \A k \in 1 .. follower.seen : ~IsCall(events'[k]) /\ ~IsEnd(events'[k])
        BY <1>4, <2>1, <3>1
      <3>3. Tells(events', <<>>, follower'.seen)
        BY <3>1, <3>2 DEF Tells
      <3>4. TellsCalls(follower.calls, follower.seen)'
        <4>1. Tells(events', follower'.calls, follower'.seen)
          BY <3>1, <3>3
        <4> QED
          BY <4>1 DEF TellsCalls, Tells
      <3> QED
        BY <1>5, <3>1, <3>2, <3>4 DEF FollowerKept
    <2> QED
      BY <2>2, <2>3
  <1>16. StreamKept' /\ ToldKept' /\ LogKept'
    <2>1. stream' = <<>>
      BY <1>2, <1>3
    <2>2. StreamKept'
      BY <1>5, <2>1 DEF StreamKept, OutputsWait
    <2>3. ToldKept'
      BY <1>5, <2>1 DEF ToldKept, TextOpen, DispatchesKnown, SubRunsHeld, SubRunsDiffer, RunningUntold
    <2>4. LogKept'
      BY <1>5, <1>7 DEF LogKept, IsOpen
    <2> QED
      BY <2>2, <2>3, <2>4
  <1> QED
    BY <1>8, <1>9, <1>10, <1>11, <1>12, <1>14, <1>15, <1>16 DEF EventsInv, LogInv

\* A turn ends once; when it completes, nothing of it is open.
LEMMA EndsKept ==
    ASSUME EventsInv, NEW type \in {"turn_completed", "turn_failed"}, NEW flag \in BOOLEAN,
           Ends(type, flag), stream' \in Seq(QueuedEvent),
           type = "turn_completed" =>
               /\ \A item \in 0 .. Len(agent.calls) : ~IsOpen(events, item)
               /\ told.sub_runs = <<>> /\ flag = told.interrupted
    PROVE  EventsInv'
  <1> DEFINE new == <<Ev(type, 1, 0, "none", flag), State>>
  <1>1. /\ new \in Seq(Event) /\ DOMAIN new = {1, 2} /\ new[2].type = "state" /\ new[2].turn = 1
        /\ new[1].type = type /\ new[1].turn = 1 /\ new[1].item = 0 /\ new[1].flag = flag
        /\ new[2].item = 0
    BY DEF Ev, State, Event, EventTypes
  <1>2. /\ events' = events \o new /\ UNCHANGED <<agent, follower>>
        /\ told.running /\ told' = [told EXCEPT !.running = FALSE]
    BY DEF Ends, Published
  <1> HIDE DEF new
  <1>3. /\ EventTypesOK /\ CallsKept /\ ItemsTold /\ ItemsKnown /\ InterruptTold /\ EndKept
        /\ FollowerKept
        /\ \A i \in DOMAIN events : ~IsEnd(events[i])
        /\ agent.at # "off"
    BY <1>2 DEF EventsInv, LogInv, EndKept
  <1>4. /\ \A i \in DOMAIN events : i \in DOMAIN events' /\ events'[i] = events[i]
        /\ \A i \in DOMAIN events' :
              i \in DOMAIN events \/ \E k \in DOMAIN new : i = Len(events) + k
        /\ \A k \in DOMAIN new : Len(events) + k \in DOMAIN events' /\ events'[Len(events) + k] = new[k]
        /\ events' \in Seq(Event) /\ DOMAIN events' = 1 .. Len(events') /\ events \in Seq(Event)
        /\ DOMAIN events = 1 .. Len(events) /\ Len(events) \in Nat /\ Len(events') \in Nat
        /\ Len(events') = Len(events) + Len(new)
    <2>1. events \in Seq(Event)
      BY <1>3 DEF EventTypesOK
    <2>2. new \in Seq(Event) /\ events' = events \o new
      BY <1>1, <1>2
    <2>3. \A i \in DOMAIN events : i \in DOMAIN events' /\ events'[i] = events[i]
      BY <2>1, <2>2, LogAt
    <2>4. \A i \in DOMAIN events' :
                i \in DOMAIN events \/ \E k \in DOMAIN new : i = Len(events) + k
      BY <2>1, <2>2, LogAt
    <2>5. \A k \in DOMAIN new :
             Len(events) + k \in DOMAIN events' /\ events'[Len(events) + k] = new[k]
      BY <2>1, <2>2, LogAt
    <2>6. /\ events' \in Seq(Event) /\ DOMAIN events' = 1 .. Len(events')
          /\ DOMAIN events = 1 .. Len(events) /\ Len(events) \in Nat
          /\ Len(events') = Len(events) + Len(new) /\ Len(new) \in Nat
      BY <2>1, <2>2, LogAt
    <2> QED
      BY <2>1, <2>3, <2>5, <2>6, <2>4
  <1>5. /\ told' \in [running : BOOLEAN, open : SUBSET {0}, dispatches : SUBSET Nat,
                      sub_runs : Seq(Nat), interrupted : BOOLEAN]
        /\ told'.running = FALSE /\ told'.sub_runs = told.sub_runs
        /\ told'.interrupted = told.interrupted
    BY <1>2, <1>3 DEF EventTypesOK
  <1>6. ASSUME NEW i PROVE (Alternates(events, i) => Alternates(events', i)) /\
                           (SubRunWithin(events, i) => SubRunWithin(events', i)) /\
                           (IsOpen(events, i) <=> IsOpen(events', i))
    <2>1. \A k \in DOMAIN new : new[k].turn = 1 =>
             new[k].type \notin {"item_started", "item_completed", "sub_run"}
      BY <1>1
    <2> QED
      BY <1>1, <1>2, <1>4, <2>1, PlainKept
  <1>7. ItemsTold'
    BY <1>2, <1>3, <1>6 DEF ItemsTold
  <1>8. ItemsKnown'
    BY <1>1, <1>2, <1>3, <1>4 DEF ItemsKnown
  <1>9. InterruptTold'
    BY <1>1, <1>2, <1>3, <1>5, InterruptKept
  <1>10. EndKept'
    <2>1. /\ DOMAIN events' = DOMAIN events \cup {Len(events) + 1, Len(events) + 2}
          /\ Len(events') = Len(events) + 2
      <3>1. Len(new) = 2
        BY <1>1
      <3> QED
        BY <1>4, <3>1
    <2>2. events'[Len(events) + 1] = new[1] /\ events'[Len(events) + 2] = new[2]
      BY <1>1, <1>4
    <2>3. ASSUME NEW i \in DOMAIN events', IsEnd(events'[i])
          PROVE  i = Len(events) + 1 /\ events'[i] = new[1]
      BY <1>1, <1>3, <1>4, <2>1, <2>2, <2>3 DEF IsEnd
    <2>4. IsEnd(events'[Len(events) + 1])
      BY <1>1, <2>2 DEF IsEnd
    <2>5. \A k \in Len(events) + 1 + 1 .. Len(events') : k = Len(events) + 2
      BY <1>4, <2>1
    <2>6. ASSUME NEW i \in DOMAIN events', IsEnd(events'[i])
          PROVE  /\ ~told'.running /\ agent'.at # "off" /\ events'[i].item = 0
                 /\ events'[i].type = "turn_completed" =>
                       /\ \A item \in 0 .. Len(agent'.calls) : ~IsOpen(events', item)
                       /\ told'.sub_runs = <<>> /\ events'[i].flag = told'.interrupted
                 /\ \A k \in i + 1 .. Len(events') : events'[k].turn = 1 => events'[k].type = "state"
      <3>1. i = Len(events) + 1 /\ events'[i] = new[1]
        BY <2>3, <2>6
      <3>2. ASSUME events'[i].type = "turn_completed"
            PROVE  /\ \A item \in 0 .. Len(agent'.calls) : ~IsOpen(events', item)
                   /\ told'.sub_runs = <<>> /\ events'[i].flag = told'.interrupted
        <4>1. type = "turn_completed"
          BY <1>1, <3>1, <3>2
        <4> QED
          BY <1>1, <1>2, <1>5, <1>6, <3>1, <4>1
      <3>3. ASSUME NEW k \in i + 1 .. Len(events') PROVE events'[k].type = "state"
        <4>1. k = Len(events) + 2
          BY <2>5, <3>1
        <4> QED
          BY <1>1, <2>2, <4>1
      <3> QED
        BY <1>1, <1>2, <1>3, <1>5, <3>1, <3>2, <3>3
    <2> QED
      BY <1>2, <1>3, <1>4, <1>5, <2>1, <2>4, <2>6 DEF EndKept
  <1>11. FollowerKept'
    <2>1. \A k \in DOMAIN new : ~IsCall(new[k])
      BY <1>1 DEF IsCall
    <2> QED
      BY <1>1, <1>2, <1>3, <2>1, FollowerGrows
  <1>12. EventTypesOK' /\ CallsKept' /\ OffKept'
    BY <1>2, <1>3, <1>4, <1>5 DEF EventTypesOK, CallsKept, OffKept
  <1> QED
    BY <1>5, <1>7, <1>8, <1>9, <1>10, <1>11, <1>12 DEF EventsInv, LogInv

ToldType ==
    [running : BOOLEAN, open : SUBSET {0}, dispatches : SUBSET Nat, sub_runs : Seq(Nat),
     interrupted : BOOLEAN]

\* The turn takes an event off the queue.
Translates ==
    /\ EventsInv /\ told.running /\ stream # <<>> /\ stream' = Tail(stream)
    /\ UNCHANGED <<agent, follower>>

\* What is left to show of an event that was translated.
LEMMA Translated ==
    ASSUME Translates, NEW new \in Seq(Event), events' = events \o new,
           told' \in ToldType, told'.running = TRUE, ToldKept', LogKept',
           \A i \in DOMAIN new :
               new[i].turn = 1 /\ new[i].item \in 0 .. Len(agent.calls) /\ ~IsEnd(new[i]),
           \A i \in 0 .. Len(agent.calls) : Alternates(events', i) /\ SubRunWithin(events', i),
           told'.interrupted <=> \/ told.interrupted
                                 \/ \E k \in DOMAIN new :
                                       new[k].type = "item_completed" /\ new[k].flag
    PROVE  EventsInv'
  <1>1. /\ EventTypesOK /\ LogInv /\ FollowerKept /\ told.running /\ UNCHANGED <<agent, follower>>
        /\ CallsKept /\ StreamKept /\ stream # <<>> /\ stream' = Tail(stream) /\ agent.at # "off"
    BY DEF Translates, EventsInv, LogInv, EndKept
  <1>2. LogInv' /\ FollowerKept'
    BY <1>1, LogGrows
  <1>3. stream' \in Seq(QueuedEvent) /\ StreamKept'
    BY <1>1, TailKept
  <1>4. events' \in Seq(Event)
    BY <1>1, LogAt DEF EventTypesOK
  <1>5. EventTypesOK' /\ CallsKept' /\ OffKept'
    BY <1>1, <1>3, <1>4 DEF EventTypesOK, CallsKept, OffKept, ToldType
  <1> QED
    BY <1>2, <1>3, <1>5 DEF EventsInv

\* A part or the whole of a text.
LEMMA MessageTold ==
    ASSUME Translates, Head(stream).type \in {"delta", "message"},
           NEW new \in Seq(Event), events' = events \o new,
           NEW open \in SUBSET {0}, told' = [told EXCEPT !.open = open],
           \A k \in DOMAIN new :
               /\ new[k].turn = 1 /\ new[k].item = 0 /\ new[k].flag = FALSE
               /\ new[k].type \in {"item_started", "item_delta", "item_completed"},
           Alternates(events', 0), IsOpen(events', 0) <=> 0 \in open,
           0 \in open => \E k \in DOMAIN stream' : stream'[k].type = "message"
    PROVE  EventsInv'
  <1>1. /\ EventTypesOK /\ CallsKept /\ StreamKept /\ ToldKept /\ LogKept /\ ItemsTold
        /\ UNCHANGED <<agent, follower>> /\ told.running
        /\ stream # <<>> /\ stream' = Tail(stream) /\ events \in Seq(Event)
    BY DEF Translates, EventsInv, LogInv, EventTypesOK
  <1>2. told' \in ToldType /\ told'.running = TRUE /\ told'.open = open
        /\ told'.dispatches = told.dispatches /\ told'.sub_runs = told.sub_runs
        /\ told'.interrupted = told.interrupted
    BY <1>1 DEF EventTypesOK, ToldType
  <1>3. \A type \in {"tool_called", "tool_output"} : \A i :
           InQueue(type, i) <=> InQueue(type, i)'
    BY <1>1, TailKept
  <1>4. ASSUME NEW i, i # 0
        PROVE  /\ Starts(events', i) = Starts(events, i) /\ Completes(events', i) = Completes(events, i)
               /\ Alternates(events', i) <=> Alternates(events, i)
               /\ IsOpen(events', i) <=> IsOpen(events, i)
    <2>1. Starts(new, i) = {} /\ Completes(new, i) = {}
      BY <1>4 DEF Starts, Completes, Places
    <2> QED
      BY <1>1, <2>1, QuietKept
  <1>5. ASSUME NEW i, SubRunWithin(events, i)
        PROVE  SubRunWithin(events', i) /\ SubRuns(events', i) = SubRuns(events, i)
    <2>1. SubRuns(new, i) = {}
      BY DEF SubRuns, Places
    <2> QED
      BY <1>1, <1>5, <2>1, SubRunKept
  <1>6. \A i \in DOMAIN agent.calls : i # 0 /\ i \in 0 .. Len(agent.calls)
    BY <1>1 DEF EventTypesOK
  <1>7. \A i \in 0 .. Len(agent.calls) : Alternates(events', i) /\ SubRunWithin(events', i)
    BY <1>1, <1>4, <1>5 DEF ItemsTold
  <1>8. \A i \in DOMAIN agent.calls : SubRuns(events', i) = SubRuns(events, i)
    BY <1>1, <1>5, <1>6 DEF ItemsTold
  <1>9. ToldKept'
    <2>1. DispatchesKnown'
      BY <1>1, <1>2, <1>3 DEF ToldKept, DispatchesKnown
    <2>2. SubRunsHeld'
      BY <1>1, <1>2, <1>3, <1>8 DEF ToldKept, SubRunsHeld
    <2>3. SubRunsDiffer' /\ TextOpen'
      BY <1>1, <1>2 DEF ToldKept, SubRunsDiffer, TextOpen
    <2>4. RunningUntold'
      BY <1>1, <1>8 DEF ToldKept, RunningUntold
    <2> QED
      BY <2>1, <2>2, <2>3, <2>4 DEF ToldKept
  <1>10. LogKept'
    BY <1>1, <1>2, <1>3, <1>4, <1>6 DEF LogKept
  <1>11. \A i \in DOMAIN new :
             new[i].turn = 1 /\ new[i].item \in 0 .. Len(agent.calls) /\ ~IsEnd(new[i])
    <2>1. 0 \in 0 .. Len(agent.calls)
      BY <1>1 DEF EventTypesOK
    <2>2. \A i \in DOMAIN new : ~IsEnd(new[i])
      BY DEF IsEnd
    <2> QED
      BY <2>1, <2>2
  <1>12. told'.interrupted <=> \/ told.interrupted
                               \/ \E k \in DOMAIN new : new[k].type = "item_completed" /\ new[k].flag
    BY <1>2
  <1> QED
    BY <1>2, <1>7, <1>9, <1>10, <1>11, <1>12, Translated

\* Where a log of one event tells of an item.
LEMMA PlacesOfOne ==
    ASSUME NEW ev \in Event, NEW type, NEW item
    PROVE  Places(<<ev>>, type, item) =
              IF ev.turn = 1 /\ ev.type = type /\ ev.item = item THEN {1} ELSE {}
  BY DEF Places

\* One event.
LEMMA OneEvent ==
    ASSUME NEW S, NEW e \in S
    PROVE  /\ <<e>> \in Seq(S) /\ DOMAIN <<e>> = {1} /\ <<e>>[1] = e
           /\ <<>> \o <<e>> = <<e>>
  OBVIOUS

\* The events of a text that has begun, or has not.
LEMMA MessageEvents ==
    ASSUME NEW e \in Event, e.turn = 1, e.item = 0, e.flag = FALSE, NEW new,
           new = MessageStarted(0) \o <<e>>, e.type \in {"item_delta", "item_completed"}
    PROVE  LET s == Ev("item_started", 1, 0, "message", FALSE) IN
           /\ new \in Seq(Event) /\ <<s>> \in Seq(Event) /\ <<e>> \in Seq(Event)
           /\ \A k \in DOMAIN new :
                 /\ new[k].turn = 1 /\ new[k].item = 0 /\ new[k].flag = FALSE
                 /\ new[k].type \in {"item_started", "item_delta", "item_completed"}
           /\ 0 \in told.open => new = <<e>>
           /\ 0 \notin told.open => new = <<s>> \o <<e>>
           /\ Starts(<<s>>, 0) = {1} /\ Completes(<<s>>, 0) = {} /\ Starts(<<e>>, 0) = {}
           /\ Completes(<<e>>, 0) = IF e.type = "item_completed" THEN {1} ELSE {}
  <1> DEFINE s == Ev("item_started", 1, 0, "message", FALSE)
  <1>1. /\ s \in Event /\ s.turn = 1 /\ s.item = 0 /\ s.flag = FALSE /\ s.type = "item_started"
        /\ new = (IF 0 \in told.open THEN <<>> ELSE <<s>>) \o <<e>>
    BY DEF Ev, Event, EventTypes, MessageStarted
  <1> HIDE DEF s
  <1>2. /\ Starts(<<s>>, 0) = {1} /\ Completes(<<s>>, 0) = {} /\ Starts(<<e>>, 0) = {}
        /\ Completes(<<e>>, 0) = IF e.type = "item_completed" THEN {1} ELSE {}
    BY <1>1, PlacesOfOne DEF Starts, Completes
  <1>3. /\ <<s>> \in Seq(Event) /\ DOMAIN <<s>> = {1} /\ <<s>>[1] = s
        /\ <<e>> \in Seq(Event) /\ DOMAIN <<e>> = {1} /\ <<e>>[1] = e
        /\ <<>> \o <<e>> = <<e>>
    BY <1>1, OneEvent
  <1>4. ASSUME 0 \in told.open
        PROVE  /\ new = <<e>> /\ new \in Seq(Event)
               /\ \A k \in DOMAIN new : new[k] \in {s, e}
    BY <1>1, <1>3, <1>4
  <1>5. ASSUME 0 \notin told.open
        PROVE  /\ new = <<s>> \o <<e>> /\ new \in Seq(Event)
               /\ \A k \in DOMAIN new : new[k] \in {s, e}
    <2>1. new = <<s>> \o <<e>>
      BY <1>1, <1>5
    <2> DEFINE a == <<s>>  b == <<e>>
    <2>2. a \in Seq({s, e}) /\ b \in Seq({s, e})
      OBVIOUS
    <2>3. new = a \o b
      BY <2>1, Zenon
    <2> HIDE DEF a, b
    <2>4. new \in Seq({s, e}) /\ \A k \in DOMAIN new : new[k] \in {s, e}
      <3>1. a \o b \in Seq({s, e})
        BY <2>2
      <3>2. \A k \in DOMAIN (a \o b) : (a \o b)[k] \in {s, e}
        BY <2>2
      <3> QED
        BY <2>3, <3>1, <3>2, Zenon
    <2>5. new \in Seq(Event)
      BY <1>1, <2>4
    <2> QED
      BY <2>1, <2>4, <2>5
  <1>6. new \in Seq(Event) /\ \A k \in DOMAIN new : new[k] \in {s, e}
    BY <1>4, <1>5
  <1>7. \A k \in DOMAIN new :
             /\ new[k].turn = 1 /\ new[k].item = 0 /\ new[k].flag = FALSE
             /\ new[k].type \in {"item_started", "item_delta", "item_completed"}
    BY <1>1, <1>6
  <1> QED
    BY <1>2, <1>3, <1>4, <1>5, <1>6, <1>7 DEF s

\* A text starts with its first piece, or with all of it.
LEMMA TranslateMessage ==
    ASSUME Translates,
           \/ Head(stream).type = "delta" /\ Delta(Head(stream))
           \/ Head(stream).type = "message" /\ MessageOutput(Head(stream))
    PROVE  EventsInv'
  <1>1. /\ EventTypesOK /\ StreamKept /\ ToldKept /\ LogKept /\ ItemsTold /\ events \in Seq(Event)
        /\ UNCHANGED agent /\ stream # <<>> /\ stream' = Tail(stream) /\ told.open \subseteq {0}
    BY DEF Translates, EventsInv, LogInv, EventTypesOK
  <1>2. Head(stream).item = 0
    BY <1>1, TailKept DEF StreamKept
  <1>3. Alternates(events, 0) /\ (IsOpen(events, 0) <=> 0 \in told.open)
    <2>1. Len(agent.calls) \in Nat
      BY <1>1 DEF EventTypesOK
    <2> QED
      BY <1>1, <2>1 DEF ItemsTold, LogKept
  <1> DEFINE s == Ev("item_started", 1, 0, "message", FALSE)
  <1>4. CASE Head(stream).type = "delta" /\ Delta(Head(stream))
    <2> DEFINE e == Ev("item_delta", 1, 0, "none", FALSE)
               new == MessageStarted(0) \o <<e>>
               open == told.open \cup {0}
    <2>1. /\ events' = events \o new /\ told' = [told EXCEPT !.open = open] /\ open \in SUBSET {0}
      BY <1>1, <1>2, <1>4 DEF Delta, Published
    <2>2. e \in Event /\ e.turn = 1 /\ e.item = 0 /\ e.flag = FALSE /\ e.type = "item_delta"
      BY DEF Ev, Event, EventTypes
    <2> HIDE DEF e
    <2>3. /\ new \in Seq(Event) /\ <<s>> \in Seq(Event) /\ <<e>> \in Seq(Event)
          /\ \A k \in DOMAIN new :
                 /\ new[k].turn = 1 /\ new[k].item = 0 /\ new[k].flag = FALSE
                 /\ new[k].type \in {"item_started", "item_delta", "item_completed"}
          /\ 0 \in told.open => new = <<e>>
          /\ 0 \notin told.open => new = <<s>> \o <<e>>
          /\ Starts(<<s>>, 0) = {1} /\ Completes(<<s>>, 0) = {} /\ Starts(<<e>>, 0) = {}
          /\ Completes(<<e>>, 0) = {}
      BY <2>2, MessageEvents
    <2> HIDE DEF s, new
    <2>4. Alternates(events', 0) /\ IsOpen(events', 0)
      <3>1. CASE 0 \in told.open
        <4>1. events' = events \o <<e>>
          BY <2>1, <2>3, <3>1
        <4> QED
          BY <1>1, <1>3, <2>3, <3>1, <4>1, QuietKept
      <3>2. CASE 0 \notin told.open
        <4>1. Alternates(events \o <<s>>, 0) /\ IsOpen(events \o <<s>>, 0)
          BY <1>1, <1>3, <2>3, <3>2, StartedKept
        <4>2. events \o <<s>> \in Seq(Event) /\ events' = (events \o <<s>>) \o <<e>>
          <5>1. events' = events \o (<<s>> \o <<e>>)
            BY <2>1, <2>3, <3>2
          <5> QED
            BY <1>1, <2>3, <5>1
        <4> QED
          BY <2>3, <4>1, <4>2, QuietKept
      <3> QED
        BY <3>1, <3>2
    <2>5. \E k \in DOMAIN stream' : stream'[k].type = "message"
      BY <1>1, <1>4, TailKept
    <2>6. 0 \in open
      OBVIOUS
    <2> HIDE DEF open
    <2> QED
      BY <1>4, <2>1, <2>3, <2>4, <2>5, <2>6, MessageTold
  <1>5. CASE Head(stream).type = "message" /\ MessageOutput(Head(stream))
    <2> DEFINE e == Ev("item_completed", 1, 0, "message", FALSE)
               new == MessageStarted(0) \o <<e>>
               open == told.open \ {0}
    <2>1. /\ events' = events \o new /\ told' = [told EXCEPT !.open = open] /\ open \in SUBSET {0}
      BY <1>1, <1>2, <1>5 DEF MessageOutput, Published
    <2>2. e \in Event /\ e.turn = 1 /\ e.item = 0 /\ e.flag = FALSE /\ e.type = "item_completed"
      BY DEF Ev, Event, EventTypes
    <2> HIDE DEF e
    <2>3. /\ new \in Seq(Event) /\ <<s>> \in Seq(Event) /\ <<e>> \in Seq(Event)
          /\ \A k \in DOMAIN new :
                 /\ new[k].turn = 1 /\ new[k].item = 0 /\ new[k].flag = FALSE
                 /\ new[k].type \in {"item_started", "item_delta", "item_completed"}
          /\ 0 \in told.open => new = <<e>>
          /\ 0 \notin told.open => new = <<s>> \o <<e>>
          /\ Starts(<<s>>, 0) = {1} /\ Completes(<<s>>, 0) = {} /\ Starts(<<e>>, 0) = {}
          /\ Completes(<<e>>, 0) = {1}
      BY <2>2, MessageEvents
    <2> HIDE DEF s, new
    <2>4. Alternates(events', 0) /\ ~IsOpen(events', 0)
      <3>1. CASE 0 \in told.open
        <4>1. events' = events \o <<e>>
          BY <2>1, <2>3, <3>1
        <4> QED
          BY <1>1, <1>3, <2>3, <3>1, <4>1, CompletedKept
      <3>2. CASE 0 \notin told.open
        <4>1. events' = events \o (<<s>> \o <<e>>)
          BY <2>1, <2>3, <3>2
        <4>2. Alternates(events, 0) /\ ~IsOpen(events, 0)
          BY <1>3, <3>2
        <4> QED
          BY <1>1, <2>3, <4>1, <4>2, ToldAtOnceKept
      <3> QED
        BY <3>1, <3>2
    <2>5. 0 \notin open
      OBVIOUS
    <2> HIDE DEF open
    <2> QED
      BY <1>5, <2>1, <2>3, <2>4, <2>5, MessageTold
  <1> QED
    BY <1>4, <1>5

\* A call starts once, when its event leaves the queue.
LEMMA TranslateToolCalled ==
    ASSUME Translates, Head(stream).type = "tool_called", ToolCalled(Head(stream))
    PROVE  EventsInv'
  <1>1. /\ EventTypesOK /\ CallsKept /\ StreamKept /\ ToldKept /\ LogKept /\ ItemsTold
        /\ UNCHANGED <<agent, follower>> /\ told.running
        /\ stream # <<>> /\ stream' = Tail(stream) /\ events \in Seq(Event)
        /\ Len(agent.calls) \in Nat /\ DOMAIN agent.calls = 1 .. Len(agent.calls)
    BY DEF Translates, EventsInv, LogInv, EventTypesOK
  <1>2. PICK x : x = Head(stream).item
    OBVIOUS
  <1> DEFINE e == Ev("item_started", 1, x, "tool_call", FALSE)
             new == <<e>>
             dispatches == IF Head(stream).dispatch THEN told.dispatches \cup {x}
                           ELSE told.dispatches
  <1>3. events' = events \o new /\ told' = [told EXCEPT !.dispatches = dispatches]
    BY <1>2 DEF ToolCalled, Published
  <1>4. /\ x \in DOMAIN agent.calls
        /\ Head(stream).dispatch <=> agent.calls[x].kind = "dispatch"
        /\ InQueue("tool_called", x)
        /\ ~InQueue("tool_called", x)'
        /\ \A i : i # x => (InQueue("tool_called", i) <=> InQueue("tool_called", i)')
        /\ \A i : InQueue("tool_output", i) <=> InQueue("tool_output", i)'
    <2>1. /\ Head(stream) = stream[1] /\ 1 \in DOMAIN stream
          /\ \A type, item : InQueue(type, item) <=>
                \/ Head(stream).type = type /\ Head(stream).item = item
                \/ InQueue(type, item)'
      BY <1>1, TailKept
    <2>2. ~InQueue("tool_called", x)'
      BY <1>2, <1>1, TailKept
    <2>3. x \in DOMAIN agent.calls /\ (Head(stream).dispatch <=> agent.calls[x].kind = "dispatch")
      BY <1>2, <1>1, <2>1 DEF StreamKept
    <2> QED
      BY <1>2, <2>1, <2>2, <2>3
  <1>5. (\E k \in DOMAIN stream : stream[k].type = "message") =>
           \E k \in DOMAIN stream' : stream'[k].type = "message"
    BY <1>1, TailKept
  <1> HIDE DEF dispatches
  <1>6. /\ e \in Event /\ e.turn = 1 /\ e.type = "item_started" /\ e.item = x
        /\ x \in Nat /\ x # 0
    BY <1>1, <1>4 DEF Ev, Event, EventTypes
  <1> HIDE DEF e
  <1>7. new \in Seq(Event) /\ DOMAIN new = {1} /\ new[1] = e
    BY <1>6
  <1>8. /\ Starts(new, x) = {1} /\ \A i : i # x => Starts(new, i) = {}
        /\ \A i : Completes(new, i) = {} /\ SubRuns(new, i) = {}
    BY <1>6, PlacesOfOne DEF Starts, Completes, SubRuns
  <1> HIDE DEF new
  <1>9. Starts(events, x) = {} /\ Alternates(events, x)
    BY <1>1, <1>4 DEF LogKept, ItemsTold
  <1>10. Completes(events, x) = {} /\ ~IsOpen(events, x)
    BY <1>9 DEF Alternates, IsOpen
  <1>11. Alternates(events', x) /\ IsOpen(events', x)
    BY <1>1, <1>3, <1>7, <1>8, <1>9, <1>10, StartedKept
  <1>12. Completes(events', x) = {} /\ Starts(events', x) # {}
    <2>1. Starts(events', x) # {}
      BY <1>11 DEF IsOpen
    <2>2. Completes(events', x) = Completes(events, x)
      BY <1>1, <1>3, <1>7, <1>8, PlacesGrow DEF Completes
    <2> QED
      BY <1>10, <2>1, <2>2
  <1>13. ASSUME NEW i, i # x
         PROVE  /\ Starts(events', i) = Starts(events, i) /\ Completes(events', i) = Completes(events, i)
                /\ Alternates(events', i) <=> Alternates(events, i)
                /\ IsOpen(events', i) <=> IsOpen(events, i)
    BY <1>1, <1>3, <1>7, <1>8, <1>13, QuietKept
  <1>14. ASSUME NEW i, SubRunWithin(events, i)
         PROVE  SubRunWithin(events', i) /\ SubRuns(events', i) = SubRuns(events, i)
    BY <1>1, <1>3, <1>7, <1>8, <1>14, SubRunKept
  <1>15. \A i \in 0 .. Len(agent.calls) : Alternates(events', i) /\ SubRunWithin(events', i)
    BY <1>1, <1>11, <1>13, <1>14 DEF ItemsTold
  <1>16. \A i \in DOMAIN agent.calls : SubRuns(events', i) = SubRuns(events, i)
    BY <1>1, <1>14 DEF ItemsTold
  <1>17. told.dispatches = {i \in DOMAIN agent.calls :
                              agent.calls[i].kind = "dispatch" /\ ~InQueue("tool_called", i)}
    BY <1>1 DEF ToldKept, DispatchesKnown
  <1>18. dispatches = {i \in DOMAIN agent.calls :
                          agent.calls[i].kind = "dispatch" /\ ~InQueue("tool_called", i)'}
    <2>1. CASE Head(stream).dispatch
      <3>1. dispatches = told.dispatches \cup {x}
        BY <2>1 DEF dispatches
      <3> QED
        BY <1>4, <1>17, <2>1, <3>1
    <2>2. CASE ~Head(stream).dispatch
      <3>1. dispatches = told.dispatches
        BY <2>2 DEF dispatches
      <3> QED
        BY <1>4, <1>17, <2>2, <3>1
    <2> QED
      BY <2>1, <2>2
  <1>19. dispatches \subseteq Nat
    BY <1>1, <1>18
  <1>20. told' \in ToldType /\ told'.running = TRUE /\ told'.open = told.open
         /\ told'.dispatches = dispatches /\ told'.sub_runs = told.sub_runs
         /\ told'.interrupted = told.interrupted
    BY <1>1, <1>3, <1>19 DEF EventTypesOK, ToldType
  <1>21. ToldKept'
    <2>1. DispatchesKnown'
      BY <1>1, <1>18, <1>20 DEF DispatchesKnown
    <2>2. SubRunsHeld'
      BY <1>1, <1>4, <1>16, <1>20 DEF ToldKept, SubRunsHeld
    <2>3. SubRunsDiffer' /\ TextOpen'
      BY <1>1, <1>5, <1>20 DEF ToldKept, SubRunsDiffer, TextOpen
    <2>4. RunningUntold'
      BY <1>1, <1>16 DEF ToldKept, RunningUntold
    <2> QED
      BY <2>1, <2>2, <2>3, <2>4 DEF ToldKept
  <1>22. LogKept'
    <2>1. IsOpen(events', 0) <=> 0 \in told'.open
      BY <1>1, <1>6, <1>13, <1>20 DEF LogKept
    <2>2. ASSUME NEW i \in DOMAIN agent.calls
          PROVE  /\ Starts(events', i) = {} <=> InQueue("tool_called", i)'
                 /\ Completes(events', i) # {} <=> i <= agent.answered /\ ~InQueue("tool_output", i)'
                 /\ IsOpen(events', i) => Completes(events', i) = {}
      <3>1. CASE i = x
        BY <1>1, <1>4, <1>10, <1>12, <2>2, <3>1 DEF LogKept
      <3>2. CASE i # x
        BY <1>1, <1>4, <1>13, <2>2, <3>2 DEF LogKept
      <3> QED
        BY <3>1, <3>2
    <2> QED
      BY <1>1, <2>1, <2>2 DEF LogKept
  <1>23. \A i \in DOMAIN new :
             /\ new[i].turn = 1 /\ new[i].item \in 0 .. Len(agent.calls) /\ ~IsEnd(new[i])
             /\ new[i].type # "item_completed"
    BY <1>1, <1>4, <1>6, <1>7 DEF IsEnd
  <1> QED
    BY <1>3, <1>7, <1>15, <1>20, <1>21, <1>22, <1>23, Translated

\* A function of 1 .. n is a sequence.
LEMMA FunctionIsSeq ==
    ASSUME NEW S, NEW n \in Nat, NEW f \in [1 .. n -> S]
    PROVE  f \in Seq(S) /\ Len(f) = n /\ DOMAIN f = 1 .. n
  OBVIOUS

TellsRuns(log, runs) ==
    /\ log \in Seq(Event) /\ Len(log) = Len(runs) /\ DOMAIN log = DOMAIN runs
    /\ \A k \in DOMAIN runs : log[k].turn = 1 /\ log[k].type = "sub_run" /\ log[k].item = runs[k]
    /\ \A i : /\ Starts(log, i) = {} /\ Completes(log, i) = {}
              /\ SubRuns(log, i) = {k \in DOMAIN runs : runs[k] = i}

\* The runs of sub-agents that are told, each as an event of its own.
LEMMA RunsTold ==
    ASSUME NEW runs \in Seq(Nat), NEW pre,
           pre = [k \in DOMAIN runs |-> Ev("sub_run", 1, runs[k], "none", FALSE)]
    PROVE  TellsRuns(pre, runs)
  <1>1. pre \in [1 .. Len(runs) -> Event] /\ Len(runs) \in Nat /\ DOMAIN runs = 1 .. Len(runs)
    BY DEF Ev, Event, EventTypes
  <1>2. pre \in Seq(Event) /\ Len(pre) = Len(runs) /\ DOMAIN pre = DOMAIN runs
    BY <1>1, FunctionIsSeq
  <1>3. \A k \in DOMAIN runs : pre[k].turn = 1 /\ pre[k].type = "sub_run" /\ pre[k].item = runs[k]
    BY DEF Ev
  <1>4. ASSUME NEW i
        PROVE  /\ Starts(pre, i) = {} /\ Completes(pre, i) = {}
               /\ SubRuns(pre, i) = {k \in DOMAIN runs : runs[k] = i}
    BY <1>2, <1>3 DEF Starts, Completes, SubRuns, Places
  <1> QED
    BY <1>2, <1>3, <1>4 DEF TellsRuns

\* What is published with the output of a tool: the runs, and that it completed.
Output(new, runs, x, flag) ==
    /\ new \in Seq(Event)
    /\ \A i : /\ Starts(new, i) = {} /\ SubRuns(new, i) = {k \in DOMAIN runs : runs[k] = i}
              /\ i = x => Completes(new, i) = {Len(runs) + 1}
              /\ i # x => Completes(new, i) = {}
    /\ \A k \in DOMAIN new :
          /\ new[k].turn = 1 /\ ~IsEnd(new[k])
          /\ new[k].item = 0 \/ new[k].item = x \/ \E l \in DOMAIN runs : new[k].item = runs[l]
    /\ (\E k \in DOMAIN new : new[k].type = "item_completed" /\ new[k].flag) <=> flag

TellsCompletion(log, e) ==
    /\ log \in Seq(Event) /\ 1 \in DOMAIN log /\ log[1] = e
    /\ \A k \in DOMAIN log :
          k = 1 \/ (log[k].turn = 1 /\ log[k].type = "state" /\ log[k].item = 0)
    /\ \A i : /\ Starts(log, i) = {} /\ SubRuns(log, i) = {}
              /\ i = e.item => Completes(log, i) = {1}
              /\ i # e.item => Completes(log, i) = {}

\* The completion of a call, and a snapshot after it or not.
LEMMA CompletionTold ==
    ASSUME NEW e \in Event, e.turn = 1, e.type = "item_completed",
           NEW rest, rest = <<e>> \/ rest = <<e, State>>
    PROVE  TellsCompletion(rest, e)
  <1>1. PICK s : s = State
    OBVIOUS
  <1>2. s \in Event /\ s.turn = 1 /\ s.type = "state" /\ s.item = 0
    BY <1>1 DEF State, Ev, Event, EventTypes
  <1>3. /\ rest \in Seq(Event) /\ 1 \in DOMAIN rest /\ rest[1] = e
        /\ \A k \in DOMAIN rest : k = 1 \/ rest[k] = s
    <2>1. CASE rest = <<e>>
      BY <2>1
    <2>2. CASE rest = <<e, State>>
      <3>1. rest = <<e, s>>
        BY <1>1, <2>2
      <3> QED
        BY <1>2, <3>1
    <2> QED
      BY <2>1, <2>2
  <1>4. ASSUME NEW i
        PROVE  /\ Starts(rest, i) = {} /\ SubRuns(rest, i) = {}
               /\ i = e.item => Completes(rest, i) = {1}
               /\ i # e.item => Completes(rest, i) = {}
    BY <1>2, <1>3 DEF Starts, Completes, SubRuns, Places
  <1> QED
    BY <1>2, <1>3, <1>4 DEF TellsCompletion

\* The sub-agents' runs, then the completion.
LEMMA OutputOf ==
    ASSUME NEW runs \in Seq(Nat), NEW pre, NEW rest, NEW e \in Event, e.turn = 1,
           e.type = "item_completed", TellsRuns(pre, runs), TellsCompletion(rest, e)
    PROVE  Output(pre \o rest, runs, e.item, e.flag)
  <1>1. PICK new : new = pre \o rest
    OBVIOUS
  <1>2. pre \in Seq(Event) /\ rest \in Seq(Event) /\ Len(pre) = Len(runs) /\ Len(runs) \in Nat
    BY DEF TellsRuns, TellsCompletion
  <1>3. new \in Seq(Event)
    BY <1>1, <1>2, LogAt
  <1>4. ASSUME NEW type, NEW i
        PROVE  /\ Places(new, type, i) =
                     Places(pre, type, i) \cup {Len(pre) + k : k \in Places(rest, type, i)}
               /\ Places(rest, type, i) = {} => Places(new, type, i) = Places(pre, type, i)
    BY <1>1, <1>2, PlacesGrow
  <1>5. ASSUME NEW i
        PROVE  /\ Starts(new, i) = {} /\ SubRuns(new, i) = {k \in DOMAIN runs : runs[k] = i}
               /\ i = e.item => Completes(new, i) = {Len(runs) + 1}
               /\ i # e.item => Completes(new, i) = {}
    <2>1. /\ Starts(pre, i) = {} /\ Completes(pre, i) = {}
          /\ SubRuns(pre, i) = {k \in DOMAIN runs : runs[k] = i}
      BY DEF TellsRuns
    <2>2. /\ Starts(rest, i) = {} /\ SubRuns(rest, i) = {}
          /\ i = e.item => Completes(rest, i) = {1}
          /\ i # e.item => Completes(rest, i) = {}
      BY DEF TellsCompletion
    <2>3. Starts(new, i) = {} /\ SubRuns(new, i) = {k \in DOMAIN runs : runs[k] = i}
      BY <1>4, <2>1, <2>2 DEF Starts, SubRuns
    <2>4. i # e.item => Completes(new, i) = {}
      BY <1>4, <2>1, <2>2 DEF Completes
    <2>5. ASSUME i = e.item PROVE Completes(new, i) = {Len(runs) + 1}
      <3>1. Completes(rest, i) = {1}
        BY <2>2, <2>5
      <3>2. Completes(new, i) = Completes(pre, i) \cup {Len(pre) + k : k \in Completes(rest, i)}
        BY <1>4 DEF Completes
      <3>3. {Len(pre) + k : k \in Completes(rest, i)} = {Len(runs) + 1}
        BY <1>2, <3>1
      <3> QED
        BY <2>1, <3>2, <3>3
    <2> QED
      BY <2>3, <2>4, <2>5
  <1>6. /\ \A k \in DOMAIN new : \/ k \in DOMAIN pre /\ new[k] = pre[k]
                                 \/ \E l \in DOMAIN rest : new[k] = rest[l]
        /\ \E k \in DOMAIN new : new[k] = e
    <2>1. \A i \in DOMAIN pre : new[i] = pre[i]
      BY <1>1, <1>2, LogAt
    <2>2. \A k \in DOMAIN rest : Len(pre) + k \in DOMAIN new /\ new[Len(pre) + k] = rest[k]
      BY <1>1, <1>2, LogAt
    <2>3. \A i \in DOMAIN new : i \in DOMAIN pre \/ \E k \in DOMAIN rest : i = Len(pre) + k
      BY <1>1, <1>2, LogAt
    <2>4. 1 \in DOMAIN rest /\ rest[1] = e
      BY DEF TellsCompletion
    <2> QED
      BY <2>1, <2>2, <2>3, <2>4
  <1>7. ASSUME NEW k \in DOMAIN new
        PROVE  /\ new[k].turn = 1 /\ ~IsEnd(new[k])
               /\ new[k].item = 0 \/ new[k].item = e.item \/ \E l \in DOMAIN runs : new[k].item = runs[l]
               /\ new[k].type = "item_completed" => new[k] = e
    <2>1. CASE k \in DOMAIN pre /\ new[k] = pre[k]
      BY <2>1 DEF TellsRuns, IsEnd
    <2>2. ASSUME NEW l \in DOMAIN rest, new[k] = rest[l]
          PROVE  /\ new[k].turn = 1 /\ ~IsEnd(new[k])
                 /\ new[k].item = 0 \/ new[k].item = e.item
                 /\ new[k].type = "item_completed" => new[k] = e
      BY <2>2 DEF TellsCompletion, IsEnd
    <2> QED
      BY <1>6, <2>1, <2>2
  <1>8. (\E k \in DOMAIN new : new[k].type = "item_completed" /\ new[k].flag) <=> e.flag
    BY <1>6, <1>7
  <1>9. Output(new, runs, e.item, e.flag)
    BY <1>3, <1>5, <1>7, <1>8 DEF Output
  <1> QED
    BY <1>1, <1>9

\* The output of a tool, after the runs that are told with it.
LEMMA OutputTold ==
    ASSUME Translates, Head(stream).type = "tool_output", NEW x, x = Head(stream).item,
           NEW new, NEW runs \in Seq(Nat), NEW flag, Output(new, runs, x, flag),
           events' = events \o new,
           \/ x \in told.dispatches /\ runs = told.sub_runs /\ told'.sub_runs = <<>>
           \/ x \notin told.dispatches /\ runs = <<>> /\ told'.sub_runs = told.sub_runs,
           told' \in ToldType, told'.running = TRUE, told'.open = told.open,
           told'.dispatches = told.dispatches,
           told'.interrupted <=> told.interrupted \/ flag
    PROVE  EventsInv'
  <1>1. /\ EventTypesOK /\ CallsKept /\ StreamKept /\ ToldKept /\ LogKept /\ ItemsTold
        /\ UNCHANGED <<agent, follower>> /\ told.running
        /\ stream # <<>> /\ stream' = Tail(stream) /\ events \in Seq(Event)
        /\ Len(agent.calls) \in Nat /\ DOMAIN agent.calls = 1 .. Len(agent.calls)
        /\ agent.answered \in Nat
    BY DEF Translates, EventsInv, LogInv, EventTypesOK
  <1>2. /\ x \in DOMAIN agent.calls /\ x \in Nat /\ x # 0 /\ x <= agent.answered
        /\ InQueue("tool_output", x) /\ ~InQueue("tool_output", x)'
        /\ \A i : i # x => (InQueue("tool_output", i) <=> InQueue("tool_output", i)')
        /\ \A i : InQueue("tool_called", i) <=> InQueue("tool_called", i)'
        /\ \A i \in Nat : InQueue("tool_called", i) => i > agent.answered
        /\ OutputsWait
    <2>1. /\ Head(stream) = stream[1] /\ 1 \in DOMAIN stream
          /\ \A type, item : InQueue(type, item) <=>
                \/ Head(stream).type = type /\ Head(stream).item = item
                \/ InQueue(type, item)'
      BY <1>1, TailKept
    <2>2. ~InQueue("tool_output", x)' /\ \A i \in Nat : InQueue("tool_called", i)' => i > agent.answered
      BY <1>1, TailKept
    <2>3. x \in DOMAIN agent.calls /\ x <= agent.answered
      BY <1>1, <2>1 DEF StreamKept
    <2>4. OutputsWait
      BY <2>1 DEF OutputsWait
    <2> QED
      BY <1>1, <2>1, <2>2, <2>3, <2>4
  <1>3. ~InQueue("tool_called", x)
    BY <1>1, <1>2
  <1>4. Alternates(events, x) /\ Completes(events, x) = {} /\ Starts(events, x) # {} /\ IsOpen(events, x)
    <2>1. Alternates(events, x) /\ Completes(events, x) = {} /\ Starts(events, x) # {}
      BY <1>1, <1>2, <1>3 DEF LogKept, ItemsTold
    <2> QED
      BY <2>1 DEF IsOpen
  <1>5. ASSUME NEW k \in DOMAIN runs
        PROVE  /\ runs[k] \in DOMAIN agent.calls /\ agent.calls[runs[k]].status # "running"
               /\ SubRuns(events, runs[k]) = {} /\ Starts(events, runs[k]) # {}
               /\ Completes(events, runs[k]) = {}
    <2>1. runs = told.sub_runs
      BY <1>5
    <2>2. PICK i : i = runs[k]
      OBVIOUS
    <2>3. /\ i \in DOMAIN agent.calls /\ agent.calls[i].status # "running"
          /\ i <= agent.answered => InQueue("tool_output", i)
          /\ SubRuns(events, i) = {}
      BY <1>1, <2>1, <2>2, <1>5 DEF ToldKept, SubRunsHeld
    <2>4. ~InQueue("tool_called", i)
      BY <1>1, <1>2, <2>3 DEF StreamKept
    <2>5. Starts(events, i) # {} /\ Completes(events, i) = {}
      BY <1>1, <2>3, <2>4 DEF LogKept
    <2> QED
      BY <2>2, <2>3, <2>5
  <1>6. \A k, l \in DOMAIN runs : k # l => runs[k] # runs[l]
    BY <1>1 DEF ToldKept, SubRunsDiffer
  <1>7. new \in Seq(Event) /\ Len(runs) \in Nat /\ DOMAIN runs = 1 .. Len(runs)
    BY DEF Output
  <1>8. ASSUME NEW i
        PROVE  /\ Starts(new, i) = {} /\ SubRuns(new, i) = {k \in DOMAIN runs : runs[k] = i}
               /\ i = x => Completes(new, i) = {Len(runs) + 1}
               /\ i # x => Completes(new, i) = {}
    BY DEF Output
  <1>9. \A k \in DOMAIN new :
           new[k].turn = 1 /\ new[k].item \in 0 .. Len(agent.calls) /\ ~IsEnd(new[k])
    <2>1. 0 \in 0 .. Len(agent.calls) /\ x \in 0 .. Len(agent.calls)
      BY <1>1, <1>2
    <2>2. \A l \in DOMAIN runs : runs[l] \in 0 .. Len(agent.calls)
      BY <1>1, <1>5
    <2> QED
      BY <2>1, <2>2 DEF Output
  <1>10. ASSUME NEW i, i # x
         PROVE  /\ Starts(events', i) = Starts(events, i) /\ Completes(events', i) = Completes(events, i)
                /\ Alternates(events', i) <=> Alternates(events, i)
                /\ IsOpen(events', i) <=> IsOpen(events, i)
    BY <1>1, <1>7, <1>8, <1>10, QuietKept
  <1>11. Alternates(events', x) /\ ~IsOpen(events', x)
    BY <1>1, <1>4, <1>7, <1>8, CompletedKept
  <1>12. Completes(events', x) # {} /\ Starts(events', x) = Starts(events, x)
    <2>1. Starts(events', x) = Starts(events, x)
      BY <1>1, <1>7, <1>8, PlacesGrow DEF Starts
    <2>2. Completes(events', x) # {}
      BY <1>4, <1>11, <2>1 DEF IsOpen
    <2> QED
      BY <2>1, <2>2
  <1>13. ASSUME NEW i \in 0 .. Len(agent.calls)
         PROVE  /\ SubRunWithin(events', i)
                /\ (\A k \in DOMAIN runs : runs[k] # i) => SubRuns(events', i) = SubRuns(events, i)
    <2>1. CASE \E k \in DOMAIN runs : runs[k] = i
      <3>1. PICK k \in DOMAIN runs : runs[k] = i
        BY <2>1
      <3>2. SubRuns(new, i) = {k}
        BY <1>6, <1>8, <3>1
      <3>3. \A l \in Completes(new, i) : k < l
        <4>1. k \in 1 .. Len(runs) /\ Len(runs) \in Nat
          OBVIOUS
        <4>2. \A l \in Completes(new, i) : l = Len(runs) + 1
          BY <1>8
        <4> QED
          BY <1>7, <4>1, <4>2
      <3>4. SubRuns(events, i) = {} /\ Starts(events, i) # {} /\ Completes(events, i) = {}
        BY <1>5, <3>1
      <3> QED
        BY <1>1, <1>7, <2>1, <3>2, <3>3, <3>4, SubRunTold
    <2>2. CASE \A k \in DOMAIN runs : runs[k] # i
      <3>1. SubRuns(new, i) = {}
        BY <1>8, <2>2
      <3>2. SubRunWithin(events, i)
        BY <1>1 DEF ItemsTold
      <3> QED
        BY <1>1, <1>7, <3>1, <3>2, SubRunKept
    <2> QED
      BY <2>1, <2>2
  <1>14. \A i \in 0 .. Len(agent.calls) : Alternates(events', i) /\ SubRunWithin(events', i)
    BY <1>1, <1>10, <1>11, <1>13 DEF ItemsTold
  <1>15. (\E k \in DOMAIN stream : stream[k].type = "message") =>
            \E k \in DOMAIN stream' : stream'[k].type = "message"
    BY <1>1, TailKept
  <1>16. ToldKept'
    <2>1. DispatchesKnown'
      BY <1>1, <1>2 DEF ToldKept, DispatchesKnown
    <2>2. SubRunsHeld'
      <3>1. CASE x \in told.dispatches
        <4>1. told'.sub_runs = <<>>
          BY <3>1
        <4> QED
          BY <4>1 DEF SubRunsHeld
      <3>2. CASE x \notin told.dispatches
        <4>1. told'.sub_runs = told.sub_runs /\ DOMAIN runs = {}
          BY <3>2
        <4>2. agent.calls[x].kind # "dispatch"
          BY <1>1, <1>2, <1>3, <3>2 DEF ToldKept, DispatchesKnown
        <4>3. ASSUME NEW k \in DOMAIN told.sub_runs, NEW i, i = told.sub_runs[k]
              PROVE  /\ i \in DOMAIN agent.calls /\ agent.calls[i].kind = "dispatch"
                     /\ agent.calls[i].status # "running"
                     /\ i <= agent.answered => InQueue("tool_output", i)'
                     /\ SubRuns(events', i) = {}
          <5>1. /\ i \in DOMAIN agent.calls /\ agent.calls[i].kind = "dispatch"
                /\ agent.calls[i].status # "running"
                /\ i <= agent.answered => InQueue("tool_output", i)
                /\ SubRuns(events, i) = {}
            BY <1>1, <4>3 DEF ToldKept, SubRunsHeld
          <5>2. SubRuns(events', i) = {}
            BY <1>1, <1>13, <4>1, <5>1
          <5> QED
            BY <1>2, <4>2, <5>1, <5>2
        <4> QED
          BY <1>1, <4>1, <4>3 DEF SubRunsHeld
      <3> QED
        BY <3>1, <3>2
    <2>3. SubRunsDiffer'
      BY <1>1 DEF ToldKept, SubRunsDiffer
    <2>4. TextOpen'
      BY <1>1, <1>15 DEF ToldKept, TextOpen
    <2>5. RunningUntold'
      BY <1>1, <1>5, <1>13 DEF ToldKept, RunningUntold
    <2> QED
      BY <2>1, <2>2, <2>3, <2>4, <2>5 DEF ToldKept
  <1>17. LogKept'
    <2>1. IsOpen(events', 0) <=> 0 \in told'.open
      BY <1>1, <1>2, <1>10 DEF LogKept
    <2>2. ASSUME NEW i \in DOMAIN agent.calls
          PROVE  /\ Starts(events', i) = {} <=> InQueue("tool_called", i)'
                 /\ Completes(events', i) # {} <=> i <= agent.answered /\ ~InQueue("tool_output", i)'
                 /\ IsOpen(events', i) => Completes(events', i) = {}
      <3>1. CASE i = x
        BY <1>1, <1>2, <1>3, <1>4, <1>11, <1>12, <2>2, <3>1 DEF LogKept
      <3>2. CASE i # x
        BY <1>1, <1>2, <1>10, <2>2, <3>2 DEF LogKept
      <3> QED
        BY <3>1, <3>2
    <2> QED
      BY <1>1, <2>1, <2>2 DEF LogKept
  <1>18. told'.interrupted <=> \/ told.interrupted
                               \/ \E k \in DOMAIN new : new[k].type = "item_completed" /\ new[k].flag
    BY DEF Output
  <1> QED
    BY <1>7, <1>9, <1>14, <1>16, <1>17, <1>18, Translated

\* An output completes its call, and a dispatch tells the runs that were held.
LEMMA TranslateToolOutput ==
    ASSUME Translates, Head(stream).type = "tool_output", ToolOutput(Head(stream))
    PROVE  EventsInv'
  <1>1. /\ EventTypesOK /\ StreamKept /\ stream # <<>> /\ stream' = Tail(stream) /\ UNCHANGED agent
        /\ told \in ToldType /\ told.running = TRUE
        /\ DOMAIN agent.calls \subseteq Nat
    BY DEF Translates, EventsInv, EventTypesOK, ToldType
  <1>2. PICK x, interrupt : x = Head(stream).item /\ interrupt = Head(stream).interrupt
    OBVIOUS
  <1>3. x \in Nat /\ interrupt \in BOOLEAN
    BY <1>1, <1>2, TailKept DEF QueuedEvent
  <1>4. PICK e : e = Ev("item_completed", 1, x, "tool_call", interrupt)
    OBVIOUS
  <1>5. e \in Event /\ e.turn = 1 /\ e.type = "item_completed" /\ e.item = x /\ e.flag = interrupt
    BY <1>3, <1>4 DEF Ev, Event, EventTypes
  <1>6. CASE x \in told.dispatches
    <2>1. PICK runs : runs = told.sub_runs
      OBVIOUS
    <2>2. PICK pre : pre = [k \in DOMAIN runs |-> Ev("sub_run", 1, runs[k], "none", FALSE)]
      OBVIOUS
    <2>3. PICK rest : rest = <<e, State>>
      OBVIOUS
    <2>4. runs \in Seq(Nat)
      BY <1>1, <2>1 DEF ToldType
    <2>5. Output(pre \o rest, runs, x, interrupt)
      <3>1. TellsRuns(pre, runs) /\ TellsCompletion(rest, e)
        BY <1>5, <2>2, <2>3, <2>4, RunsTold, CompletionTold
      <3>2. Output(pre \o rest, runs, e.item, e.flag)
        BY <1>5, <2>4, <3>1, OutputOf
      <3> QED
        BY <1>5, <3>2
    <2>6. /\ events' = events \o (pre \o rest)
          /\ told' = [told EXCEPT !.interrupted = @ \/ interrupt, !.sub_runs = <<>>]
      BY <1>2, <1>4, <1>6, <2>1, <2>2, <2>3 DEF ToolOutput, Published
    <2>7. /\ told' \in ToldType /\ told'.running = TRUE /\ told'.open = told.open
          /\ told'.dispatches = told.dispatches /\ told'.sub_runs = <<>>
          /\ told'.interrupted <=> told.interrupted \/ interrupt
      <3>1. PICK asked \in BOOLEAN : asked = (told.interrupted \/ interrupt)
        OBVIOUS
      <3>2. told' = [told EXCEPT !.interrupted = asked, !.sub_runs = <<>>]
        BY <2>6, <3>1
      <3>3. <<>> \in Seq(Nat)
        OBVIOUS
      <3>4. /\ told' \in ToldType /\ told'.running = told.running /\ told'.open = told.open
            /\ told'.dispatches = told.dispatches /\ told'.sub_runs = <<>>
            /\ told'.interrupted = asked
        <4>1. PICK t, u, none : t = told /\ u = told' /\ none = <<>>
          OBVIOUS
        <4>2. /\ t \in ToldType /\ none \in Seq(Nat)
              /\ u = [t EXCEPT !.interrupted = asked, !.sub_runs = none]
          BY <1>1, <3>2, <3>3, <4>1
        <4>3. /\ u \in ToldType /\ u.running = t.running /\ u.open = t.open
              /\ u.dispatches = t.dispatches /\ u.sub_runs = none /\ u.interrupted = asked
          BY <3>1, <4>2 DEF ToldType
        <4> QED
          BY <4>1, <4>3
      <3> QED
        BY <1>1, <3>1, <3>4
    <2>8. PICK new : new = pre \o rest
      OBVIOUS
    <2>9. events' = events \o new /\ Output(new, runs, x, interrupt)
      BY <2>5, <2>6, <2>8
    <2> QED
      BY <1>2, <1>6, <2>1, <2>4, <2>7, <2>9, OutputTold
  <1>7. CASE x \notin told.dispatches
    <2>1. PICK rest : events' = events \o rest /\ (rest = <<e>> \/ rest = <<e, State>>)
      BY <1>2, <1>4, <1>7 DEF ToolOutput, Published
    <2>2. told' = [told EXCEPT !.interrupted = @ \/ interrupt]
      BY <1>2, <1>7 DEF ToolOutput
    <2>3. /\ told' \in ToldType /\ told'.running = TRUE /\ told'.open = told.open
          /\ told'.dispatches = told.dispatches /\ told'.sub_runs = told.sub_runs
          /\ told'.interrupted <=> told.interrupted \/ interrupt
      BY <1>1, <1>3, <2>2 DEF ToldType
    <2>4. PICK runs : runs = <<>>
      OBVIOUS
    <2>5. PICK pre : pre = [k \in DOMAIN runs |-> Ev("sub_run", 1, runs[k], "none", FALSE)]
      OBVIOUS
    <2>6. runs \in Seq(Nat) /\ pre = <<>>
      BY <2>4, <2>5
    <2>7. rest \in Seq(Event) /\ Output(pre \o rest, runs, x, interrupt)
      <3>1. TellsRuns(pre, runs) /\ TellsCompletion(rest, e)
        BY <1>5, <2>1, <2>5, <2>6, RunsTold, CompletionTold
      <3>2. Output(pre \o rest, runs, e.item, e.flag)
        BY <1>5, <2>6, <3>1, OutputOf
      <3> QED
        BY <1>5, <3>1, <3>2 DEF TellsCompletion
    <2>8. pre \o rest = rest
      BY <2>6, <2>7
    <2> QED
      BY <1>2, <1>7, <2>1, <2>3, <2>4, <2>6, <2>7, <2>8, OutputTold
  <1> QED
    BY <1>6, <1>7

\* What a response queues: a text, and its m calls after the n that were.
Asks(queued, kinds, n) ==
    /\ queued \in Seq(QueuedEvent)
    /\ \A k \in DOMAIN queued :
          LET ev == queued[k] IN
          /\ ev.type # "tool_output"
          /\ ev.type \in {"delta", "message"} => ev.item = 0
          /\ ev.type = "tool_called" =>
                \E i \in DOMAIN kinds : ev.item = n + i /\ (ev.dispatch <=> kinds[i] = "dispatch")
          /\ ev.type = "delta" => \E l \in DOMAIN queued : k < l /\ queued[l].type = "message"
    /\ \A k, l \in DOMAIN queued :
          k < l /\ queued[k].type = "tool_called" /\ queued[l].type = "tool_called" =>
              queued[k].item < queued[l].item
    /\ \A i \in DOMAIN kinds : \E k \in DOMAIN queued :
          queued[k].type = "tool_called" /\ queued[k].item = n + i

SaysText(queued) ==
    /\ queued \in Seq(QueuedEvent)
    /\ \A k \in DOMAIN queued :
          /\ queued[k].type \in {"delta", "message"} /\ queued[k].item = 0
          /\ queued[k].type = "delta" => \E l \in DOMAIN queued : k < l /\ queued[l].type = "message"

AsksCalls(queued, kinds, n) ==
    /\ queued \in Seq(QueuedEvent) /\ DOMAIN queued = DOMAIN kinds
    /\ DOMAIN kinds \subseteq Nat
    /\ \A k \in DOMAIN kinds :
          /\ queued[k].type = "tool_called" /\ queued[k].item = n + k
          /\ queued[k].dispatch <=> kinds[k] = "dispatch"

\* What a response says.
LEMMA TextsAsked ==
    ASSUME NEW texts \in Texts PROVE SaysText(texts)
  <1>1. PICK d, m : d = Queued("delta", 0, FALSE, FALSE) /\ m = Message
    OBVIOUS
  <1>2. /\ d \in QueuedEvent /\ d.type = "delta" /\ d.item = 0
        /\ m \in QueuedEvent /\ m.type = "message" /\ m.item = 0
    BY <1>1 DEF Queued, Message, QueuedEvent
  <1>3. texts = <<>> \/ texts = <<m>> \/ texts = <<d, m>>
    BY <1>1 DEF Texts
  <1>4. CASE texts = <<>>
    BY <1>4 DEF SaysText
  <1>5. CASE texts = <<m>>
    BY <1>2, <1>5 DEF SaysText
  <1>6. CASE texts = <<d, m>>
    BY <1>2, <1>6 DEF SaysText
  <1> QED
    BY <1>3, <1>4, <1>5, <1>6

\* What a response calls.
LEMMA CallsAsked ==
    ASSUME NEW n \in Nat, NEW m \in Nat, NEW kinds \in [1 .. m -> Kinds], NEW called,
           called = [i \in DOMAIN kinds |-> Queued("tool_called", n + i, kinds[i] = "dispatch", FALSE)]
    PROVE  AsksCalls(called, kinds, n)
  <1>1. called \in [1 .. m -> QueuedEvent]
    BY DEF Queued, QueuedEvent
  <1>2. called \in Seq(QueuedEvent) /\ DOMAIN called = 1 .. m /\ Len(called) = m
    BY <1>1, FunctionIsSeq
  <1> QED
    <2>1. ASSUME NEW k \in DOMAIN kinds
          PROVE  /\ called[k].type = "tool_called" /\ called[k].item = n + k
                 /\ called[k].dispatch <=> kinds[k] = "dispatch"
      <3>1. called[k] = Queued("tool_called", n + k, kinds[k] = "dispatch", FALSE)
        OBVIOUS
      <3> QED
        BY <3>1 DEF Queued
    <2>2. DOMAIN called = DOMAIN kinds /\ DOMAIN kinds \subseteq Nat
      OBVIOUS
    <2>3. called \in Seq(QueuedEvent)
      BY <1>2
    <2> QED
      BY <2>1, <2>2, <2>3, Zenon DEF AsksCalls

\* As LogAt, of the queue.
LEMMA QueueAt ==
    ASSUME NEW s \in Seq(QueuedEvent), NEW new \in Seq(QueuedEvent), NEW all, all = s \o new
    PROVE  /\ all \in Seq(QueuedEvent) /\ Len(all) = Len(s) + Len(new)
           /\ Len(s) \in Nat /\ Len(new) \in Nat
           /\ \A i \in DOMAIN s : i \in DOMAIN all /\ all[i] = s[i] /\ i <= Len(s)
           /\ \A k \in DOMAIN new : Len(s) + k \in DOMAIN all /\ all[Len(s) + k] = new[k]
           /\ \A i \in DOMAIN all : i \in DOMAIN s \/ \E k \in DOMAIN new : i = Len(s) + k
           /\ DOMAIN s = 1 .. Len(s) /\ DOMAIN new = 1 .. Len(new) /\ DOMAIN all = 1 .. Len(all)
  BY ConcatAt

\* Both, in the order they are queued.
LEMMA ResponseAsks ==
    ASSUME NEW n \in Nat, NEW kinds, NEW texts, NEW called, SaysText(texts),
           AsksCalls(called, kinds, n)
    PROVE  Asks(texts \o called, kinds, n)
  <1>1. PICK all, s : all = texts \o called /\ s = Len(texts)
    OBVIOUS
  <1>2. /\ texts \in Seq(QueuedEvent)
        /\ \A k \in DOMAIN texts :
                 /\ texts[k].type \in {"delta", "message"} /\ texts[k].item = 0
                 /\ texts[k].type = "delta" => \E l \in DOMAIN texts : k < l /\ texts[l].type = "message"
    BY DEF SaysText
  <1>3. /\ called \in Seq(QueuedEvent) /\ DOMAIN called = DOMAIN kinds /\ DOMAIN kinds \subseteq Nat
        /\ \A k \in DOMAIN kinds : /\ called[k].type = "tool_called" /\ called[k].item = n + k
                                   /\ called[k].dispatch <=> kinds[k] = "dispatch"
    BY DEF AsksCalls
  <1>4. all \in Seq(QueuedEvent) /\ s \in Nat
    BY <1>1, <1>2, <1>3, QueueAt
  <1>5. \A i \in DOMAIN texts : i \in DOMAIN all /\ all[i] = texts[i] /\ i <= s /\ i \in Nat
    BY <1>1, <1>2, <1>3, QueueAt
  <1>6. \A k \in DOMAIN kinds : s + k \in DOMAIN all /\ all[s + k] = called[k]
    BY <1>1, <1>2, <1>3, QueueAt
  <1>7. \A i \in DOMAIN all : i \in DOMAIN texts \/ \E k \in DOMAIN kinds : i = s + k
    <2>1. \A i \in DOMAIN all : i \in DOMAIN texts \/ \E k \in DOMAIN called : i = s + k
      <3>1. texts \in Seq(QueuedEvent) /\ called \in Seq(QueuedEvent)
        BY <1>2, <1>3
      <3>2. \A i \in DOMAIN all : i \in DOMAIN texts \/ \E k \in DOMAIN called : i = Len(texts) + k
        BY <1>1, <3>1, QueueAt
      <3> QED
        BY <1>1, <3>2
    <2> QED
      BY <1>3, <2>1
  <1>8. ASSUME NEW k \in DOMAIN all
        PROVE  /\ all[k].type # "tool_output"
               /\ all[k].type \in {"delta", "message"} => all[k].item = 0
               /\ all[k].type = "tool_called" =>
                     \E i \in DOMAIN kinds :
                         all[k].item = n + i /\ (all[k].dispatch <=> kinds[i] = "dispatch")
               /\ all[k].type = "delta" => \E l \in DOMAIN all : k < l /\ all[l].type = "message"
    <2>1. CASE k \in DOMAIN texts
      BY <1>2, <1>5, <2>1
    <2>2. ASSUME NEW i \in DOMAIN kinds, k = s + i
          PROVE  /\ all[k].type = "tool_called" /\ all[k].item = n + i
                 /\ all[k].dispatch <=> kinds[i] = "dispatch"
      BY <1>3, <1>6, <2>2
    <2> QED
      BY <1>3, <1>7, <2>1, <2>2
  <1>9. ASSUME NEW k \in DOMAIN all, NEW l \in DOMAIN all, k < l,
               all[k].type = "tool_called", all[l].type = "tool_called"
        PROVE  all[k].item < all[l].item
    <2>1. k \notin DOMAIN texts /\ l \notin DOMAIN texts
      BY <1>2, <1>5, <1>9
    <2>2. PICK i \in DOMAIN kinds : k = s + i
      BY <1>7, <2>1
    <2>3. PICK j \in DOMAIN kinds : l = s + j
      BY <1>7, <2>1
    <2>4. i < j /\ i \in Nat /\ j \in Nat
      BY <1>3, <1>4, <1>9, <2>2, <2>3
    <2>5. all[k].item = n + i /\ all[l].item = n + j
      BY <1>3, <1>6, <2>2, <2>3
    <2> QED
      BY <2>4, <2>5
  <1>10. \A i \in DOMAIN kinds : \E k \in DOMAIN all :
            all[k].type = "tool_called" /\ all[k].item = n + i
    BY <1>3, <1>6
  <1>11. Asks(all, kinds, n)
    BY <1>4, <1>8, <1>9, <1>10 DEF Asks
  <1> QED
    BY <1>1, <1>11

\* The calls of a response, all running.
LEMMA NewCalls ==
    ASSUME NEW m \in Nat, NEW kinds \in [1 .. m -> Kinds], NEW new,
           new = [i \in DOMAIN kinds |-> [kind |-> kinds[i], status |-> "running"]]
    PROVE  /\ new \in Seq(ToolCall) /\ Len(new) = m /\ DOMAIN new = 1 .. m
           /\ \A i \in 1 .. m : new[i].kind = kinds[i] /\ new[i].status = "running"
  <1>1. new \in [1 .. m -> ToolCall]
    BY DEF ToolCall
  <1> QED
    BY <1>1, FunctionIsSeq

\* The calls of a response, m of them, after the n that have answered.
Responds(kinds, n, m, queued) ==
    /\ n \in Nat /\ m \in Nat /\ n = Len(agent.calls) /\ agent.at = "model" /\ DOMAIN kinds = 1 .. m
    /\ Asks(queued, kinds, n) /\ stream' = stream \o queued
    /\ agent' \in [at : {"off", "model", "tools", "done"}, responses : Nat, answered : Nat,
                   calls : Seq(ToolCall)]
    /\ agent'.at # "off" /\ (agent'.at # "tools" => m = 0) /\ agent'.answered = agent.answered
    /\ Len(agent'.calls) = n + m /\ DOMAIN agent'.calls = 1 .. n + m
    /\ \A i \in 1 .. n : agent'.calls[i] = agent.calls[i]
    /\ \A i \in 1 .. m : agent'.calls[n + i].kind = kinds[i] /\ agent'.calls[n + i].status = "running"
    /\ UNCHANGED <<told, events, follower>>

\* A response appends its calls and their events.
LEMMA RespondResponds ==
    ASSUME EventTypesOK, Respond
    PROVE  \E kinds, n, m, queued : Responds(kinds, n, m, queued)
  <1>1. PICK n : n = Len(agent.calls)
    OBVIOUS
  <1>2. n \in Nat
    BY <1>1 DEF EventTypesOK
  <1>3. PICK m \in Nat : \E kinds \in [1 .. m -> Kinds], texts \in Texts :
           /\ agent.at = "model" /\ (kinds = <<>> => texts # <<>>)
           /\ stream' = stream \o (texts \o [i \in DOMAIN kinds |->
                 Queued("tool_called", n + i, kinds[i] = "dispatch", FALSE)])
           /\ agent' = [agent EXCEPT
                 !.at = IF kinds = <<>> THEN "done" ELSE "tools",
                 !.responses = @ + 1,
                 !.calls = @ \o [i \in DOMAIN kinds |-> [kind |-> kinds[i], status |-> "running"]]]
           /\ UNCHANGED <<told, events, follower>>
    <2>1. \A l \in 0 .. MaxCalls - n : l \in Nat
      BY <1>2, TurnEventsBounds
    <2>2. PICK kinds \in UNION {[1 .. l -> Kinds] : l \in 0 .. MaxCalls - n}, texts \in Texts :
           /\ agent.at = "model" /\ (kinds = <<>> => texts # <<>>)
           /\ stream' = stream \o (texts \o [i \in DOMAIN kinds |->
                 Queued("tool_called", n + i, kinds[i] = "dispatch", FALSE)])
           /\ agent' = [agent EXCEPT
                 !.at = IF kinds = <<>> THEN "done" ELSE "tools",
                 !.responses = @ + 1,
                 !.calls = @ \o [i \in DOMAIN kinds |-> [kind |-> kinds[i], status |-> "running"]]]
           /\ UNCHANGED <<told, events, follower>>
      BY <1>1 DEF Respond
    <2>3. PICK m \in 0 .. MaxCalls - n : kinds \in [1 .. m -> Kinds]
      OBVIOUS
    <2>4. m \in Nat
      BY <2>1
    <2> QED
      BY <2>2, <2>3, <2>4, Zenon
  <1>4. PICK kinds \in [1 .. m -> Kinds], texts \in Texts :
           /\ agent.at = "model" /\ (kinds = <<>> => texts # <<>>)
           /\ stream' = stream \o (texts \o [i \in DOMAIN kinds |->
                 Queued("tool_called", n + i, kinds[i] = "dispatch", FALSE)])
           /\ agent' = [agent EXCEPT
                 !.at = IF kinds = <<>> THEN "done" ELSE "tools",
                 !.responses = @ + 1,
                 !.calls = @ \o [i \in DOMAIN kinds |-> [kind |-> kinds[i], status |-> "running"]]]
           /\ UNCHANGED <<told, events, follower>>
    BY <1>3
  <1>5. PICK called :
           called = [i \in DOMAIN kinds |-> Queued("tool_called", n + i, kinds[i] = "dispatch", FALSE)]
    OBVIOUS
  <1>6. PICK new : new = [i \in DOMAIN kinds |-> [kind |-> kinds[i], status |-> "running"]]
    OBVIOUS
  <1>7. PICK at : at = IF kinds = <<>> THEN "done" ELSE "tools"
    OBVIOUS
  <1>8. PICK queued : queued = texts \o called
    OBVIOUS
  <1>9. Asks(queued, kinds, n)
    <2>1. SaysText(texts) /\ AsksCalls(called, kinds, n)
      BY <1>2, <1>5, TextsAsked, CallsAsked
    <2>2. Asks(texts \o called, kinds, n)
      BY <1>2, <2>1, ResponseAsks
    <2> QED
      BY <1>8, <2>2, Zenon
  <1>10. stream' = stream \o queued
    BY <1>4, <1>5, <1>8
  <1>11. /\ new \in Seq(ToolCall) /\ Len(new) = m /\ DOMAIN new = 1 .. m
         /\ \A i \in 1 .. m : new[i].kind = kinds[i] /\ new[i].status = "running"
    BY <1>6, NewCalls
  <1>12. at \in {"done", "tools"} /\ (at # "tools" => m = 0)
    <2>1. kinds = <<>> => m = 0
      <3>1. DOMAIN kinds = 1 .. m
        OBVIOUS
      <3>2. m # 0 => 1 \in DOMAIN kinds
        BY <3>1
      <3> QED
        BY <3>2
    <2> QED
      BY <1>7, <2>1
  <1>13. PICK all : all = agent.calls \o new
    OBVIOUS
  <1>14. /\ all \in Seq(ToolCall) /\ Len(all) = n + m
         /\ \A i \in DOMAIN agent.calls : all[i] = agent.calls[i]
         /\ \A i \in 1 .. m : all[n + i] = new[i]
         /\ DOMAIN all = 1 .. n + m /\ DOMAIN agent.calls = 1 .. n
    <2>1. agent.calls \in Seq(ToolCall)
      BY DEF EventTypesOK
    <2>2. all \in Seq(ToolCall) /\ Len(all) = n + m
      BY <1>1, <1>11, <1>13, <2>1, ConcatAt
    <2>3. \A i \in DOMAIN agent.calls : all[i] = agent.calls[i]
      BY <1>11, <1>13, <2>1, ConcatAt
    <2>4. \A i \in DOMAIN new : all[Len(agent.calls) + i] = new[i]
      BY <1>11, <1>13, <2>1, ConcatAt
    <2>5. DOMAIN all = 1 .. n + m /\ DOMAIN agent.calls = 1 .. n
      <3>1. DOMAIN all = 1 .. Len(all)
        BY <1>11, <1>13, <2>1, ConcatAt
      <3> QED
        BY <1>1, <2>1, <2>2, <3>1
    <2>6. \A i \in 1 .. m : all[n + i] = new[i]
      BY <1>1, <1>11, <2>4
    <2> QED
      BY <2>2, <2>3, <2>5, <2>6
  <1>15. PICK r \in Nat : agent' = [agent EXCEPT !.at = at, !.responses = r, !.calls = all]
    <2>1. agent' = [agent EXCEPT !.at = at, !.responses = @ + 1, !.calls = all]
      BY <1>4, <1>6, <1>7, <1>13
    <2>2. agent.responses + 1 \in Nat
      BY DEF EventTypesOK
    <2>3. agent' = [agent EXCEPT !.at = at, !.responses = agent.responses + 1, !.calls = all]
      BY <2>1
    <2> QED
      BY <2>2, <2>3
  <1>16. /\ agent' \in [at : {"off", "model", "tools", "done"}, responses : Nat, answered : Nat,
                   calls : Seq(ToolCall)]
         /\ agent'.at = at /\ agent'.answered = agent.answered /\ agent'.calls = all
    BY <1>12, <1>14, <1>15 DEF EventTypesOK
  <1>17. DOMAIN kinds = 1 .. m
    OBVIOUS
  <1>18. UNCHANGED <<told, events, follower>> /\ agent.at = "model"
    BY <1>4
  <1>19. \A i \in 1 .. n : agent'.calls[i] = agent.calls[i]
    BY <1>14, <1>16
  <1>20. \A i \in 1 .. m : agent'.calls[n + i].kind = kinds[i] /\ agent'.calls[n + i].status = "running"
    BY <1>11, <1>14, <1>16
  <1>21. /\ agent'.at # "off" /\ (agent'.at # "tools" => m = 0)
         /\ Len(agent'.calls) = n + m /\ DOMAIN agent'.calls = 1 .. n + m
    BY <1>12, <1>14, <1>16
  <1>22. Responds(kinds, n, m, queued)
    BY <1>1, <1>2, <1>9, <1>10, <1>16, <1>17, <1>18, <1>19, <1>20, <1>21 DEF Responds
  <1> QED
    BY <1>22

\* The calls of a response are queued in their order, after what waits.
LEMMA RespondKept ==
    ASSUME EventsInv, told.running, NEW kinds, NEW n, NEW m, NEW queued, Responds(kinds, n, m, queued)
    PROVE  EventsInv'
  <1>1. /\ EventTypesOK /\ CallsKept /\ StreamKept /\ ToldKept /\ LogKept /\ LogInv /\ FollowerKept
        /\ events \in Seq(Event) /\ stream \in Seq(QueuedEvent) /\ told \in ToldType
        /\ n \in Nat /\ m \in Nat /\ DOMAIN agent.calls = 1 .. n /\ agent.answered = n
        /\ n = Len(agent.calls)
    BY DEF EventsInv, EventTypesOK, CallsKept, Responds, ToldType
  <1>2. /\ UNCHANGED <<told, events, follower>> /\ agent'.answered = n
        /\ agent'.at # "off" /\ agent.at # "off" /\ (agent'.at # "tools" => m = 0)
        /\ Len(agent'.calls) = n + m /\ DOMAIN agent'.calls = 1 .. n + m
        /\ \A i \in 1 .. n : agent'.calls[i] = agent.calls[i]
        /\ \A i \in 1 .. m : agent'.calls[n + i].kind = kinds[i] /\ agent'.calls[n + i].status = "running"
        /\ \A i \in 1 .. n + m : i \in 1 .. n \/ \E j \in 1 .. m : i = n + j
    <2>1. \A i \in 1 .. n + m : i \notin 1 .. n => i - n \in 1 .. m /\ i = n + (i - n)
      BY <1>1
    <2>2. \A i \in 1 .. n + m : i \in 1 .. n \/ \E j \in 1 .. m : i = n + j
      BY <2>1
    <2> QED
      BY <1>1, <2>2 DEF Responds
  <1>3. Asks(queued, kinds, n) /\ stream' = stream \o queued /\ DOMAIN kinds = 1 .. m
    BY DEF Responds
  <1>4. /\ queued \in Seq(QueuedEvent)
        /\ \A k \in DOMAIN queued :
             /\ queued[k].type # "tool_output"
             /\ queued[k].type \in {"delta", "message"} => queued[k].item = 0
             /\ queued[k].type = "tool_called" =>
                   \E i \in DOMAIN kinds :
                       queued[k].item = n + i /\ (queued[k].dispatch <=> kinds[i] = "dispatch")
             /\ queued[k].type = "delta" => \E l \in DOMAIN queued : k < l /\ queued[l].type = "message"
        /\ \A k, l \in DOMAIN queued :
             k < l /\ queued[k].type = "tool_called" /\ queued[l].type = "tool_called" =>
                 queued[k].item < queued[l].item
        /\ \A i \in DOMAIN kinds : \E k \in DOMAIN queued :
             queued[k].type = "tool_called" /\ queued[k].item = n + i
    BY <1>3 DEF Asks
  <1>5. PICK s : s = Len(stream)
    OBVIOUS
  <1>6. stream' \in Seq(QueuedEvent) /\ s \in Nat /\ DOMAIN stream = 1 .. s
        /\ DOMAIN queued \subseteq Nat \ {0}
    BY <1>1, <1>3, <1>4, <1>5, QueueAt
  <1>7. \A k \in DOMAIN stream : k \in DOMAIN stream' /\ stream'[k] = stream[k] /\ k <= s
    BY <1>1, <1>3, <1>4, <1>5, QueueAt
  <1>8. \A k \in DOMAIN queued : s + k \in DOMAIN stream' /\ stream'[s + k] = queued[k]
    BY <1>1, <1>3, <1>4, <1>5, QueueAt
  <1>9. \A k \in DOMAIN stream' : k \in DOMAIN stream \/ \E l \in DOMAIN queued : k = s + l
    <2>1. \A k \in DOMAIN stream' : k \in DOMAIN stream \/ \E l \in DOMAIN queued : k = Len(stream) + l
      <3>1. /\ stream \in Seq(QueuedEvent) /\ queued \in Seq(QueuedEvent)
            /\ stream' = stream \o queued
        BY <1>1, <1>3, <1>4
      <3> QED
        BY <3>1, QueueAt
    <2> QED
      BY <1>5, <2>1
  <1>10. ASSUME NEW k \in DOMAIN stream'
         PROVE  /\ stream'[k].type \in {"delta", "message"} => stream'[k].item = 0
                /\ stream'[k].type \in {"tool_called", "tool_output"} => stream'[k].item \in 1 .. n + m
                /\ stream'[k].type = "tool_called" =>
                      (stream'[k].dispatch <=> agent'.calls[stream'[k].item].kind = "dispatch")
                /\ stream'[k].type = "tool_output" => stream'[k].item <= n
                /\ stream'[k].type = "delta" =>
                      \E l \in DOMAIN stream' : k < l /\ stream'[l].type = "message"
    <2>1. CASE k \in DOMAIN stream
      <3>1. /\ stream[k].type \in {"delta", "message"} => stream[k].item = 0
            /\ stream[k].type \in {"tool_called", "tool_output"} => stream[k].item \in 1 .. n
            /\ stream[k].type = "tool_called" =>
                  (stream[k].dispatch <=> agent.calls[stream[k].item].kind = "dispatch")
            /\ stream[k].type = "tool_output" => stream[k].item <= n
            /\ stream[k].type = "delta" =>
                  \E l \in DOMAIN stream : k < l /\ stream[l].type = "message"
        BY <1>1, <2>1 DEF StreamKept
      <3>2. \A i \in 1 .. n : i \in 1 .. n + m
        BY <1>1
      <3> QED
        BY <1>2, <1>7, <2>1, <3>1, <3>2
    <2>2. ASSUME NEW l \in DOMAIN queued, k = s + l
          PROVE  /\ stream'[k].type \in {"delta", "message"} => stream'[k].item = 0
                 /\ stream'[k].type # "tool_output"
                 /\ stream'[k].type = "tool_called" =>
                       /\ stream'[k].item \in 1 .. n + m
                       /\ stream'[k].dispatch <=> agent'.calls[stream'[k].item].kind = "dispatch"
                 /\ stream'[k].type = "delta" =>
                       \E j \in DOMAIN stream' : k < j /\ stream'[j].type = "message"
      <3>1. stream'[k] = queued[l]
        BY <1>8, <2>2
      <3>2. ASSUME queued[l].type = "tool_called"
            PROVE  /\ queued[l].item \in 1 .. n + m
                   /\ queued[l].dispatch <=> agent'.calls[queued[l].item].kind = "dispatch"
        <4>1. PICK i \in 1 .. m :
                 queued[l].item = n + i /\ (queued[l].dispatch <=> kinds[i] = "dispatch")
          BY <1>3, <1>4, <3>2
        <4>2. agent'.calls[n + i].kind = kinds[i] /\ n + i \in 1 .. n + m
          BY <1>1, <1>2
        <4> QED
          BY <4>1, <4>2
      <3>3. ASSUME queued[l].type = "delta"
            PROVE  \E j \in DOMAIN stream' : k < j /\ stream'[j].type = "message"
        <4>1. PICK j \in DOMAIN queued : l < j /\ queued[j].type = "message"
          BY <1>4, <3>3
        <4>2. s + j \in DOMAIN stream' /\ stream'[s + j] = queued[j] /\ k < s + j
          BY <1>6, <1>8, <2>2, <4>1
        <4> QED
          BY <4>1, <4>2
      <3> QED
        BY <1>4, <3>1, <3>2, <3>3
    <2> QED
      BY <1>9, <2>1, <2>2
  <1>11. ASSUME NEW k \in DOMAIN stream', NEW l \in DOMAIN stream', k < l
         PROVE  /\ stream'[k].type = stream'[l].type
                      /\ stream'[k].type \in {"tool_called", "tool_output"} =>
                      stream'[k].item < stream'[l].item
                /\ stream'[k].type = "tool_output" /\ stream'[l].type = "tool_called" =>
                      stream'[l].item > n
    <2>1. CASE l \in DOMAIN stream
      <3>1. k \in DOMAIN stream
        BY <1>6, <1>9, <1>11, <2>1
      <3>2. stream'[k] = stream[k] /\ stream'[l] = stream[l]
        BY <1>7, <2>1, <3>1
      <3> QED
        BY <1>1, <1>11, <2>1, <3>1, <3>2 DEF StreamKept
    <2>2. ASSUME NEW j \in DOMAIN queued, l = s + j
          PROVE  /\ stream'[k].type = stream'[l].type
                      /\ stream'[k].type \in {"tool_called", "tool_output"} =>
                      stream'[k].item < stream'[l].item
                 /\ stream'[l].type = "tool_called" => stream'[l].item > n
      <3>1. stream'[l] = queued[j] /\ queued[j].type # "tool_output"
        BY <1>4, <1>8, <2>2
      <3>2. ASSUME queued[j].type = "tool_called" PROVE queued[j].item > n
        <4>1. PICK i \in 1 .. m : queued[j].item = n + i
          BY <1>3, <1>4, <3>2
        <4> QED
          BY <1>1, <4>1
      <3>3. ASSUME stream'[k].type = "tool_called", queued[j].type = "tool_called"
            PROVE  stream'[k].item < queued[j].item
        <4>1. CASE k \in DOMAIN stream
          <5>1. stream'[k] = stream[k] /\ stream[k].item \in 1 .. n
            BY <1>1, <1>7, <3>3, <4>1 DEF StreamKept
          <5>2. PICK i \in 1 .. m : queued[j].item = n + i
            BY <1>3, <1>4, <3>3
          <5> QED
            BY <1>1, <5>1, <5>2
        <4>2. ASSUME NEW i \in DOMAIN queued, k = s + i
              PROVE  stream'[k].item < queued[j].item
          <5>1. stream'[k] = queued[i] /\ i < j
            BY <1>6, <1>8, <1>11, <2>2, <4>2
          <5> QED
            BY <1>4, <3>3, <5>1
        <4> QED
          BY <1>9, <4>1, <4>2
      <3> QED
        BY <3>1, <3>2, <3>3
    <2> QED
      BY <1>9, <2>1, <2>2
  <1>12. ASSUME NEW i \in 1 .. n + m, ~(i <= n)
         PROVE  agent'.calls[i].status = "running"
    <2>1. ~(i \in 1 .. n)
      BY <1>1, <1>12
    <2>2. PICK j \in 1 .. m : i = n + j
      BY <1>2, <2>1
    <2> QED
      BY <1>2, <2>2
  <1>13. StreamKept'
    <2>1. agent'.answered = n /\ DOMAIN agent'.calls = 1 .. n + m
      BY <1>2
    <2>2. (\A k \in DOMAIN stream :
              LET ev == stream[k] IN
              /\ ev.type \in {"delta", "message"} => ev.item = 0
              /\ ev.type \in {"tool_called", "tool_output"} => ev.item \in DOMAIN agent.calls
              /\ ev.type = "tool_called" => (ev.dispatch <=> agent.calls[ev.item].kind = "dispatch")
              /\ ev.type = "tool_output" => ev.item <= agent.answered
              /\ ev.type = "delta" => \E l \in DOMAIN stream : k < l /\ stream[l].type = "message")'
      BY <1>10, <2>1
    <2>3. (\A k, l \in DOMAIN stream : k < l =>
              /\ stream[k].type = stream[l].type
                     /\ stream[k].type \in {"tool_called", "tool_output"} =>
                     stream[k].item < stream[l].item
              /\ stream[k].type = "tool_output" /\ stream[l].type = "tool_called" =>
                    stream[l].item > agent.answered)'
      BY <1>11, <2>1
    <2>4. (\A i \in DOMAIN agent.calls : i > agent.answered => agent.calls[i].status = "running")'
      <3>1. ASSUME NEW i \in 1 .. n + m, i > n PROVE agent'.calls[i].status = "running"
        BY <1>1, <1>12, <3>1
      <3> QED
        BY <2>1, <3>1
    <2> QED
      BY <2>2, <2>3, <2>4 DEF StreamKept
  <1>14. ASSUME NEW i
         PROVE  /\ InQueue("tool_output", i)' <=> InQueue("tool_output", i)
                /\ InQueue("tool_called", i)' <=>
                      InQueue("tool_called", i) \/ \E j \in 1 .. m : i = n + j
    <2>1. ASSUME NEW type, InQueue(type, i) PROVE InQueue(type, i)'
      BY <1>7, <2>1 DEF InQueue
    <2>2. ASSUME NEW j \in 1 .. m, i = n + j PROVE InQueue("tool_called", i)'
      <3>1. PICK k \in DOMAIN queued : queued[k].type = "tool_called" /\ queued[k].item = n + j
        BY <1>3, <1>4
      <3>2. s + k \in DOMAIN stream' /\ stream'[s + k] = queued[k]
        BY <1>8
      <3> QED
        BY <2>2, <3>1, <3>2 DEF InQueue
    <2>3. ASSUME InQueue("tool_output", i)' PROVE InQueue("tool_output", i)
      BY <1>4, <1>7, <1>8, <1>9, <2>3 DEF InQueue
    <2>4. ASSUME InQueue("tool_called", i)', ~InQueue("tool_called", i)
          PROVE  \E j \in 1 .. m : i = n + j
      <3>1. PICK k \in DOMAIN stream' : stream'[k].type = "tool_called" /\ stream'[k].item = i
        BY <2>4 DEF InQueue
      <3>2. k \notin DOMAIN stream
        BY <1>7, <2>4, <3>1 DEF InQueue
      <3>3. PICK l \in DOMAIN queued : k = s + l
        BY <1>9, <3>2
      <3>4. queued[l].type = "tool_called" /\ queued[l].item = i
        BY <1>8, <3>1, <3>3
      <3> QED
        BY <1>3, <1>4, <3>4
    <2> QED
      BY <2>1, <2>2, <2>3, <2>4
  <1>15. ASSUME NEW i, i \in 1 .. n + m, ~(i \in 1 .. n)
         PROVE  Starts(events, i) = {} /\ Completes(events, i) = {} /\ SubRuns(events, i) = {}
    <2>1. ASSUME NEW k \in DOMAIN events, events[k].turn = 1 PROVE events[k].item # i
      <3>1. events[k].item \in 0 .. n
        BY <1>1, <2>1 DEF LogInv, ItemsKnown
      <3>2. i # 0 /\ i \notin 0 .. n
        BY <1>1, <1>15
      <3> QED
        BY <3>1, <3>2
    <2> QED
      BY <2>1 DEF Starts, Completes, SubRuns, Places
  <1>16. ASSUME NEW i \in 1 .. n PROVE i \in 1 .. n + m /\ ~\E j \in 1 .. m : i = n + j
    BY <1>1
  <1>17. ToldKept'
    <2>1. DispatchesKnown'
      <3>1. told.dispatches = {i \in 1 .. n : agent.calls[i].kind = "dispatch" /\ ~InQueue("tool_called", i)}
        BY <1>1 DEF ToldKept, DispatchesKnown
      <3>2. ASSUME NEW i
            PROVE  i \in 1 .. n + m /\ agent'.calls[i].kind = "dispatch" /\ ~InQueue("tool_called", i)' <=>
                   i \in 1 .. n /\ agent.calls[i].kind = "dispatch" /\ ~InQueue("tool_called", i)
        BY <1>2, <1>14, <1>16
      <3>3. told'.dispatches = {i \in 1 .. n + m :
                                   agent'.calls[i].kind = "dispatch" /\ ~InQueue("tool_called", i)'}
        BY <1>2, <3>1, <3>2
      <3> QED
        BY <1>2, <3>3 DEF DispatchesKnown
    <2>2. SubRunsHeld'
      <3>1. ASSUME NEW k \in DOMAIN told.sub_runs, NEW i, i = told.sub_runs[k]
            PROVE  /\ i \in 1 .. n + m /\ agent'.calls[i].kind = "dispatch"
                   /\ agent'.calls[i].status # "running"
                   /\ i <= n => InQueue("tool_output", i)'
                   /\ SubRuns(events, i) = {}
        <4>1. /\ i \in 1 .. n /\ agent.calls[i].kind = "dispatch" /\ agent.calls[i].status # "running"
              /\ i <= n => InQueue("tool_output", i)
              /\ SubRuns(events, i) = {}
          BY <1>1, <3>1 DEF ToldKept, SubRunsHeld
        <4> QED
          BY <1>2, <1>14, <1>16, <4>1
      <3> QED
        BY <1>2, <3>1 DEF SubRunsHeld
    <2>3. SubRunsDiffer'
      BY <1>1, <1>2 DEF ToldKept, SubRunsDiffer
    <2>4. TextOpen'
      BY <1>1, <1>2, <1>7 DEF ToldKept, TextOpen
    <2>5. RunningUntold'
      BY <1>1, <1>2, <1>15 DEF ToldKept, RunningUntold
    <2> QED
      BY <2>1, <2>2, <2>3, <2>4, <2>5 DEF ToldKept
  <1>18. LogKept'
    <2>1. ASSUME NEW i \in 1 .. n + m
          PROVE  /\ Starts(events, i) = {} <=> InQueue("tool_called", i)'
                 /\ Completes(events, i) # {} <=> i <= n /\ ~InQueue("tool_output", i)'
                 /\ IsOpen(events, i) => Completes(events, i) = {}
      <3>1. CASE i \in 1 .. n
        BY <1>1, <1>14, <1>16, <3>1 DEF LogKept
      <3>2. CASE ~(i \in 1 .. n)
        <4>1. \E j \in 1 .. m : i = n + j
          BY <1>2, <3>2
        <4>2. ~(i <= n)
          BY <1>1, <2>1, <3>2
        <4> QED
          BY <1>14, <1>15, <2>1, <3>2, <4>1, <4>2
      <3> QED
        BY <3>1, <3>2
    <2>2. IsOpen(events, 0) <=> 0 \in told.open
      BY <1>1 DEF LogKept
    <2> QED
      BY <1>2, <2>1, <2>2 DEF LogKept
  <1>19. CallsKept'
    <2>1. ASSUME NEW i \in 1 .. n + m PROVE i <= n <=> agent'.calls[i].status = "answered"
      <3>1. CASE i \in 1 .. n
        <4>1. i <= n <=> agent.calls[i].status = "answered"
          BY <1>1, <3>1 DEF CallsKept
        <4> QED
          BY <1>2, <3>1, <4>1
      <3>2. CASE ~(i \in 1 .. n)
        <4>1. ~(i <= n)
          BY <1>1, <2>1, <3>2
        <4> QED
          BY <1>12, <2>1, <4>1
      <3> QED
        BY <3>1, <3>2
    <2>2. n <= n + m /\ (m = 0 => n = n + m)
      BY <1>1
    <2> QED
      BY <1>2, <2>1, <2>2 DEF CallsKept
  <1>20. LogInv'
    <2>1. \A i \in 0 .. n + m : Alternates(events, i) /\ SubRunWithin(events, i)
      <3>1. \A i \in 0 .. n + m : i \in 0 .. n \/ (i \in 1 .. n + m /\ ~(i \in 1 .. n))
        BY <1>1
      <3>2. \A i \in 0 .. n : Alternates(events, i) /\ SubRunWithin(events, i)
        BY <1>1 DEF LogInv, ItemsTold
      <3>3. ASSUME NEW i \in 1 .. n + m, ~(i \in 1 .. n)
            PROVE  Alternates(events, i) /\ SubRunWithin(events, i)
        BY <1>15, <3>3 DEF Alternates, SubRunWithin
      <3> QED
        BY <3>1, <3>2, <3>3
    <2>2. ItemsKnown'
      BY <1>1, <1>2 DEF LogInv, ItemsKnown
    <2>3. EndKept'
      BY <1>1, <1>2 DEF LogInv, EndKept
    <2>4. InterruptTold'
      BY <1>1, <1>2 DEF LogInv, InterruptTold
    <2> QED
      BY <1>2, <2>1, <2>2, <2>3, <2>4 DEF LogInv, ItemsTold
  <1>21. FollowerKept'
    <2>1. PICK new : new = <<>>
      OBVIOUS
    <2>2. /\ new \in Seq(Event) /\ events' = events \o new /\ \A k \in DOMAIN new : ~IsCall(new[k])
      BY <1>1, <1>2, <2>1
    <2>3. follower' = follower /\ (agent.at # "off" => agent'.at # "off")
      BY <1>2
    <2>4. EventTypesOK /\ FollowerKept
      BY <1>1
    <2> QED
      BY <2>2, <2>3, <2>4, FollowerGrows
  <1>22. EventTypesOK' /\ OffKept'
    <2>1. agent' \in [at : {"off", "model", "tools", "done"}, responses : Nat, answered : Nat,
                   calls : Seq(ToolCall)]
      BY DEF Responds
    <2> QED
      BY <1>1, <1>2, <1>6, <2>1 DEF EventTypesOK, OffKept
  <1> QED
    BY <1>13, <1>17, <1>18, <1>19, <1>20, <1>21, <1>22 DEF EventsInv

AgentType ==
    [at : {"off", "model", "tools", "done"}, responses : Nat, answered : Nat, calls : Seq(ToolCall)]

\* A call returns while no output waits; the run of its sub-agent is held once.
LEMMA CallReturnsKept ==
    ASSUME EventsInv, told.running, NEW i \in DOMAIN agent.calls, CallReturns(i)
    PROVE  EventsInv'
  <1>1. /\ EventTypesOK /\ CallsKept /\ StreamKept /\ ToldKept /\ LogKept /\ LogInv /\ FollowerKept
        /\ agent \in AgentType /\ told \in ToldType /\ agent.calls \in Seq(ToolCall)
        /\ agent.answered \in Nat /\ i \in Nat
    BY DEF EventsInv, EventTypesOK, AgentType, ToldType
  <1>2. PICK valid \in Valid, function \in Function :
           /\ agent.at = "tools" /\ agent.calls[i].status = "running"
           /\ \A k \in DOMAIN stream : stream[k].type # "tool_output"
           /\ agent' = [agent EXCEPT !.calls[i].status = Invoke(valid, function)]
           /\ IF agent.calls[i].kind = "dispatch" /\ SubRunEnded(valid, function)
              THEN SubRunHook(i) ELSE UNCHANGED <<told, events>>
           /\ UNCHANGED <<stream, follower>>
    BY DEF CallReturns
  <1>3. PICK status : status = Invoke(valid, function)
    OBVIOUS
  <1>4. status \in {"ok", "interrupt", "error"}
    BY <1>3 DEF Invoke
  <1>5. PICK call : call = [kind |-> agent.calls[i].kind, status |-> status]
    OBVIOUS
  <1>6. /\ call \in ToolCall /\ call.kind = agent.calls[i].kind /\ call.status = status
        /\ [agent.calls[i] EXCEPT !.status = status] = call
    <2>1. PICK c : c = agent.calls[i]
      OBVIOUS
    <2>2. agent.calls[i] \in ToolCall
      BY <1>1
    <2>3. c \in ToolCall
      BY <2>1, <2>2
    <2>4. call = [kind |-> c.kind, status |-> status]
      BY <1>5, <2>1
    <2>5. /\ call \in ToolCall /\ call.kind = c.kind /\ call.status = status
          /\ [c EXCEPT !.status = status] = call
      BY <1>4, <2>3, <2>4 DEF ToolCall
    <2> QED
      BY <2>1, <2>5
  <1>7. PICK calls : calls = [agent.calls EXCEPT ![i] = call]
    OBVIOUS
  <1>8. /\ calls \in Seq(ToolCall) /\ Len(calls) = Len(agent.calls) /\ DOMAIN calls = DOMAIN agent.calls
        /\ calls[i] = call /\ \A j \in DOMAIN calls : j # i => calls[j] = agent.calls[j]
    BY <1>1, <1>6, <1>7
  <1>9. agent' = [agent EXCEPT !.calls = calls]
    <2>1. [agent.calls[i] EXCEPT !.status = status] = call
      BY <1>6
    <2>2. agent' = [agent EXCEPT !.calls = [agent.calls EXCEPT ![i] = [agent.calls[i] EXCEPT !.status = status]]]
      BY <1>2, <1>3
    <2> QED
      BY <1>7, <2>1, <2>2
  <1>10. /\ agent' \in AgentType /\ agent'.at = "tools" /\ agent'.answered = agent.answered
         /\ agent'.calls = calls /\ agent.at = "tools"
    BY <1>1, <1>2, <1>8, <1>9 DEF AgentType
  <1>11. /\ DOMAIN agent'.calls = DOMAIN agent.calls /\ Len(agent'.calls) = Len(agent.calls)
         /\ \A j \in DOMAIN agent.calls : agent'.calls[j].kind = agent.calls[j].kind
         /\ \A j \in DOMAIN agent.calls : j # i => agent'.calls[j] = agent.calls[j]
         /\ agent'.calls[i].status \in {"ok", "interrupt", "error"} /\ agent.calls[i].status = "running"
    BY <1>2, <1>4, <1>6, <1>8, <1>10
  <1>12. i > agent.answered
    BY <1>1, <1>11 DEF CallsKept
  <1>13. /\ UNCHANGED <<stream, events, follower>> /\ ~OutputsWait
         /\ told' \in ToldType /\ told'.running /\ told'.open = told.open
         /\ told'.dispatches = told.dispatches /\ told'.interrupted = told.interrupted
         /\ \/ told'.sub_runs = told.sub_runs
            \/ told'.sub_runs = Append(told.sub_runs, i) /\ agent.calls[i].kind = "dispatch"
    <2>1. UNCHANGED <<stream, events, follower>> /\ ~OutputsWait
      BY <1>2 DEF SubRunHook, OutputsWait
    <2>2. told.sub_runs \in Seq(Nat)
      BY <1>1 DEF ToldType
    <2>3. PICK runs : runs = Append(told.sub_runs, i)
      OBVIOUS
    <2>4. runs \in Seq(Nat)
      BY <1>1, <2>2, <2>3
    <2>5. CASE agent.calls[i].kind = "dispatch" /\ SubRunEnded(valid, function)
      <3>1. told' = [told EXCEPT !.sub_runs = runs]
        BY <1>2, <2>3, <2>5 DEF SubRunHook
      <3>2. /\ told' \in ToldType /\ told'.running /\ told'.open = told.open
            /\ told'.dispatches = told.dispatches /\ told'.interrupted = told.interrupted
            /\ told'.sub_runs = runs
        BY <1>1, <2>4, <3>1 DEF ToldType
      <3> QED
        BY <2>1, <2>3, <2>5, <3>2
    <2>6. CASE ~(agent.calls[i].kind = "dispatch" /\ SubRunEnded(valid, function))
      BY <1>1, <1>2, <2>1, <2>6
    <2> QED
      BY <2>5, <2>6
  <1>14. CallsKept'
    BY <1>1, <1>10, <1>11, <1>12 DEF CallsKept
  <1>15. StreamKept'
    BY <1>1, <1>10, <1>11, <1>13 DEF StreamKept, OutputsWait
  <1>16. \A type, item : InQueue(type, item)' <=> InQueue(type, item)
    BY <1>13 DEF InQueue
  <1>17. ToldKept'
    <2>1. DispatchesKnown'
      BY <1>1, <1>11, <1>13, <1>16 DEF ToldKept, DispatchesKnown
    <2>2. TextOpen'
      BY <1>1, <1>13 DEF ToldKept, TextOpen
    <2>3. RunningUntold'
      BY <1>1, <1>11, <1>13 DEF ToldKept, RunningUntold
    <2>4. ASSUME NEW k \in DOMAIN told.sub_runs, NEW j, j = told.sub_runs[k]
          PROVE  /\ j # i
                 /\ j \in DOMAIN agent'.calls /\ agent'.calls[j].kind = "dispatch"
                 /\ agent'.calls[j].status # "running"
                 /\ j <= agent'.answered => InQueue("tool_output", j)'
                 /\ SubRuns(events', j) = {}
      <3>1. /\ j \in DOMAIN agent.calls /\ agent.calls[j].kind = "dispatch"
            /\ agent.calls[j].status # "running"
            /\ j <= agent.answered => InQueue("tool_output", j)
            /\ SubRuns(events, j) = {}
        BY <1>1, <2>4 DEF ToldKept, SubRunsHeld
      <3> QED
        BY <1>10, <1>11, <1>13, <1>16, <3>1
    <2>5. /\ i \in DOMAIN agent'.calls /\ agent'.calls[i].status # "running"
          /\ ~(i <= agent'.answered) /\ SubRuns(events', i) = {}
          /\ agent.calls[i].kind = "dispatch" => agent'.calls[i].kind = "dispatch"
      BY <1>1, <1>10, <1>11, <1>12, <1>13 DEF ToldKept, RunningUntold
    <2>6. CASE told'.sub_runs = told.sub_runs
      <3>1. SubRunsHeld'
        BY <2>4, <2>6 DEF SubRunsHeld
      <3>2. SubRunsDiffer'
        BY <1>1, <2>6 DEF ToldKept, SubRunsDiffer
      <3> QED
        BY <2>1, <2>2, <2>3, <3>1, <3>2 DEF ToldKept
    <2>7. CASE told'.sub_runs = Append(told.sub_runs, i) /\ agent.calls[i].kind = "dispatch"
      <3>1. PICK runs, all : runs = told.sub_runs /\ all = told'.sub_runs
        OBVIOUS
      <3>2. /\ runs \in Seq(Nat) /\ all = Append(runs, i)
        BY <1>1, <2>7, <3>1 DEF ToldType
      <3>3. /\ \A k \in DOMAIN all : k \in DOMAIN runs \/ k = Len(runs) + 1
            /\ \A k \in DOMAIN runs : all[k] = runs[k] /\ k # Len(runs) + 1
            /\ all[Len(runs) + 1] = i
        BY <1>1, <3>2
      <3>4. SubRunsHeld'
        <4>1. ASSUME NEW k \in DOMAIN all, NEW j, j = all[k]
              PROVE  /\ j \in DOMAIN agent'.calls /\ agent'.calls[j].kind = "dispatch"
                     /\ agent'.calls[j].status # "running"
                     /\ j <= agent'.answered => InQueue("tool_output", j)'
                     /\ SubRuns(events', j) = {}
          <5>1. CASE k \in DOMAIN runs
            BY <2>4, <3>1, <3>3, <4>1, <5>1
          <5>2. CASE k = Len(runs) + 1
            BY <2>5, <2>7, <3>3, <4>1, <5>2
          <5> QED
            BY <3>3, <5>1, <5>2
        <4> QED
          BY <3>1, <4>1 DEF SubRunsHeld
      <3>5. SubRunsDiffer'
        <4>1. \A k, l \in DOMAIN runs : k # l => runs[k] # runs[l]
          BY <1>1, <3>1 DEF ToldKept, SubRunsDiffer
        <4>2. \A k \in DOMAIN runs : runs[k] # i
          BY <2>4, <3>1
        <4>3. \A k, l \in DOMAIN all : k # l => all[k] # all[l]
          BY <3>3, <4>1, <4>2
        <4> QED
          BY <3>1, <4>3 DEF SubRunsDiffer
      <3> QED
        BY <2>1, <2>2, <2>3, <3>4, <3>5 DEF ToldKept
    <2> QED
      BY <1>13, <2>6, <2>7
  <1>18. LogKept'
    BY <1>1, <1>10, <1>11, <1>13, <1>16 DEF LogKept
  <1>19. LogInv'
    <2>1. ItemsTold' /\ ItemsKnown'
      BY <1>1, <1>11, <1>13 DEF LogInv, ItemsTold, ItemsKnown
    <2>2. InterruptTold'
      BY <1>1, <1>13 DEF LogInv, InterruptTold
    <2>3. EndKept'
      BY <1>1, <1>10, <1>13 DEF LogInv, EndKept
    <2> QED
      BY <2>1, <2>2, <2>3 DEF LogInv
  <1>20. FollowerKept'
    <2>1. PICK new : new = <<>>
      OBVIOUS
    <2>2. /\ new \in Seq(Event) /\ events' = events \o new /\ \A k \in DOMAIN new : ~IsCall(new[k])
      BY <1>1, <1>13, <2>1 DEF EventTypesOK
    <2>3. follower' = follower /\ (agent.at # "off" => agent'.at # "off")
      BY <1>10, <1>13
    <2>4. EventTypesOK /\ FollowerKept
      BY <1>1
    <2> QED
      BY <2>2, <2>3, <2>4, FollowerGrows
  <1>21. EventTypesOK' /\ OffKept'
    BY <1>1, <1>10, <1>13 DEF EventTypesOK, OffKept, AgentType, ToldType
  <1> QED
    BY <1>14, <1>15, <1>17, <1>18, <1>19, <1>20, <1>21 DEF EventsInv

\* The outputs of a response are queued in order when all of its tools are done.
LEMMA ToolsDoneKept ==
    ASSUME EventsInv, told.running, ToolsDone
    PROVE  EventsInv'
  <1>1. /\ EventTypesOK /\ CallsKept /\ StreamKept /\ ToldKept /\ LogKept /\ LogInv /\ FollowerKept
        /\ agent \in AgentType /\ told \in ToldType /\ agent.calls \in Seq(ToolCall)
        /\ stream \in Seq(QueuedEvent)
    BY DEF EventsInv, EventTypesOK, AgentType, ToldType
  <1>2. PICK n, m, asked : /\ n = agent.answered /\ m = Len(agent.calls)
                           /\ asked = {i \in DOMAIN agent.calls : agent.calls[i].status = "interrupt"}
    OBVIOUS
  <1>3. n \in Nat /\ m \in Nat /\ n <= m /\ DOMAIN agent.calls = 1 .. m
    BY <1>1, <1>2 DEF CallsKept, AgentType
  <1>4. PICK outputs : outputs = [k \in 1 .. m - n |-> Queued("tool_output", n + k, FALSE, n + k \in asked)]
    OBVIOUS
  <1>5. /\ outputs \in Seq(QueuedEvent) /\ DOMAIN outputs = 1 .. m - n
        /\ \A k \in 1 .. m - n : outputs[k].type = "tool_output" /\ outputs[k].item = n + k
    <2>1. outputs \in [1 .. m - n -> QueuedEvent]
      BY <1>3, <1>4 DEF Queued, QueuedEvent
    <2>2. m - n \in Nat
      BY <1>3
    <2>3. outputs \in Seq(QueuedEvent) /\ DOMAIN outputs = 1 .. m - n
      BY <2>1, <2>2, FunctionIsSeq
    <2>4. ASSUME NEW k \in 1 .. m - n
          PROVE  outputs[k].type = "tool_output" /\ outputs[k].item = n + k
      <3>1. outputs[k] = Queued("tool_output", n + k, FALSE, n + k \in asked)
        BY <1>4
      <3> QED
        BY <3>1 DEF Queued
    <2> QED
      BY <2>3, <2>4
  <1>6. PICK calls : calls = [i \in DOMAIN agent.calls |-> [kind |-> agent.calls[i].kind, status |-> "answered"]]
    OBVIOUS
  <1>7. /\ calls \in Seq(ToolCall) /\ Len(calls) = m /\ DOMAIN calls = 1 .. m
        /\ \A i \in 1 .. m : calls[i].kind = agent.calls[i].kind /\ calls[i].status = "answered"
    <2>1. \A i \in 1 .. m : agent.calls[i].kind \in Kinds
      <3>1. \A i \in 1 .. m : agent.calls[i] \in ToolCall
        BY <1>1, <1>3
      <3>2. \A c \in ToolCall : c.kind \in Kinds
        BY DEF ToolCall
      <3> QED
        BY <3>1, <3>2
    <2>2. calls \in [1 .. m -> ToolCall]
      BY <1>3, <1>6, <2>1 DEF ToolCall
    <2>3. calls \in Seq(ToolCall) /\ Len(calls) = m /\ DOMAIN calls = 1 .. m
      BY <1>3, <2>2, FunctionIsSeq
    <2> QED
      BY <1>3, <1>6, <2>3
  <1>8. PICK at \in {"model", "done"} : agent' = [agent EXCEPT !.at = at, !.answered = m, !.calls = calls]
    BY <1>2, <1>6 DEF ToolsDone
  <1>9. /\ agent' \in AgentType /\ agent'.at \in {"model", "done"} /\ agent'.answered = m
        /\ agent'.calls = calls
    BY <1>1, <1>3, <1>7, <1>8 DEF AgentType
  <1>10. /\ UNCHANGED <<told, events, follower>> /\ stream' = stream \o outputs /\ agent.at = "tools"
         /\ \A i \in 1 .. m : agent.calls[i].status # "running"
    BY <1>2, <1>3, <1>4 DEF ToolsDone
  <1>11. PICK s : s = Len(stream)
    OBVIOUS
  <1>12. stream' \in Seq(QueuedEvent) /\ s \in Nat /\ DOMAIN stream = 1 .. s
    BY <1>1, <1>5, <1>10, <1>11, QueueAt
  <1>13. \A k \in DOMAIN stream : k \in DOMAIN stream' /\ stream'[k] = stream[k] /\ k <= s
    BY <1>1, <1>5, <1>10, <1>11, QueueAt
  <1>14. \A k \in 1 .. m - n : s + k \in DOMAIN stream' /\ stream'[s + k].type = "tool_output"
                               /\ stream'[s + k].item = n + k
    <2>1. outputs \in Seq(QueuedEvent) /\ stream \in Seq(QueuedEvent) /\ stream' = stream \o outputs
      BY <1>1, <1>5, <1>10
    <2>2. \A k \in DOMAIN outputs :
             Len(stream) + k \in DOMAIN stream' /\ stream'[Len(stream) + k] = outputs[k]
      BY <2>1, QueueAt
    <2>3. \A k \in 1 .. m - n : s + k \in DOMAIN stream' /\ stream'[s + k] = outputs[k]
      BY <1>5, <1>11, <2>2
    <2> QED
      BY <1>5, <2>3
  <1>15. \A k \in DOMAIN stream' : k \in DOMAIN stream \/ \E l \in 1 .. m - n : k = s + l
    <2>1. outputs \in Seq(QueuedEvent) /\ stream \in Seq(QueuedEvent) /\ stream' = stream \o outputs
      BY <1>1, <1>5, <1>10
    <2>2. \A k \in DOMAIN stream' : k \in DOMAIN stream \/ \E l \in DOMAIN outputs : k = Len(stream) + l
      BY <2>1, QueueAt
    <2> QED
      BY <1>5, <1>11, <2>2
  <1>16. ~OutputsWait \/ n = m
    <2>1. SUFFICES ASSUME OutputsWait, n # m PROVE FALSE
      OBVIOUS
    <2>2. m \in 1 .. m /\ m > n
      BY <1>3, <2>1
    <2>3. agent.calls[m].status = "running"
      <3>1. \A i \in DOMAIN agent.calls : i > agent.answered => agent.calls[i].status = "running"
        BY <1>1, <2>1 DEF StreamKept
      <3> QED
        BY <1>2, <1>3, <2>2, <3>1
    <2> QED
      BY <1>10, <2>2, <2>3
  <1>17. ASSUME NEW k \in DOMAIN stream'
         PROVE  /\ stream'[k].type \in {"delta", "message"} => stream'[k].item = 0
                /\ stream'[k].type \in {"tool_called", "tool_output"} => stream'[k].item \in 1 .. m
                /\ stream'[k].type = "tool_called" =>
                      (stream'[k].dispatch <=> calls[stream'[k].item].kind = "dispatch")
                /\ stream'[k].type = "tool_output" => stream'[k].item <= m
                /\ stream'[k].type = "delta" =>
                      \E l \in DOMAIN stream' : k < l /\ stream'[l].type = "message"
    <2>1. CASE k \in DOMAIN stream
      <3>1. /\ stream[k].type \in {"delta", "message"} => stream[k].item = 0
            /\ stream[k].type \in {"tool_called", "tool_output"} => stream[k].item \in 1 .. m
            /\ stream[k].type = "tool_called" =>
                  (stream[k].dispatch <=> agent.calls[stream[k].item].kind = "dispatch")
            /\ stream[k].type = "delta" =>
                  \E l \in DOMAIN stream : k < l /\ stream[l].type = "message"
        BY <1>1, <1>3, <2>1 DEF StreamKept
      <3> QED
        BY <1>7, <1>13, <2>1, <3>1
    <2>2. ASSUME NEW l \in 1 .. m - n, k = s + l
          PROVE  stream'[k].type = "tool_output" /\ stream'[k].item \in 1 .. m
      BY <1>3, <1>14, <2>2
    <2> QED
      BY <1>15, <2>1, <2>2
  <1>18. ASSUME NEW k \in DOMAIN stream', NEW l \in DOMAIN stream', k < l
         PROVE  /\ stream'[k].type = stream'[l].type
                      /\ stream'[k].type \in {"tool_called", "tool_output"} =>
                      stream'[k].item < stream'[l].item
                /\ stream'[k].type = "tool_output" /\ stream'[l].type = "tool_called" =>
                      stream'[l].item > m
    <2>1. CASE l \in DOMAIN stream
      <3>1. k \in DOMAIN stream
        BY <1>12, <1>15, <1>18, <2>1
      <3>2. stream'[k] = stream[k] /\ stream'[l] = stream[l]
        BY <1>13, <2>1, <3>1
      <3>3. ~(stream[k].type = "tool_output" /\ stream[l].type = "tool_called")
        <4>1. SUFFICES ASSUME stream[k].type = "tool_output", stream[l].type = "tool_called" PROVE FALSE
          OBVIOUS
        <4>2. OutputsWait
          BY <3>1, <4>1 DEF OutputsWait
        <4>3. stream[l].item > n /\ stream[l].item \in 1 .. m
          BY <1>1, <1>2, <1>3, <1>18, <2>1, <3>1, <4>1 DEF StreamKept
        <4> QED
          BY <1>3, <1>16, <4>2, <4>3
      <3> QED
        BY <1>1, <1>18, <2>1, <3>1, <3>2, <3>3 DEF StreamKept
    <2>2. ASSUME NEW j \in 1 .. m - n, l = s + j
          PROVE  /\ stream'[l].type = "tool_output"
                 /\ stream'[k].type = "tool_output" => stream'[k].item < stream'[l].item
      <3>1. stream'[l].type = "tool_output" /\ stream'[l].item = n + j
        BY <1>14, <2>2
      <3>2. CASE k \in DOMAIN stream
        <4>1. stream'[k] = stream[k]
          BY <1>13, <3>2
        <4>2. stream[k].type = "tool_output" => stream[k].item \in 1 .. m /\ stream[k].item <= n
          BY <1>1, <1>2, <1>3, <3>2 DEF StreamKept
        <4> QED
          BY <1>3, <3>1, <4>1, <4>2
      <3>3. ASSUME NEW i \in 1 .. m - n, k = s + i
            PROVE  stream'[k].item < stream'[l].item
        <4>1. stream'[k].item = n + i /\ i < j
          BY <1>12, <1>14, <1>18, <2>2, <3>3
        <4> QED
          BY <1>3, <3>1, <4>1
      <3> QED
        BY <1>15, <3>1, <3>2, <3>3
    <2> QED
      BY <1>15, <2>1, <2>2
  <1>19. StreamKept'
    <2>1. (\A k \in DOMAIN stream :
              LET ev == stream[k] IN
              /\ ev.type \in {"delta", "message"} => ev.item = 0
              /\ ev.type \in {"tool_called", "tool_output"} => ev.item \in DOMAIN agent.calls
              /\ ev.type = "tool_called" => (ev.dispatch <=> agent.calls[ev.item].kind = "dispatch")
              /\ ev.type = "tool_output" => ev.item <= agent.answered
              /\ ev.type = "delta" => \E l \in DOMAIN stream : k < l /\ stream[l].type = "message")'
      BY <1>7, <1>9, <1>17
    <2>2. (\A k, l \in DOMAIN stream : k < l =>
              /\ stream[k].type = stream[l].type
                     /\ stream[k].type \in {"tool_called", "tool_output"} =>
                     stream[k].item < stream[l].item
              /\ stream[k].type = "tool_output" /\ stream[l].type = "tool_called" =>
                    stream[l].item > agent.answered)'
      BY <1>9, <1>18
    <2>3. (\A i \in DOMAIN agent.calls : i > agent.answered => agent.calls[i].status = "running")'
      BY <1>3, <1>7, <1>9
    <2> QED
      BY <2>1, <2>2, <2>3 DEF StreamKept
  <1>20. ASSUME NEW i
         PROVE  /\ InQueue("tool_called", i)' <=> InQueue("tool_called", i)
                /\ InQueue("tool_output", i)' <=>
                      InQueue("tool_output", i) \/ \E j \in 1 .. m - n : i = n + j
    <2>1. ASSUME NEW type, InQueue(type, i) PROVE InQueue(type, i)'
      BY <1>13, <2>1 DEF InQueue
    <2>2. ASSUME NEW j \in 1 .. m - n, i = n + j PROVE InQueue("tool_output", i)'
      BY <1>14, <2>2 DEF InQueue
    <2>3. ASSUME InQueue("tool_called", i)' PROVE InQueue("tool_called", i)
      BY <1>13, <1>14, <1>15, <2>3 DEF InQueue
    <2>4. ASSUME InQueue("tool_output", i)', ~InQueue("tool_output", i)
          PROVE  \E j \in 1 .. m - n : i = n + j
      <3>1. PICK k \in DOMAIN stream' : stream'[k].type = "tool_output" /\ stream'[k].item = i
        BY <2>4 DEF InQueue
      <3>2. k \notin DOMAIN stream
        BY <1>13, <2>4, <3>1 DEF InQueue
      <3>3. PICK l \in 1 .. m - n : k = s + l
        BY <1>15, <3>2
      <3> QED
        BY <1>14, <3>1, <3>3
    <2> QED
      BY <2>1, <2>2, <2>3, <2>4
  <1>21. \A i \in 1 .. m : ~(i <= n) <=> \E j \in 1 .. m - n : i = n + j
    <2>1. \A i \in 1 .. m : ~(i <= n) => i - n \in 1 .. m - n /\ i = n + (i - n)
      BY <1>3
    <2>2. \A i \in 1 .. m : ~(i <= n) => \E j \in 1 .. m - n : i = n + j
      BY <2>1
    <2>3. \A i \in 1 .. m, j \in 1 .. m - n : i = n + j => ~(i <= n)
      BY <1>3
    <2> QED
      BY <2>2, <2>3
  <1>22. ToldKept'
    <2>1. DispatchesKnown'
      BY <1>1, <1>3, <1>7, <1>9, <1>10, <1>20 DEF ToldKept, DispatchesKnown
    <2>2. SubRunsHeld'
      <3>1. ASSUME NEW k \in DOMAIN told.sub_runs, NEW i, i = told.sub_runs[k]
            PROVE  /\ i \in 1 .. m /\ calls[i].kind = "dispatch" /\ calls[i].status # "running"
                   /\ InQueue("tool_output", i)' /\ SubRuns(events, i) = {}
        <4>1. /\ i \in 1 .. m /\ agent.calls[i].kind = "dispatch"
              /\ i <= n => InQueue("tool_output", i)
              /\ SubRuns(events, i) = {}
          BY <1>1, <1>2, <1>3, <3>1 DEF ToldKept, SubRunsHeld
        <4> QED
          BY <1>7, <1>20, <1>21, <4>1
      <3> QED
        BY <1>7, <1>9, <1>10, <3>1 DEF SubRunsHeld
    <2>3. SubRunsDiffer'
      BY <1>1, <1>10 DEF ToldKept, SubRunsDiffer
    <2>4. TextOpen'
      BY <1>1, <1>10, <1>13 DEF ToldKept, TextOpen
    <2>5. RunningUntold'
      BY <1>7, <1>9 DEF RunningUntold
    <2> QED
      BY <2>1, <2>2, <2>3, <2>4, <2>5 DEF ToldKept
  <1>23. LogKept'
    <2>1. ASSUME NEW i \in 1 .. m
          PROVE  /\ Starts(events, i) = {} <=> InQueue("tool_called", i)'
                 /\ Completes(events, i) # {} <=> i <= m /\ ~InQueue("tool_output", i)'
                 /\ IsOpen(events, i) => Completes(events, i) = {}
      <3>1. /\ Starts(events, i) = {} <=> InQueue("tool_called", i)
            /\ Completes(events, i) # {} <=> i <= n /\ ~InQueue("tool_output", i)
            /\ IsOpen(events, i) => Completes(events, i) = {}
        BY <1>1, <1>2, <1>3, <2>1 DEF LogKept
      <3>2. i <= m
        BY <1>3
      <3> QED
        BY <1>20, <1>21, <3>1, <3>2
    <2>2. IsOpen(events, 0) <=> 0 \in told.open
      BY <1>1 DEF LogKept
    <2> QED
      BY <1>7, <1>9, <1>10, <2>1, <2>2 DEF LogKept
  <1>24. CallsKept'
    BY <1>3, <1>7, <1>9 DEF CallsKept
  <1>25. LogInv'
    <2>1. ItemsTold' /\ ItemsKnown'
      BY <1>1, <1>2, <1>7, <1>9, <1>10 DEF LogInv, ItemsTold, ItemsKnown
    <2>2. InterruptTold'
      BY <1>1, <1>10 DEF LogInv, InterruptTold
    <2>3. EndKept'
      BY <1>1, <1>2, <1>7, <1>9, <1>10 DEF LogInv, EndKept
    <2> QED
      BY <2>1, <2>2, <2>3 DEF LogInv
  <1>26. FollowerKept'
    <2>1. PICK new : new = <<>>
      OBVIOUS
    <2>2. /\ new \in Seq(Event) /\ events' = events \o new /\ \A k \in DOMAIN new : ~IsCall(new[k])
      BY <1>1, <1>10, <2>1 DEF EventTypesOK
    <2>3. follower' = follower /\ (agent.at # "off" => agent'.at # "off")
      BY <1>9, <1>10
    <2>4. EventTypesOK /\ FollowerKept
      BY <1>1
    <2> QED
      BY <2>2, <2>3, <2>4, FollowerGrows
  <1>27. EventTypesOK' /\ OffKept'
    BY <1>1, <1>9, <1>10, <1>12 DEF EventTypesOK, OffKept, AgentType
  <1> QED
    BY <1>10, <1>19, <1>22, <1>23, <1>24, <1>25, <1>26, <1>27 DEF EventsInv

\* A turn completes with the queue empty, so with nothing open and no run held.
LEMMA TurnCompletesKept ==
    ASSUME EventsInv, told.running, TurnCompletes
    PROVE  EventsInv'
  <1>1. /\ EventTypesOK /\ CallsKept /\ ToldKept /\ LogKept /\ ItemsTold
        /\ agent.at = "done" /\ stream = <<>> /\ stream' = <<>>
        /\ Ends("turn_completed", told.interrupted) /\ told \in ToldType
        /\ Len(agent.calls) \in Nat /\ DOMAIN agent.calls = 1 .. Len(agent.calls)
    BY DEF EventsInv, LogInv, TurnCompletes, EventTypesOK, ToldType
  <1>2. agent.answered = Len(agent.calls) /\ \A type, i : ~InQueue(type, i)
    BY <1>1 DEF CallsKept, InQueue
  <1>3. \A i \in 0 .. Len(agent.calls) : ~IsOpen(events, i)
    <2>1. ~IsOpen(events, 0)
      BY <1>1 DEF LogKept, ToldKept, TextOpen
    <2>2. ASSUME NEW i \in 1 .. Len(agent.calls) PROVE ~IsOpen(events, i)
      BY <1>1, <1>2 DEF LogKept
    <2>3. \A i \in 0 .. Len(agent.calls) : i = 0 \/ i \in 1 .. Len(agent.calls)
      OBVIOUS
    <2> QED
      BY <2>1, <2>2, <2>3
  <1>4. told.sub_runs = <<>>
    <2>1. \A k \in DOMAIN told.sub_runs : FALSE
      BY <1>1, <1>2 DEF ToldKept, SubRunsHeld
    <2>2. PICK runs : runs = told.sub_runs
      OBVIOUS
    <2>3. runs \in Seq(Nat) /\ DOMAIN runs = {}
      BY <1>1, <2>1, <2>2 DEF ToldType
    <2>4. Len(runs) = 0
      BY <2>3
    <2>5. runs = <<>>
      BY <2>3, <2>4
    <2> QED
      BY <2>2, <2>5
  <1>5. told.interrupted \in BOOLEAN /\ stream' \in Seq(QueuedEvent)
    BY <1>1 DEF ToldType
  <1>6. PICK flag \in BOOLEAN : flag = told.interrupted
    BY <1>5
  <1>7. Ends("turn_completed", flag)
    BY <1>1, <1>6
  <1> QED
    BY <1>3, <1>4, <1>5, <1>6, <1>7, EndsKept

\* A turn fails whatever is queued.
LEMMA StreamFailsKept ==
    ASSUME EventsInv, StreamFails
    PROVE  EventsInv'
  <1>1. Ends("turn_failed", FALSE) /\ stream' = <<>>
    BY DEF StreamFails
  <1>2. PICK flag \in BOOLEAN : flag = FALSE
    OBVIOUS
  <1>3. stream' \in Seq(QueuedEvent)
    <2>1. <<>> \in Seq(QueuedEvent)
      OBVIOUS
    <2> QED
      BY <1>1, <2>1
  <1>4. Ends("turn_failed", flag)
    BY <1>1, <1>2
  <1> QED
    BY <1>2, <1>3, <1>4, EndsKept

\* Before the turn, nothing.
LEMMA EventsInitInv == TurnEventsInit => EventsInv
  <1> SUFFICES ASSUME TurnEventsInit PROVE EventsInv
    OBVIOUS
  <1>1. /\ agent.at = "off" /\ agent.responses = 0 /\ agent.answered = 0 /\ agent.calls = <<>>
        /\ stream = <<>> /\ events = <<>> /\ ~told.running /\ told.open = {}
        /\ told.dispatches = {} /\ told.sub_runs = <<>> /\ ~told.interrupted /\ follower = Off
        /\ follower.at = "off" /\ follower.seen = 0 /\ follower.calls = <<>>
        /\ follower.status = "started"
    BY DEF TurnEventsInit, Off
  <1>2. EventTypesOK
    <2>1. <<>> \in Seq(ToolCall) /\ <<>> \in Seq(QueuedEvent) /\ <<>> \in Seq(Event)
          /\ <<>> \in Seq(Nat)
      OBVIOUS
    <2>2. stream \in Seq(QueuedEvent) /\ events \in Seq(Event)
      BY <1>1, <2>1
    <2>3. agent \in [at : {"off", "model", "tools", "done"}, responses : Nat, answered : Nat,
                     calls : Seq(ToolCall)]
      BY <2>1 DEF TurnEventsInit
    <2>4. told \in [running : BOOLEAN, open : SUBSET {0}, dispatches : SUBSET Nat,
                    sub_runs : Seq(Nat), interrupted : BOOLEAN]
      BY <2>1 DEF TurnEventsInit
    <2>5. follower \in [at : {"off", "starting", "following", "returned"}, seen : Nat,
                        calls : Seq(Nat), interrupted : BOOLEAN,
                        status : {"started", "turn_completed", "turn_failed", "timeout"}]
      BY <2>1 DEF TurnEventsInit, Off
    <2> QED
      BY <2>2, <2>3, <2>4, <2>5 DEF EventTypesOK
  <1>3. CallsKept /\ OffKept
    BY <1>1 DEF CallsKept, OffKept
  <1>4. ItemsTold /\ ItemsKnown /\ InterruptTold /\ EndKept
    <2>1. DOMAIN events = {}
      BY <1>1
    <2>2. \A i : Starts(events, i) = {} /\ Completes(events, i) = {} /\ SubRuns(events, i) = {}
      BY <2>1 DEF Starts, Completes, SubRuns, Places
    <2>3. ItemsTold
      BY <2>2 DEF ItemsTold, Alternates, SubRunWithin
    <2> QED
      BY <1>1, <2>1, <2>3 DEF ItemsKnown, InterruptTold, EndKept
  <1>5. FollowerKept
    BY <1>1 DEF FollowerKept
  <1> QED
    BY <1>1, <1>2, <1>3, <1>4, <1>5 DEF EventsInv, LogInv

\* Every step of a turn and of its follower keeps it.
LEMMA EventsStepInv == EventsInv /\ [TurnEventsNext]_turnEventVars => EventsInv'
  <1> SUFFICES ASSUME EventsInv, [TurnEventsNext]_turnEventVars PROVE EventsInv'
    OBVIOUS
  <1>1. CASE told.running /\ Respond
    <2>1. EventTypesOK
      BY DEF EventsInv
    <2>2. \E kinds, n, m, queued : Responds(kinds, n, m, queued)
      BY <1>1, <2>1, RespondResponds
    <2> QED
      BY <1>1, <2>2, RespondKept
  <1>2. CASE told.running /\ ToolsDone
    BY <1>2, ToolsDoneKept
  <1>3. CASE told.running /\ TurnCompletes
    BY <1>3, TurnCompletesKept
  <1>4. CASE told.running /\ StreamFails
    BY <1>4, StreamFailsKept
  <1>5. ASSUME told.running, NEW i \in DOMAIN agent.calls, CallReturns(i) PROVE EventsInv'
    BY <1>5, CallReturnsKept
  <1>6. CASE Translate
    <2>1. Translates
      BY <1>6 DEF Translate, Translates
    <2>2. \/ Head(stream).type = "delta" /\ Delta(Head(stream))
          \/ Head(stream).type = "message" /\ MessageOutput(Head(stream))
          \/ Head(stream).type = "tool_called" /\ ToolCalled(Head(stream))
          \/ Head(stream).type = "tool_output" /\ ToolOutput(Head(stream))
      BY <1>6 DEF Translate
    <2> QED
      BY <2>1, <2>2, TranslateMessage, TranslateToolCalled, TranslateToolOutput
  <1>7. CASE OtherTurn
    BY <1>7, OtherTurnKept
  <1>8. CASE ReadLastSeq
    BY <1>8, ReadLastSeqKept
  <1>9. CASE SendMessage
    BY <1>9, TurnStartedKept, SendRefusedKept DEF SendMessage
  <1>10. CASE StartElsewhere
    BY <1>10, TurnStartedKept DEF StartElsewhere
  <1>11. ASSUME NEW k \in DOMAIN events, FollowCall(k) \/ FollowEnd(k) PROVE EventsInv'
    BY <1>11, FollowCallKept, FollowEndKept
  <1>12. CASE FollowTimesOut
    BY <1>12, FollowTimesOutKept
  <1>13. CASE UNCHANGED turnEventVars
    <2>1. UNCHANGED <<agent, stream, told, events, follower>>
      BY <1>13 DEF turnEventVars
    <2>2. EventTypesOK'
      BY <2>1 DEF EventsInv, EventTypesOK
    <2>3. FollowerKept'
      <3>1. FollowerKept
        BY DEF EventsInv
      <3>2. \A type : Of(type, 0)' = Of(type, 0)
        BY <2>1 DEF Of
      <3>3. \A calls, n : Tells(events', calls, n) <=> Tells(events, calls, n)
        BY <2>1
      <3>4. /\ TellsCalls(follower.calls, follower.seen)' <=> TellsCalls(follower.calls, follower.seen)
            /\ TellsCalls(follower.calls, Len(events))' <=> TellsCalls(follower.calls, Len(events))
        BY <2>1, <3>3 DEF TellsCalls, Tells
      <3> QED
        BY <2>1, <3>1, <3>2, <3>4 DEF FollowerKept
    <2> QED
      BY <2>1, <2>2, <2>3, FollowerMoves
  <1> QED
    BY <1>1, <1>2, <1>3, <1>4, <1>5, <1>6, <1>7, <1>8, <1>9, <1>10, <1>11, <1>12, <1>13
    DEF TurnEventsNext

\* What was told, what is queued and what the turn remembers agree.
THEOREM EventsInvHolds == TurnEventsSpec => []EventsInv
  BY EventsInitInv, EventsStepInv, PTL DEF TurnEventsSpec

\* The variables of a turn have their types.
THEOREM TurnEventsTypeCorrect == TurnEventsSpec => []TurnEventsTypeOK
  <1>1. ASSUME EventsInv PROVE TurnEventsTypeOK
    <2>1. /\ EventTypesOK /\ CallsKept /\ follower.seen <= Len(events)
      BY <1>1 DEF EventsInv, FollowerKept
    <2>2. /\ agent.at \in {"off", "model", "tools", "done"} /\ agent.answered \in Nat
          /\ Len(agent.calls) \in Nat /\ Len(events) \in Nat
          /\ follower.at \in {"off", "starting", "following", "returned"}
          /\ follower.status \in {"started", "turn_completed", "turn_failed", "timeout"}
          /\ follower.seen \in Nat
      BY <2>1 DEF EventTypesOK
    <2>3. \A i \in DOMAIN events : events[i].turn \in {1, 2}
      <3>1. \A i \in DOMAIN events : events[i] \in Event
        BY <2>1 DEF EventTypesOK
      <3>2. \A ev \in Event : ev.turn \in {1, 2}
        BY DEF Event
      <3> QED
        BY <3>1, <3>2
    <2> QED
      BY <2>1, <2>2, <2>3 DEF TurnEventsTypeOK, CallsKept
  <1> QED
    BY <1>1, EventsInvHolds, PTL

\* The events of a turn make sense in their order, for any number of calls and
\* responses, and who waits for the turn is given its own outcome.
THEOREM TurnToldWhole == TurnEventsSpec => []TurnIsToldWhole
  <1>1. ASSUME EventsInv PROVE TurnIsToldWhole
    <2>1. /\ EventTypesOK /\ ItemsTold /\ InterruptTold /\ EndKept /\ FollowerKept
          /\ events \in Seq(Event) /\ Len(events) \in Nat /\ DOMAIN events = 1 .. Len(events)
      BY <1>1 DEF EventsInv, LogInv, EventTypesOK
    <2>2. \A type, item : Of(type, item) = Places(events, type, item)
      BY DEF Of, Places
    <2>3. ASSUME NEW item \in 0 .. Len(agent.calls)
          PROVE  StartsAndCompletes(item) /\ SubRunInPlace(item)
      <3>1. Alternates(events, item) /\ SubRunWithin(events, item)
        BY <2>1 DEF ItemsTold
      <3>2. StartsAndCompletes(item)
        BY <2>2, <3>1 DEF Alternates, StartsAndCompletes, Starts, Completes
      <3>3. SubRunInPlace(item)
        BY <2>2, <3>1 DEF SubRunWithin, SubRunInPlace, Starts, Completes, SubRuns
      <3> QED
        BY <3>2, <3>3
    <2>4. ASSUME NEW i \in Of("turn_completed", 0)
          PROVE  /\ \A item \in 0 .. Len(agent.calls) : \A k \in Of("item_started", item) :
                       \E l \in Of("item_completed", item) : k < l
                 /\ told.sub_runs = <<>>
                 /\ events[i].flag = \E k \in DOMAIN events :
                       events[k].turn = 1 /\ events[k].type = "item_completed" /\ events[k].flag
      <3>1. i \in DOMAIN events /\ IsEnd(events[i]) /\ events[i].type = "turn_completed"
        BY <2>4 DEF Of, IsEnd
      <3>2. /\ \A item \in 0 .. Len(agent.calls) : ~IsOpen(events, item)
            /\ told.sub_runs = <<>> /\ events[i].flag = told.interrupted
        BY <2>1, <3>1 DEF EndKept
      <3>3. ASSUME NEW item \in 0 .. Len(agent.calls), NEW k \in Of("item_started", item)
            PROVE  \E l \in Of("item_completed", item) : k < l
        <4>1. k \in Starts(events, item)
          BY <2>2, <3>3 DEF Starts
        <4>2. PICK l \in Completes(events, item) : ~(l < k)
          BY <3>2, <4>1 DEF IsOpen
        <4>3. k \in Nat /\ l \in Nat /\ k # l
          BY <2>1, <4>1, <4>2 DEF Starts, Completes, Places
        <4> QED
          BY <2>2, <4>2, <4>3 DEF Completes
      <3>4. events[i].flag \in BOOLEAN /\ told.interrupted \in BOOLEAN
        <4>1. events[i] \in Event
          BY <2>1, <3>1
        <4>2. told.interrupted \in BOOLEAN
          BY <2>1 DEF EventTypesOK
        <4> QED
          BY <4>1, <4>2 DEF Event
      <3>5. events[i].flag = \E k \in DOMAIN events :
                events[k].turn = 1 /\ events[k].type = "item_completed" /\ events[k].flag
        BY <2>1, <3>2, <3>4 DEF InterruptTold
      <3> QED
        BY <3>2, <3>3, <3>5
    <2>5. \A i \in DOMAIN events : IsEnd(events[i]) =>
             \A k \in i + 1 .. Len(events) : events[k].turn = 1 => events[k].type = "state"
      BY <2>1 DEF EndKept
    <2>6. follower.status \in {"turn_completed", "turn_failed"} =>
             /\ \E i \in Of(follower.status, 0) : events[i].flag = follower.interrupted
             /\ TellsCalls(follower.calls, Len(events))
      BY <2>1 DEF FollowerKept
    <2>7. ASSUME follower.at = "following", ~told.running
          PROVE  \E k \in follower.seen + 1 .. Len(events) : IsEnd(events[k])
      <3>1. agent.at # "off" /\ \A i \in 1 .. follower.seen : ~IsEnd(events[i])
        BY <2>1, <2>7 DEF FollowerKept
      <3>2. PICK k \in DOMAIN events : IsEnd(events[k])
        BY <2>1, <2>7, <3>1 DEF EndKept
      <3>3. k \notin 1 .. follower.seen /\ follower.seen \in Nat
        BY <2>1, <3>1, <3>2 DEF EventTypesOK
      <3>4. k \in follower.seen + 1 .. Len(events)
        BY <2>1, <3>3
      <3> QED
        BY <3>2, <3>4
    <2> QED
      BY <2>3, <2>4, <2>5, <2>6, <2>7 DEF TurnIsToldWhole
  <1> QED
    BY <1>1, EventsInvHolds, PTL

-----------------------------------------------------------------------------
(* The services together.                                                   *)

\* A behaviour of the services is one of each of them.
LEMMA EachService ==
    ServicesSpec => MemorySpec /\ LongTermSpec /\ AssetSpec /\ TurnEventsSpec /\ EvalSpec
  <1>1. ServicesInit => MemoryInit /\ LongTermInit /\ AssetInit /\ TurnEventsInit /\ EvalInit
    BY DEF ServicesInit
  <1>2. [ServicesNext /\ UNCHANGED part]_servicesVars =>
           /\ [MemoryNext]_memoryVars /\ [LongTermNext]_longTermVars /\ [AssetNext]_assetVars
           /\ [TurnEventsNext]_turnEventVars /\ [EvalNext]_evalVars
    BY DEF ServicesNext, servicesVars
  <1> QED
    BY <1>1, <1>2, PTL
    DEF ServicesSpec, MemorySpec, LongTermSpec, AssetSpec, TurnEventsSpec, EvalSpec

\* So each keeps its types beside the others.
THEOREM ServicesTypeCorrect == ServicesSpec => []ServicesTypeOK
  BY EachService, MemoryTypeCorrect, LongTermTypeCorrect, AssetTypeCorrect,
     TurnEventsTypeCorrect, EvalTypeCorrect, PTL DEF ServicesTypeOK
=============================================================================
