----------------------------- MODULE TurnProofs -----------------------------
(***************************************************************************)
(* Theorems of TurnService, for any sends, processes, intervals and bounds, *)
(* whatever crashes and raises: with or without stalls, but for the last    *)
(* two sections.                                                            *)
(***************************************************************************)
EXTENDS TurnService, TLAPS

-----------------------------------------------------------------------------
(* Type correctness, one lemma per group of actions.                        *)

\* What the actions store in the lease is a lease row.
LEMMA LeaseRows ==
    ASSUME lease \in LeaseRow, NEW s \in Send
    PROVE  /\ NoRow \in LeaseRow
           /\ Granted(s) \in LeaseRow
           /\ Renewed(s) \in LeaseRow
           /\ Released(s) \in LeaseRow
           /\ Elapsed \in LeaseRow
  BY TTLAssumption DEF LeaseRow, NoRow, Granted, Renewed, Released, Elapsed, Live

\* The steps of start_turn keep the types.
LEMMA ServeType ==
    ASSUME TypeOK, NEW s \in Send, Serve(s)
    PROVE  TypeOK'
  <1>1. CASE Receive(s)
    BY <1>1 DEF TypeOK, Receive, Answer, CallState, task, disk, world
  <1>2. CASE Acquire(s)
    BY <1>2, LeaseRows DEF TypeOK, Acquire, Answer, CallState, task, world
  <1>3. CASE Recheck(s)
    BY <1>3 DEF TypeOK, Recheck, Answer, CallState, task, disk, world
  <1>4. CASE Record(s)
    BY <1>4 DEF TypeOK, Record, Answer, CallState, RunState, TurnStatus, world
  <1>5. CASE Withdraw(s)
    BY <1>5, LeaseRows DEF TypeOK, Withdraw, Withdrawn, Answer, CallState, task, world
  <1> QED
    BY <1>1, <1>2, <1>3, <1>4, <1>5 DEF Serve

\* finish_turn keeps the table's type.
LEMMA FinishedType ==
    ASSUME TypeOK, NEW s \in Send, NEW status \in TurnStatus
    PROVE  Finished(s, status) \in [Send -> TurnStatus]
  BY DEF TypeOK, Finished

\* The steps of _run keep the types.
LEMMA WorkType ==
    ASSUME TypeOK, NEW s \in Send, Work(s)
    PROVE  TypeOK'
  <1>1. CASE StartRun(s)
    <2>1. HomeOf[s] \in Process /\ RefreshEvery \in 0 .. RefreshEvery
      BY ServiceAssumption
    <2> QED
      BY <1>1, <2>1 DEF TypeOK, StartRun, RunState, request, disk, world
  <1>2. CASE EndStream(s)
    BY <1>2 DEF TypeOK, EndStream, AnswersWith, RunState, request, world
  <1>3. CASE FailStream(s)
    BY <1>3 DEF TypeOK, FailStream, RunState, request, disk, world
  <1>4. CASE Complete(s)
    BY <1>4, FinishedType DEF TypeOK, Complete, RunState, TurnStatus, request, world
  <1>5. CASE Fail(s)
    BY <1>5, FinishedType DEF TypeOK, Fail, RunState, TurnStatus, request, world
  <1>6. CASE Cancelled(s)
    BY <1>6, FinishedType
       DEF TypeOK, Cancelled, CancelledStatus, RunState, TurnStatus, request, world
  <1>7. CASE End(s)
    BY <1>7, LeaseRows DEF TypeOK, End, RunState, request, world
  <1> QED
    BY <1>1, <1>2, <1>3, <1>4, <1>5, <1>6, <1>7 DEF Work

\* A failing statement keeps the types.
LEMMA ErrorType ==
    ASSUME TypeOK, NEW s \in Send, Raises(s)
    PROVE  TypeOK'
  <1>1. RefreshEvery \in 0 .. RefreshEvery /\ MaxErrors \in Nat
    BY ServiceAssumption
  <1>2. errors' \in 0 .. MaxErrors
    BY <1>1 DEF TypeOK, Raises, RequestRaises, StoreError, RefreshRaises
  <1>3. CASE RequestRaises(s)
    BY <1>2, <1>3 DEF TypeOK, RequestRaises, Answer, CallState, task, disk
  <1>4. CASE StoreError(s)
    <2>1. run' \in [Send -> RunState] /\ timer' \in [Send -> 0 .. RefreshEvery]
      BY <1>1, <1>4 DEF TypeOK, StoreError, RunState
    <2> QED
      BY <1>2, <1>4, <2>1 DEF TypeOK, StoreError, request, disk
  <1>5. CASE RefreshRaises(s)
    BY <1>2, <1>5 DEF TypeOK, RefreshRaises, request, disk
  <1> QED
    BY <1>3, <1>4, <1>5 DEF Raises

\* A wake-up of the refresher keeps the types.
LEMMA RefreshType ==
    ASSUME TypeOK, NEW s \in Send, Refresh(s)
    PROVE  TypeOK'
  <1>1. RefreshEvery \in 0 .. RefreshEvery
    BY ServiceAssumption
  <1> QED
    BY <1>1, LeaseRows DEF TypeOK, Refresh, StopState, request, world

\* The steps of a process keep the types.
LEMMA ProcessType ==
    ASSUME TypeOK, NEW p \in Process, Crash(p) \/ Shutdown(p) \/ Exit(p) \/ Restart(p)
    PROVE  TypeOK'
  <1>1. ASSUME Gone(p), outages' \in 0 .. MaxOutages
        PROVE  TypeOK'
    BY <1>1 DEF TypeOK, Gone, CallState, RunState, disk
  <1>2. CASE Crash(p)
    <2>1. outages' \in 0 .. MaxOutages
      BY <1>2, ServiceAssumption DEF TypeOK, Crash
    <2> QED
      BY <1>1, <1>2, <2>1 DEF Crash
  <1>3. CASE Shutdown(p)
    <2>1. outages' \in 0 .. MaxOutages
      BY <1>3, ServiceAssumption DEF TypeOK, Shutdown
    <2> QED
      BY <1>3, <2>1 DEF TypeOK, Shutdown, RunState, StopState, request, disk
  <1>4. CASE Exit(p)
    BY <1>1, <1>4 DEF Exit, TypeOK
  <1>5. CASE Restart(p)
    BY <1>5 DEF TypeOK, Restart, request, task, disk
  <1> QED
    BY <1>2, <1>3, <1>4, <1>5

\* A tick keeps the types.
LEMMA TickType ==
    ASSUME TypeOK, Tick
    PROVE  TypeOK'
  <1>1. timer' \in [Send -> 0 .. RefreshEvery]
    BY ServiceAssumption DEF TypeOK, Tick
  <1>2. lease' \in LeaseRow
    BY TTLAssumption DEF TypeOK, Tick, Elapsed, LeaseRow, Live
  <1> QED
    BY <1>1, <1>2 DEF TypeOK, Tick, request, world

\* The service starts with its types.
LEMMA InitType == Init => TypeOK
  BY ServiceAssumption, TTLAssumption
  DEF Init, TypeOK, LeaseRow, NoRow, CallState, RunState, StopState, TurnStatus

\* Every step keeps the types.
LEMMA StepType == TypeOK /\ [Next]_vars => TypeOK'
  <1> SUFFICES ASSUME TypeOK, [Next]_vars PROVE TypeOK'
    OBVIOUS
  <1>1. CASE UNCHANGED vars
    BY <1>1 DEF TypeOK, vars, request, task, disk, world
  <1> QED
    BY <1>1, ServeType, WorkType, ErrorType, RefreshType, ProcessType, TickType DEF Next

\* Every variable keeps its type in every behaviour.
THEOREM TurnTypeCorrect == Spec => []TypeOK
  BY InitType, StepType, PTL DEF Spec
-----------------------------------------------------------------------------
(* One turn per message.  A message is stored by Record alone, which has     *)
(* looked for it in the same transaction.                                    *)

\* Every other step keeps the set of rows.
LEMMA RowsKept ==
    ASSUME TypeOK, [Next]_vars, NEW q \in Send, ~Record(q)
    PROVE  turn[q] = "none" <=> turn'[q] = "none"
  <1>1. CASE UNCHANGED vars
    BY <1>1 DEF vars, disk
  <1>2. ASSUME NEW s \in Send, Serve(s)
        PROVE  turn[q] = "none" <=> turn'[q] = "none"
    <2>1. CASE Record(s)
      BY <2>1 DEF Record, TypeOK
    <2> QED
      BY <1>2, <2>1 DEF Serve, Receive, Acquire, Recheck, Withdraw, disk
  <1>3. ASSUME NEW s \in Send, Work(s)
        PROVE  turn[q] = "none" <=> turn'[q] = "none"
    <2>1. ASSUME NEW status \in {"completed", "failed"}, turn' = Finished(s, status)
          PROVE  turn[q] = "none" <=> turn'[q] = "none"
      BY <2>1 DEF Finished, TypeOK
    <2> QED
      BY <1>3, <2>1 DEF Work, StartRun, EndStream, FailStream, Complete, Fail, Cancelled,
                        CancelledStatus, End, disk
  <1> QED
    BY <1>1, <1>2, <1>3
    DEF Next, Raises, RequestRaises, StoreError, RefreshRaises, Refresh, Crash, Shutdown, Exit, Restart, Gone, Tick, disk

\* However sends, processes and crashes interleave, a message starts one turn.
THEOREM OneTurnHolds == Spec => []OneTurnPerMessage
  <1>1. Init => OneTurnPerMessage
    BY DEF Init, OneTurnPerMessage
  <1>2. TypeOK /\ OneTurnPerMessage /\ [Next]_vars => OneTurnPerMessage'
    <2> SUFFICES ASSUME TypeOK, OneTurnPerMessage, [Next]_vars,
                        NEW q \in Send, NEW s \in Send,
                        turn'[q] # "none", turn'[s] # "none", MessageOf[q] = MessageOf[s]
                 PROVE  q = s
      BY DEF OneTurnPerMessage
    <2>1. CASE ~Record(q) /\ ~Record(s)
      BY <2>1, RowsKept DEF OneTurnPerMessage
    <2>2. ASSUME NEW a \in Send, NEW b \in Send, Record(a), MessageOf[b] = MessageOf[a],
                 turn'[b] # "none"
          PROVE  a = b
      <3>1. turn[b] = "none"
        BY <2>2 DEF Record, UniqueMessage, Stored
      <3> QED
        BY <2>2, <3>1 DEF Record, TypeOK
    <2> QED
      BY <2>1, <2>2
  <1> QED
    BY <1>1, <1>2, TurnTypeCorrect, PTL DEF Spec

-----------------------------------------------------------------------------
(* What a run has written, by where it stands.  Between two awaits a run     *)
(* keeps its event loop, so the refresher of an answered run cannot act: the *)
(* answer and finish_turn belong together.                                   *)

RunWrote(s) ==
    /\ turn[s] = "none" => run[s] = "none"
    /\ run[s] \in {"none", "created", "streaming", "orphaned"} =>
          s \notin answers /\ turn[s] # "completed"
    /\ run[s] = "answered" => s \in answers /\ stop[s] = "no"
    /\ stop[s] = "lease_lost" => s \notin answers /\ turn[s] # "completed"
    /\ turn[s] = "completed" => s \in answers

RunsWrote == \A s \in Send : RunWrote(s)

\* A run's own steps.
LEMMA WorkWrote ==
    ASSUME TypeOK, NEW s \in Send, Work(s), NEW t \in Send, RunWrote(t)
    PROVE  RunWrote(t)'
  <1>1. CASE StartRun(s)
    BY <1>1 DEF StartRun, RunWrote, TypeOK, disk
  <1>2. CASE EndStream(s)
    <2>1. CASE t = s
      BY <1>2, <2>1 DEF EndStream, AnswersWith, RunWrote, TypeOK
    <2>2. CASE t # s
      <3>1. run'[t] = run[t] /\ (t \in answers' <=> t \in answers)
        BY <1>2, <2>2 DEF EndStream, AnswersWith, TypeOK
      <3> QED
        BY <1>2, <3>1 DEF EndStream, RunWrote
    <2> QED
      BY <2>1, <2>2
  <1>3. CASE FailStream(s)
    BY <1>3 DEF FailStream, RunWrote, TypeOK, disk
  <1>4. CASE Complete(s)
    <2>1. CASE t = s
      BY <1>4, <2>1 DEF Complete, Finished, RunWrote, TypeOK
    <2>2. CASE t # s
      <3>1. run'[t] = run[t] /\ turn'[t] = turn[t]
        BY <1>4, <2>2 DEF Complete, Finished, TypeOK
      <3> QED
        BY <1>4, <3>1 DEF Complete, RunWrote
    <2> QED
      BY <2>1, <2>2
  <1>5. CASE Fail(s)
    BY <1>5 DEF Fail, Finished, RunWrote, TypeOK
  <1>6. CASE Cancelled(s)
    BY <1>6 DEF Cancelled, CancelledStatus, Finished, RunWrote, TypeOK
  <1>7. CASE End(s)
    BY <1>7 DEF End, RunWrote, TypeOK
  <1> QED
    BY <1>1, <1>2, <1>3, <1>4, <1>5, <1>6, <1>7 DEF Work

\* The refresher takes the loop only when no run of its process is in a section.
LEMMA RefreshWrote ==
    ASSUME TypeOK, NEW s \in Send, Refresh(s), NEW t \in Send, RunWrote(t)
    PROVE  RunWrote(t)'
  <1>1. run[s] \in {"streaming", "orphaned"}
    BY DEF Refresh, Wakes, Refreshing, Scheduled, LoopFree, InSection
  <1> QED
    BY <1>1 DEF Refresh, RunWrote, TypeOK

\* Every step keeps what the runs have written in agreement with where they stand.
LEMMA StepWrote == TypeOK /\ RunsWrote /\ [Next]_vars => RunsWrote'
  <1> SUFFICES ASSUME TypeOK, RunsWrote, [Next]_vars, NEW t \in Send
               PROVE  RunWrote(t)'
    BY DEF RunsWrote
  <1> RunWrote(t)
    BY DEF RunsWrote
  <1>1. CASE UNCHANGED vars
    BY <1>1 DEF vars, task, disk, RunWrote
  <1>2. ASSUME NEW s \in Send, Serve(s) PROVE RunWrote(t)'
    <2>1. CASE Record(s)
      <3>1. turn[s] = "none"
        BY <2>1 DEF Record, UniqueMessage, Stored, TypeOK
      <3> QED
        BY <2>1, <3>1 DEF Record, RunWrote, TypeOK
    <2> QED
      BY <1>2, <2>1 DEF Serve, Receive, Acquire, Recheck, Withdraw, task, disk, RunWrote
  <1>3. ASSUME NEW s \in Send, StoreError(s) PROVE RunWrote(t)'
    <2>1. CASE run[s] = "created" /\ run' = [run EXCEPT ![s] = "orphaned"]
      BY <1>3, <2>1 DEF StoreError, RunWrote, TypeOK, disk
    <2>2. CASE run' = [run EXCEPT ![s] = "ending"]
      BY <1>3, <2>2 DEF StoreError, RunWrote, TypeOK, disk
    <2>3. CASE run' = [run EXCEPT ![s] = "failing"]
      BY <1>3, <2>3 DEF StoreError, RunWrote, TypeOK, disk
    <2>4. CASE run' = [run EXCEPT ![s] = "over"]
      BY <1>3, <2>4 DEF StoreError, RunWrote, TypeOK, disk
    <2> QED
      BY <1>3, <2>1, <2>2, <2>3, <2>4 DEF StoreError
  <1>4. ASSUME NEW s \in Send, RequestRaises(s) \/ RefreshRaises(s) PROVE RunWrote(t)'
    BY <1>4 DEF RequestRaises, RefreshRaises, RunWrote, task, disk
  <1>5. ASSUME NEW p \in Process, Crash(p) \/ Exit(p) PROVE RunWrote(t)'
    BY <1>5 DEF Crash, Exit, Gone, RunWrote, TypeOK, disk
  <1>6. ASSUME NEW p \in Process, Shutdown(p) PROVE RunWrote(t)'
    BY <1>6 DEF Shutdown, RunWrote, TypeOK, disk
  <1>7. ASSUME NEW p \in Process, Restart(p) PROVE RunWrote(t)'
    BY <1>7 DEF Restart, RunWrote, task, disk
  <1>8. CASE Tick
    BY <1>8 DEF Tick, RunWrote
  <1> QED
    BY <1>1, <1>2, <1>3, <1>4, <1>5, <1>6, <1>7, <1>8, WorkWrote, RefreshWrote DEF Next, Raises

\* What every run has written agrees with where it stands, in every behaviour.
THEOREM RunsWroteHolds == Spec => []RunsWrote
  <1>1. Init => RunsWrote
    BY DEF Init, RunsWrote, RunWrote
  <1> QED
    BY <1>1, StepWrote, TurnTypeCorrect, PTL DEF Spec

\* A run that was told it lost its lease has not answered and never completes.
THEOREM LeaseLostHolds == Spec => []LeaseLostMeansFailed
  <1>1. RunsWrote => LeaseLostMeansFailed
    BY DEF RunsWrote, RunWrote, LeaseLostMeansFailed
  <1> QED
    BY <1>1, RunsWroteHolds, PTL

\* A completed turn has its answer stored, despite crashes and errors.
THEOREM CompletedHolds == Spec => []CompletedHasAnswer
  <1>1. RunsWrote => CompletedHasAnswer
    BY DEF RunsWrote, RunWrote, CompletedHasAnswer
  <1> QED
    BY <1>1, RunsWroteHolds, PTL

-----------------------------------------------------------------------------
(* The lease and its token.                                                 *)

\* Which steps touch the lease row, and how.
LEMMA LeaseSteps ==
    ASSUME [Next]_vars
    PROVE  \/ UNCHANGED lease
           \/ \E s \in Send : Acquire(s) /\ CanAcquire /\ lease' = Granted(s)
           \/ \E s \in Send : Withdraw(s) /\ lease' = Released(s)
           \/ \E s \in Send : End(s) /\ lease' = Released(s)
           \/ \E s \in Send : Refresh(s) /\ Holds(s) /\ lease' = Renewed(s)
           \/ Tick /\ lease' = Elapsed
  <1>1. CASE UNCHANGED vars
    BY <1>1 DEF vars, disk
  <1>2. ASSUME NEW s \in Send, Serve(s) \/ Work(s) \/ Raises(s) \/ Refresh(s)
        PROVE  \/ UNCHANGED lease
               \/ Acquire(s) /\ CanAcquire /\ lease' = Granted(s)
               \/ Withdraw(s) /\ lease' = Released(s)
               \/ End(s) /\ lease' = Released(s)
               \/ Refresh(s) /\ Holds(s) /\ lease' = Renewed(s)
    <2>1. CASE Serve(s)
      BY <2>1 DEF Serve, Receive, Acquire, Recheck, Record, Withdraw, Withdrawn, disk
    <2>2. CASE Work(s)
      BY <2>2 DEF Work, StartRun, EndStream, FailStream, Complete, Fail, Cancelled, End, disk
    <2>3. CASE Raises(s)
      BY <2>3 DEF Raises, RequestRaises, StoreError, RefreshRaises, disk
    <2>4. CASE Refresh(s)
      BY <2>4 DEF Refresh
    <2> QED
      BY <1>2, <2>1, <2>2, <2>3, <2>4
  <1>3. ASSUME NEW p \in Process, Crash(p) \/ Shutdown(p) \/ Exit(p) \/ Restart(p)
        PROVE  UNCHANGED lease
    BY <1>3 DEF Crash, Shutdown, Exit, Restart, Gone, disk
  <1>4. CASE Tick
    BY <1>4 DEF Tick
  <1> QED
    BY <1>1, <1>2, <1>3, <1>4 DEF Next

\* A live lease leaves its holder only by the holder's own doing: whoever wakes
\* up late neither takes, extends nor deletes it.
THEOREM LiveLeaseHolds == Spec => LiveLeaseIsItsHolders
  <1> DEFINE Moves(s) ==
          \/ lease'.token = s /\ lease'.left < lease.left
          \/ lease'.token = s /\ Refreshing(s) /\ timer[s] = 0 /\ timer'[s] = RefreshEvery
          \/ call[s] = "leased" /\ call'[s] # "leased"
          \/ run[s] = "ending" /\ run'[s] # "ending"
  <1>1. ASSUME TypeOK, [Next]_vars, NEW s \in Send, Holds(s), lease' # lease
        PROVE  Moves(s)
    <2>1. ASSUME NEW q \in Send, CanAcquire PROVE FALSE
      BY <1>1, <2>1 DEF Holds, CanAcquire
    <2>2. ASSUME NEW q \in Send, lease' = Released(q) PROVE q = s
      BY <1>1, <2>2 DEF Holds, Released
    <2>3. ASSUME NEW q \in Send, Withdraw(q), lease' = Released(q) PROVE Moves(s)
      BY <1>1, <2>2, <2>3 DEF Withdraw, Answer, TypeOK
    <2>4. ASSUME NEW q \in Send, End(q), lease' = Released(q) PROVE Moves(s)
      BY <1>1, <2>2, <2>4 DEF End, TypeOK
    <2>5. ASSUME NEW q \in Send, Refresh(q), Holds(q), lease' = Renewed(q) PROVE Moves(s)
      <3>1. q = s
        BY <1>1, <2>5 DEF Holds
      <3>2. lease'.token = s
        BY <1>1, <2>5 DEF Renewed, Holds, TypeOK, LeaseRow
      <3>3. Refreshing(s) /\ timer[s] = 0 /\ timer'[s] = RefreshEvery
        BY <1>1, <2>5, <3>1 DEF Refresh, Wakes, TypeOK
      <3> QED
        BY <3>2, <3>3
    <2>6. CASE Tick /\ lease' = Elapsed
      BY <1>1, <2>6, TTLAssumption DEF Elapsed, Holds, Live, TypeOK, LeaseRow
    <2> QED
      BY <1>1, <2>1, <2>3, <2>4, <2>5, <2>6, LeaseSteps
  <1>2. TypeOK /\ [Next]_vars
        => [\A s \in Send : Holds(s) /\ lease' # lease => Moves(s)]_vars
    BY <1>1
  <1> QED
    BY <1>2, TurnTypeCorrect, PTL DEF Spec, LiveLeaseIsItsHolders

-----------------------------------------------------------------------------
(* The answers of start_turn.  AnswersAreTrue is not inductive: that a       *)
(* refused call does not hold the lease needs to know whose token the row    *)
(* can have.                                                                 *)

ToldTruly(s) ==
    /\ call[s] = "started" <=> turn[s] # "none"
    /\ call[s] = "duplicate" => Stored(s)
    /\ lease.token = s => call[s] \in {"leased", "started", "lost"}

\* A row stays: what was a duplicate remains one.
LEMMA StoredKept ==
    ASSUME TypeOK, [Next]_vars, NEW s \in Send, Stored(s)
    PROVE  Stored(s)'
  <1>1. PICK q \in Send : MessageOf[q] = MessageOf[s] /\ turn[q] # "none"
    BY DEF Stored
  <1>2. turn'[q] # "none"
    <2>1. CASE Record(q)
      BY <2>1 DEF Record, TypeOK
    <2> QED
      BY <1>1, <2>1, RowsKept
  <1> QED
    BY <1>1, <1>2 DEF Stored

\* The row gets the token of a call that takes the lease, and no other.
LEMMA TokenMoves ==
    ASSUME TypeOK, [Next]_vars, NEW q \in Send, lease'.token = q
    PROVE  lease.token = q \/ (Acquire(q) /\ CanAcquire)
  <1>1. ASSUME NEW s \in Send, Acquire(s), CanAcquire, lease' = Granted(s) PROVE s = q
    BY <1>1 DEF Granted
  <1>2. ASSUME NEW s \in Send, lease' = Released(s) PROVE lease.token = q
    <2>1. NoRow.token # q
      BY NoSendAssumption DEF NoRow
    <2> QED
      BY <1>2, <2>1 DEF Released
  <1>3. ASSUME NEW s \in Send, lease' = Renewed(s) PROVE lease.token = q
    <2>1. Renewed(s).token = lease.token
      BY DEF Renewed, TypeOK, LeaseRow
    <2> QED
      BY <1>3, <2>1
  <1>4. CASE lease' = Elapsed
    <2>1. Elapsed.token = lease.token
      BY DEF Elapsed, TypeOK, LeaseRow
    <2> QED
      BY <1>4, <2>1
  <1>5. CASE UNCHANGED lease
    BY <1>5
  <1>6. CASE \E s \in Send : Acquire(s) /\ CanAcquire /\ lease' = Granted(s)
    BY <1>1, <1>6
  <1> QED
    BY <1>2, <1>3, <1>4, <1>5, <1>6, LeaseSteps

\* A step leaves a call where it stands, answers it, or ends it with its process.
LEMMA CallSteps ==
    ASSUME TypeOK, [Next]_vars, NEW q \in Send
    PROVE  \/ call'[q] = call[q]
           \/ Serve(q)
           \/ call[q] \in {"checked", "refused", "leased"} /\ call'[q] = "lost"
  <1>1. CASE UNCHANGED vars
    BY <1>1 DEF vars, request
  <1>2. ASSUME NEW s \in Send, s # q, Serve(s)
        PROVE  call'[q] = call[q]
    BY <1>2 DEF Serve, Receive, Acquire, Recheck, Record, Withdraw, Answer, TypeOK
  <1>3. ASSUME NEW s \in Send, Work(s) \/ StoreError(s) \/ Refresh(s) \/ RefreshRaises(s)
        PROVE  call'[q] = call[q]
    BY <1>3 DEF Work, StartRun, EndStream, FailStream, Complete, Fail, Cancelled, End,
                StoreError, Refresh, RefreshRaises, request
  <1>4. ASSUME NEW s \in Send, RequestRaises(s)
        PROVE  \/ call'[q] = call[q]
               \/ call[q] \in {"checked", "refused", "leased"} /\ call'[q] = "lost"
    BY <1>4 DEF RequestRaises, Answer, TypeOK
  <1>5. ASSUME NEW p \in Process, Crash(p) \/ Exit(p)
        PROVE  \/ call'[q] = call[q]
               \/ call[q] \in {"checked", "refused", "leased"} /\ call'[q] = "lost"
    BY <1>5 DEF Crash, Exit, Gone
  <1>6. ASSUME NEW p \in Process, Shutdown(p) \/ Restart(p) PROVE call'[q] = call[q]
    BY <1>6 DEF Shutdown, Restart, request
  <1>7. CASE Tick
    BY <1>7 DEF Tick, request
  <1> QED
    BY <1>1, <1>2, <1>3, <1>4, <1>5, <1>6, <1>7 DEF Next, Raises

\* What a client is told stays true, whatever the other actors do afterwards.
THEOREM AnswersHold == Spec => []AnswersAreTrue
  <1> DEFINE Told == \A s \in Send : ToldTruly(s)
  <1>1. Init => Told
    <2> SUFFICES ASSUME Init, NEW s \in Send PROVE ToldTruly(s)
      OBVIOUS
    <2>1. call[s] = "new" /\ turn[s] = "none"
      BY DEF Init
    <2>2. lease.token # s
      BY NoSendAssumption DEF Init, NoRow
    <2> QED
      BY <2>1, <2>2 DEF ToldTruly
  <1>2. TypeOK /\ Told /\ [Next]_vars => Told'
    <2> SUFFICES ASSUME TypeOK, Told, [Next]_vars, NEW q \in Send
                 PROVE  ToldTruly(q)'
      OBVIOUS
    <2>1. call'[q] = "started" <=> turn'[q] # "none"
      <3>1. CASE Record(q)
        BY <3>1 DEF Record, Answer, TypeOK
      <3>2. CASE ~Record(q) /\ Serve(q)
        BY <3>2, RowsKept
        DEF Serve, Receive, Acquire, Recheck, Withdraw, Answer, ToldTruly, TypeOK
      <3>3. CASE ~Serve(q)
        BY <3>3, CallSteps, RowsKept DEF Serve, ToldTruly
      <3> QED
        BY <3>1, <3>2, <3>3
    <2>2. call'[q] = "duplicate" => Stored(q)'
      <3>1. call'[q] = "duplicate" => Stored(q)
        BY CallSteps
        DEF Serve, Receive, Acquire, Recheck, Record, Withdraw, Answer, ToldTruly, TypeOK
      <3> QED
        BY <3>1, StoredKept
    <2>3. lease'.token = q => call'[q] \in {"leased", "started", "lost"}
      <3> SUFFICES ASSUME lease'.token = q
                   PROVE  call'[q] \in {"leased", "started", "lost"}
        OBVIOUS
      <3>1. CASE Acquire(q) /\ CanAcquire
        BY <3>1 DEF Acquire, Answer, TypeOK
      <3>2. CASE lease.token = q
        <4>1. call[q] \in {"leased", "started", "lost"}
          BY <3>2 DEF ToldTruly
        <4>2. CASE Withdraw(q)
          BY <3>2, <4>2, NoSendAssumption DEF Withdraw, Withdrawn, Released, NoRow
        <4>3. CASE Record(q)
          BY <4>3 DEF Record, Answer, TypeOK
        <4> QED
          BY <4>1, <4>2, <4>3, CallSteps DEF Serve, Receive, Acquire, Recheck
      <3> QED
        BY <3>1, <3>2, TokenMoves
    <2> QED
      BY <2>1, <2>2, <2>3 DEF ToldTruly
  <1>3. Told => AnswersAreTrue
    BY DEF ToldTruly, AnswersAreTrue, Holds
  <1> QED
    BY <1>1, <1>2, <1>3, TurnTypeCorrect, PTL DEF Spec

-----------------------------------------------------------------------------
(* Processes that keep up.  Without stalls the clock waits for what is due, *)
(* so the lease a run depends on outlasts the timer that refreshes it, as   *)
(* long as there is a refresher.  One that has raised leaves its own run    *)
(* without a lease and concerns no other.                                   *)

\* _run has started the refresher, which is alive, an orphan's included.
Engaged(s) ==
    /\ run[s] \in {"streaming", "answered", "failing", "ending", "orphaned"}
    /\ s \notin unkept

Timely(s) ==
    /\ stop[s] # "lease_lost"
    /\ call[s] = "leased" \/ run[s] = "created" => lease.token = s /\ lease.left = TTL
    /\ Engaged(s) => lease.token = s /\ timer[s] < lease.left

TimelyInv == \A s \in Send : Timely(s)

\* A call that holds a fresh lease has no run yet.
LEMMA LeasedHasNoRun ==
    ASSUME AnswersAreTrue, RunsWrote, NEW s \in Send, call[s] # "started"
    PROVE  run[s] = "none"
  BY DEF AnswersAreTrue, RunsWrote, RunWrote

\* Whoever has the lease, as a call or as a run, has it alone.
LEMMA TimelyHolder ==
    ASSUME TypeOK, NEW s \in Send, Timely(s),
           call[s] = "leased" \/ run[s] = "created" \/ Engaged(s)
    PROVE  Holds(s)
  BY TTLAssumption DEF TypeOK, LeaseRow, Timely, Engaged, Holds, Live

\* Steps of a call.
LEMMA ServeTimely ==
    ASSUME TypeOK, AnswersAreTrue, RunsWrote, TimelyInv, NEW s \in Send, Serve(s),
           NEW t \in Send
    PROVE  Timely(t)'
  <1> Timely(t) /\ Timely(s)
    BY DEF TimelyInv
  <1>1. CASE Receive(s) \/ Recheck(s)
    BY <1>1 DEF Receive, Recheck, Answer, Timely, Engaged, TypeOK, task, disk
  <1>2. CASE Acquire(s)
    <2>1. CASE ~CanAcquire
      BY <1>2, <2>1 DEF Acquire, Answer, Timely, Engaged, TypeOK, task
    <2>2. CASE CanAcquire
      <3>1. run[s] = "none"
        BY <1>2, LeasedHasNoRun DEF Acquire
      <3>2. t # s => call[t] # "leased" /\ run[t] # "created" /\ ~Engaged(t)
        BY <2>2, TimelyHolder DEF CanAcquire, Holds
      <3> QED
        BY <1>2, <2>2, <3>1, <3>2 DEF Acquire, Answer, Granted, Timely, Engaged, TypeOK, task
    <2> QED
      BY <2>1, <2>2
  <1>3. CASE Record(s)
    BY <1>3 DEF Record, Answer, Timely, Engaged, TypeOK
  <1>4. CASE Withdraw(s)
    <2>1. run[s] = "none" /\ Holds(s)
      BY <1>4, LeasedHasNoRun, TimelyHolder DEF Withdraw
    <2>2. t # s => call[t] # "leased" /\ run[t] # "created" /\ ~Engaged(t)
      BY <2>1, TimelyHolder DEF Holds
    <2> QED
      BY <1>4, <2>1, <2>2 DEF Withdraw, Answer, Timely, Engaged, TypeOK, task
  <1> QED
    BY <1>1, <1>2, <1>3, <1>4 DEF Serve

\* Steps of a run, and failing statements.
LEMMA RunTimely ==
    ASSUME TypeOK, AnswersAreTrue, RunsWrote, TimelyInv, NEW s \in Send,
           Work(s) \/ Raises(s), NEW t \in Send
    PROVE  Timely(t)'
  <1> Timely(t) /\ Timely(s)
    BY DEF TimelyInv
  <1>1. RefreshEvery < TTL
    BY ServiceAssumption
  <1>2. CASE StartRun(s)
    BY <1>1, <1>2 DEF StartRun, Timely, Engaged, TypeOK, request, disk
  <1>3. CASE EndStream(s) \/ FailStream(s) \/ Complete(s) \/ Fail(s) \/ Cancelled(s)
    BY <1>3 DEF EndStream, FailStream, Complete, Fail, Cancelled, Timely, Engaged, TypeOK,
                request, disk
  <1>4. CASE End(s)
    <2>1. call[s] = "started" /\ stop[s] # "lease_lost" /\ lease' = Released(s)
      BY <1>4, LeasedHasNoRun DEF End, Timely
    <2>2. CASE lease.token = s
      <3>1. t # s => call[t] # "leased" /\ run[t] # "created" /\ ~Engaged(t)
        BY <2>2 DEF Timely
      <3> QED
        BY <1>4, <2>1, <3>1 DEF End, Timely, Engaged, TypeOK, request
    <2>3. CASE lease.token # s
      <3>1. lease' = lease
        BY <2>1, <2>3 DEF Released
      <3> QED
        BY <1>4, <3>1 DEF End, Timely, Engaged, TypeOK, request
    <2> QED
      BY <2>2, <2>3
  <1>5. CASE StoreError(s)
    BY <1>1, <1>5 DEF StoreError, Timely, Engaged, TypeOK, request, disk
  <1>6. CASE RequestRaises(s)
    BY <1>6 DEF RequestRaises, Answer, Timely, Engaged, TypeOK, task, disk
  <1>7. CASE RefreshRaises(s)
    BY <1>7 DEF RefreshRaises, Timely, Engaged, request, disk
  <1> QED
    BY <1>2, <1>3, <1>4, <1>5, <1>6, <1>7 DEF Work, Raises

\* The refresher finds the lease it is for.
LEMMA RefreshTimely ==
    ASSUME TypeOK, AnswersAreTrue, RunsWrote, TimelyInv, NEW s \in Send, Refresh(s),
           NEW t \in Send
    PROVE  Timely(t)'
  <1> Timely(t) /\ Timely(s)
    BY DEF TimelyInv
  <1>1. Engaged(s) /\ call[s] = "started"
    BY LeasedHasNoRun DEF Refresh, Wakes, Refreshing, Engaged
  <1>2. Holds(s)
    BY <1>1, TimelyHolder
  <1>3. t # s => call[t] # "leased" /\ run[t] # "created" /\ ~Engaged(t)
    BY <1>2, TimelyHolder DEF Holds
  <1>4. stop' = stop /\ lease' = Renewed(s) /\ timer'[s] = RefreshEvery
    BY <1>2 DEF Refresh, TypeOK
  <1>5. Renewed(s).token = s /\ Renewed(s).left = TTL
    BY <1>2 DEF Renewed, Holds, TypeOK, LeaseRow
  <1>6. RefreshEvery < TTL
    BY ServiceAssumption
  <1> QED
    BY <1>1, <1>3, <1>4, <1>5, <1>6 DEF Refresh, Timely, Engaged, request

\* A tick shortens the lease and the timer of a run alike, and waits for what
\* is due.
LEMMA TickTimely ==
    ASSUME ~Stalls, TypeOK, TimelyInv, Tick, NEW t \in Send
    PROVE  Timely(t)'
  <1> Timely(t)
    BY DEF TimelyInv
  <1>1. ~Due(t)
    BY DEF Tick
  <1>2. call[t] # "leased" /\ run[t] # "created"
    BY <1>1 DEF Due, InSection
  <1>3. ASSUME Engaged(t)
        PROVE  lease'.token = t /\ timer'[t] < lease'.left
    <2>1. Refreshing(t)
      BY <1>3 DEF Refreshing, Engaged, Timely
    <2>2. timer[t] > 0 /\ timer[t] \in Nat
      BY <1>1, <2>1, ServiceAssumption DEF Due, TypeOK
    <2>3. lease.token = t /\ timer[t] < lease.left /\ lease.left \in Nat
      BY <1>3, TTLAssumption DEF Timely, TypeOK, LeaseRow
    <2>4. lease' = [lease EXCEPT !.left = lease.left - 1] /\ timer'[t] = timer[t] - 1
      BY <2>2, <2>3 DEF Tick, Elapsed, Live
    <2>5. lease'.token = t /\ lease'.left = lease.left - 1
      BY <2>3, <2>4 DEF TypeOK, LeaseRow
    <2> QED
      BY <2>2, <2>3, <2>4, <2>5
  <1> QED
    BY <1>2, <1>3 DEF Tick, Timely, Engaged, request

\* Every step of processes that keep up.
LEMMA StepTimely ==
    ASSUME ~Stalls
    PROVE  TypeOK /\ AnswersAreTrue /\ RunsWrote /\ TimelyInv /\ [Next]_vars => TimelyInv'
  <1> SUFFICES ASSUME TypeOK, AnswersAreTrue, RunsWrote, TimelyInv, [Next]_vars,
                      NEW t \in Send
               PROVE  Timely(t)'
    BY DEF TimelyInv
  <1> Timely(t)
    BY DEF TimelyInv
  <1>1. CASE UNCHANGED vars
    BY <1>1 DEF vars, request, task, disk, Timely, Engaged
  <1>2. ASSUME NEW p \in Process, Crash(p) \/ Exit(p) PROVE Timely(t)'
    BY <1>2 DEF Crash, Exit, Gone, Timely, Engaged, TypeOK, disk
  <1>3. ASSUME NEW p \in Process, Shutdown(p) PROVE Timely(t)'
    BY <1>3 DEF Shutdown, Timely, Engaged, TypeOK, request, disk
  <1>4. ASSUME NEW p \in Process, Restart(p) PROVE Timely(t)'
    BY <1>4 DEF Restart, Timely, Engaged, request, task, disk
  <1> QED
    BY <1>1, <1>2, <1>3, <1>4, ServeTimely, RunTimely, RefreshTimely, TickTimely DEF Next

\* While processes keep up, nobody is told that a lease is lost, and every run
\* whose refresher has not raised has a lease that outlasts its timer.
THEOREM TimelyHolds ==
    ASSUME ~Stalls
    PROVE  Spec => []TimelyInv
  <1>1. Init => TimelyInv
    BY DEF Init, TimelyInv, Timely, Engaged
  <1> QED
    BY <1>1, StepTimely, TurnTypeCorrect, AnswersHold, RunsWroteHolds, PTL DEF Spec

\* While processes keep up, a run has its lease until its end, however long it
\* streams, whatever crashes and whichever statement raises, but for that of its
\* own refresher.
THEOREM RunHoldsLeaseHolds ==
    ASSUME ~Stalls
    PROVE  Spec => []RunHoldsLease
  <1>1. TypeOK /\ TimelyInv => RunHoldsLease
    BY TimelyHolder DEF TimelyInv, RunHoldsLease, Working, Engaged
  <1> QED
    BY <1>1, TimelyHolds, TurnTypeCorrect, PTL

\* So, of all processes together, a second run starts only next to one whose
\* refresher has raised and whose lease has run out.
THEOREM AtMostOneRunHolds ==
    ASSUME ~Stalls
    PROVE  Spec => []AtMostOneRun
  <1>1. RunHoldsLease => AtMostOneRun
    BY DEF RunHoldsLease, AtMostOneRun, Holds
  <1> QED
    BY <1>1, RunHoldsLeaseHolds, PTL

-----------------------------------------------------------------------------
(* The hook of a process is one variable that every run there writes.       *)

\* A run streams from StartRun until its process has its end, or loses it.
LEMMA StreamingStep ==
    ASSUME TypeOK, [Next]_vars, NEW s \in Send, run'[s] = "streaming"
    PROVE  \/ StartRun(s)
           \/ run[s] = "streaming" /\ hook'[HomeOf[s]] = hook[HomeOf[s]]
           \/ run[s] = "streaming" /\ \E q \in Send \ {s} : StartRun(q)
  <1> HomeOf[s] \in Process
    BY ServiceAssumption
  <1>1. CASE UNCHANGED vars
    BY <1>1 DEF vars, task
  <1>2. ASSUME NEW q \in Send, Serve(q) \/ Refresh(q)
        PROVE  run[s] = "streaming" /\ UNCHANGED hook
    BY <1>2 DEF Serve, Receive, Acquire, Recheck, Record, Withdraw, Refresh, TypeOK, task
  <1>3. ASSUME NEW q \in Send, Work(q), ~StartRun(q)
        PROVE  run[s] = "streaming" /\ UNCHANGED hook
    BY <1>3 DEF Work, EndStream, FailStream, Complete, Fail, Cancelled, End, TypeOK
  <1>4. ASSUME NEW q \in Send, Raises(q)
        PROVE  run[s] = "streaming" /\ UNCHANGED hook
    BY <1>4 DEF Raises, RequestRaises, StoreError, RefreshRaises, TypeOK, task
  <1>5. ASSUME NEW q \in Send, q # s, StartRun(q) PROVE run[s] = "streaming"
    BY <1>5 DEF StartRun, TypeOK
  <1>6. ASSUME NEW p \in Process, Gone(p)
        PROVE  run[s] = "streaming" /\ hook'[HomeOf[s]] = hook[HomeOf[s]]
    BY <1>6 DEF Gone, AtHome, TypeOK
  <1>7. ASSUME NEW p \in Process, Shutdown(p) \/ Restart(p)
        PROVE  run[s] = "streaming" /\ UNCHANGED hook
    BY <1>7 DEF Shutdown, Restart, TypeOK, task
  <1>8. CASE Tick
    BY <1>8 DEF Tick
  <1> QED
    BY <1>1, <1>2, <1>3, <1>4, <1>5, <1>6, <1>7, <1>8 DEF Next, Crash, Exit

\* A run that has lost its refresher never gets it back.
LEMMA UnkeptStays ==
    ASSUME [Next]_vars
    PROVE  unkept \subseteq unkept'
  BY DEF Next, Serve, Receive, Acquire, Recheck, Record, Withdraw, Work, StartRun, EndStream,
         FailStream, Complete, Fail, Cancelled, End, Refresh, Raises, RequestRaises, StoreError,
         RefreshRaises, Crash, Shutdown, Exit, Restart, Gone, Tick, vars, task

\* While processes keep up, the hook of a process names the turn that streams
\* there with its refresher: no second run of the session writes it before the
\* first has ended.
THEOREM HookHolds ==
    ASSUME ~Stalls
    PROVE  Spec => []HookNamesTheTurn
  <1>1. Init => HookNamesTheTurn
    BY DEF Init, HookNamesTheTurn
  <1>2. TypeOK /\ TimelyInv /\ HookNamesTheTurn /\ [Next]_vars => HookNamesTheTurn'
    <2> SUFFICES ASSUME TypeOK, TimelyInv, HookNamesTheTurn, [Next]_vars,
                        NEW s \in Send, run'[s] = "streaming", s \notin unkept'
                 PROVE  hook'[HomeOf[s]] = s
      BY DEF HookNamesTheTurn
    <2>1. s \notin unkept
      BY UnkeptStays
    <2>2. CASE StartRun(s)
      <3>1. HomeOf[s] \in Process
        BY ServiceAssumption
      <3> QED
        BY <2>2, <3>1 DEF StartRun, TypeOK
    <2>3. ASSUME run[s] = "streaming", NEW q \in Send \ {s}, StartRun(q) PROVE FALSE
      <3>1. Timely(s) /\ Timely(q) /\ Engaged(s) /\ run[q] = "created"
        BY <2>1, <2>3 DEF TimelyInv, Engaged, StartRun
      <3> QED
        BY <3>1 DEF Timely
    <2> QED
      BY <2>1, <2>2, <2>3, StreamingStep DEF HookNamesTheTurn
  <1> QED
    BY <1>1, <1>2, TimelyHolds, TurnTypeCorrect, PTL DEF Spec

\* While processes keep up and no refresh raises, what turns.py says of a lease
\* taken over is so: no run stores its answer next to a new owner.
THEOREM NoAnswerNextHolds ==
    ASSUME ~Stalls
    PROVE  Spec /\ [](unkept = {}) => NoAnswerNextToNewOwner
  <1> DEFINE Alone == \A s \in answers' \ answers : \A q \in Send \ {s} : ~Holds(q)
  <1>1. ASSUME NEW s \in Send, EndStream(s), RunHoldsLease, unkept = {} PROVE Alone
    BY <1>1 DEF EndStream, AnswersWith, RunHoldsLease, Working, Holds
  <1>2. [Next]_vars => UNCHANGED answers \/ \E s \in Send : EndStream(s)
    BY DEF Next, Serve, Receive, Acquire, Recheck, Record, Withdraw, Work, StartRun,
           FailStream, Complete, Fail, Cancelled, End, Raises, RequestRaises, StoreError,
           RefreshRaises, Refresh, Crash, Shutdown, Exit, Restart, Gone, Tick, vars, disk
  <1>3. RunHoldsLease /\ unkept = {} /\ [Next]_vars => [Alone]_vars
    BY <1>1, <1>2
  <1> QED
    BY <1>3, RunHoldsLeaseHolds, PTL DEF Spec, NoAnswerNextToNewOwner
=============================================================================
