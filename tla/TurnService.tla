---------------------------- MODULE TurnService ----------------------------
(***************************************************************************)
(* api/turns.py and api/sessions.py: how the messages of one session       *)
(* become turns.  Processes that share the database file each run one      *)
(* event loop.  start_turn checks for a resend, takes the lease, stores    *)
(* the message with its turn row, and starts a background task, _run,      *)
(* which streams the agents and records how the turn ended, while          *)
(* _keep_lease refreshes the lease on a timer.                             *)
(*                                                                         *)
(* Between two awaits a coroutine has its event loop to itself, but not    *)
(* the database: what it does there is one step per statement, between     *)
(* which other processes act and the process may die.  A Send stands for   *)
(* one call of start_turn and for the lease token, the message row, the    *)
(* turn row and the task that come of it.                                  *)
(***************************************************************************)
EXTENDS Leases

CONSTANTS
    Process,        \* the processes that serve the session
    HomeOf,         \* the process each send arrives at
    MessageOf,      \* its client_message_id; a send without one has its own
    RefreshEvery,   \* refresh_every, in ticks
    Stalls,         \* whether a process may sleep past what it has to do
    MaxOutages,     \* bound: crashes and shutdowns
    MaxErrors       \* bound: database statements that raise

ASSUME ServiceAssumption ==
    /\ HomeOf \in [Send -> Process]
    /\ RefreshEvery \in Nat \ {0} /\ RefreshEvery < TTL
    /\ Stalls \in BOOLEAN
    /\ MaxOutages \in Nat /\ MaxErrors \in Nat

VARIABLES
    call,      \* where start_turn stands, or what it answered
    run,       \* where _run stands
    stop,      \* whether the task was cancelled, and _TurnState.lease_lost
    timer,     \* ticks until _keep_lease wakes up
    unkept,    \* the turns whose _keep_lease raised: nobody refreshes their lease
    hook,      \* per process: the turn the runtime's on_sub_run hook names
    turn,      \* the turns table; the user's message is stored with the row
    answers,   \* the turns whose assistant message is stored
    mode,      \* per process: serving, closing (after shutdown) or down
    outages, errors

request == <<call>>
task    == <<run, stop, timer, unkept, hook>>
disk    == <<lease, turn, answers>>
world   == <<mode, outages, errors>>
vars    == <<request, task, disk, world>>

CallState == {"new", "checked", "refused", "leased",
              "started", "duplicate", "conflict", "rejected", "lost"}

\* "orphaned": _run died before its try, and its refresher lives on.
RunState == {"none", "created", "streaming", "answered", "failing", "ending",
             "over", "orphaned", "dead"}

StopState == {"no", "cancelled", "lease_lost"}

TurnStatus == {"none", "running", "completed", "failed"}

Init ==
    /\ lease = NoRow
    /\ call = [s \in Send |-> "new"]
    /\ run = [s \in Send |-> "none"]
    /\ stop = [s \in Send |-> "no"]
    /\ timer = [s \in Send |-> 0]
    /\ unkept = {}
    /\ hook = [p \in Process |-> NoSend]
    /\ turn = [s \in Send |-> "none"]
    /\ answers = {}
    /\ mode = [p \in Process |-> "serving"]
    /\ outages = 0 /\ errors = 0

-----------------------------------------------------------------------------
(* A definition with an underscore is a mutant of the next one.             *)

\* s is between two awaits of its coroutine: the loop of its process is taken.
InSection(s) ==
    \/ call[s] \in {"checked", "refused", "leased"}
    \/ run[s] \in {"answered", "failing", "ending"}

LoopFree_Always(p) == mode[p] # "down"

LoopFree(p) == mode[p] # "down" /\ \A s \in Send : HomeOf[s] = p => ~InSection(s)

Scheduled(s) == LoopFree(HomeOf[s])

\* message_by_client_id finds a row.
Stored(s) == \E q \in Send : MessageOf[q] = MessageOf[s] /\ turn[q] # "none"

Refreshing_NotCancelled(s) ==
    /\ run[s] \in {"streaming", "answered", "failing", "ending", "over", "orphaned"}
    /\ stop[s] # "lease_lost" /\ s \notin unkept

\* The task _keep_lease of s is alive: until finally, or for ever after an orphan.
Refreshing(s) ==
    /\ run[s] \in {"streaming", "answered", "failing", "ending", "orphaned"}
    /\ stop[s] # "lease_lost" /\ s \notin unkept

\* finish_turn: UPDATE ... WHERE status = 'running'.
Finished(s, status) == [turn EXCEPT ![s] = IF @ = "running" THEN status ELSE @]

-----------------------------------------------------------------------------
(* start_turn.                                                              *)

Answer(s, state) == call' = [call EXCEPT ![s] = state]

\* The first idempotency check.
Receive(s) ==
    /\ call[s] = "new" /\ mode[HomeOf[s]] = "serving" /\ Scheduled(s)
    /\ Answer(s, IF Stored(s) THEN "duplicate" ELSE "checked")
    /\ UNCHANGED <<task, disk, world>>

Acquire(s) ==
    /\ call[s] = "checked"
    /\ IF CanAcquire
       THEN lease' = Granted(s) /\ Answer(s, "leased")
       ELSE UNCHANGED lease /\ Answer(s, "refused")
    /\ UNCHANGED <<task, turn, answers, world>>

\* LeaseHeld: the resend may race its own original.
Recheck(s) ==
    /\ call[s] = "refused"
    /\ Answer(s, IF Stored(s) THEN "duplicate" ELSE "conflict")
    /\ UNCHANGED <<task, disk, world>>

UniqueMessage_Unchecked(s) == TRUE

\* UNIQUE (session_id, client_message_id).
UniqueMessage(s) == ~Stored(s)

\* The transaction commits: the message, its turn, its asset changes; then the
\* task is created, not yet run.
Record(s) ==
    /\ call[s] = "leased"
    /\ UniqueMessage(s)
    /\ turn' = [turn EXCEPT ![s] = "running"]
    /\ run' = [run EXCEPT ![s] = "created"]
    /\ Answer(s, "started")
    /\ UNCHANGED <<stop, timer, unkept, hook, lease, answers, world>>

Withdrawn_KeepsLease(s) == lease

Withdrawn(s) == Released(s)

\* The transaction is rolled back, and the lease released: another process has
\* stored the message since the check, or the asset changes are refused (any
\* other exception takes the same path).
Withdraw(s) ==
    /\ call[s] = "leased"
    /\ Answer(s, IF Stored(s) THEN "duplicate" ELSE "rejected")
    /\ lease' = Withdrawn(s)
    /\ UNCHANGED <<task, turn, answers, world>>

\* A statement of start_turn raises, and the call ends without an answer; for
\* one with the lease, the transaction and then the release raise.
RequestRaises(s) ==
    /\ errors < MaxErrors
    /\ call[s] \in {"checked", "refused", "leased"}
    /\ Answer(s, "lost")
    /\ errors' = errors + 1
    /\ UNCHANGED <<task, disk, mode, outages>>

-----------------------------------------------------------------------------
(* _run.                                                                    *)

\* The task's first steps, up to the first await: the refresher is created,
\* turn_started and state are published, and the runtime's hook is set.
StartRun(s) ==
    /\ run[s] = "created" /\ Scheduled(s)
    /\ run' = [run EXCEPT ![s] = "streaming"]
    /\ timer' = [timer EXCEPT ![s] = RefreshEvery]
    /\ hook' = [hook EXCEPT ![HomeOf[s]] = s]
    /\ UNCHANGED <<request, stop, unkept, disk, world>>

AnswersWith_Dropped(s) == answers

AnswersWith(s) == answers \cup {s}

\* The stream ends: add_assistant_message.  A task that was cancelled does not
\* get here: its next step raises CancelledError.
EndStream(s) ==
    /\ run[s] = "streaming" /\ stop[s] = "no" /\ Scheduled(s)
    /\ run' = [run EXCEPT ![s] = "answered"]
    /\ answers' = AnswersWith(s)
    /\ UNCHANGED <<request, stop, timer, unkept, hook, lease, turn, world>>

\* The stream, or add_assistant_message, raises.
FailStream(s) ==
    /\ run[s] = "streaming" /\ stop[s] = "no" /\ Scheduled(s)
    /\ run' = [run EXCEPT ![s] = "failing"]
    /\ UNCHANGED <<request, stop, timer, unkept, hook, disk, world>>

Complete(s) ==
    /\ run[s] = "answered"
    /\ turn' = Finished(s, "completed")
    /\ run' = [run EXCEPT ![s] = "ending"]
    /\ UNCHANGED <<request, stop, timer, unkept, hook, lease, answers, world>>

Fail(s) ==
    /\ run[s] = "failing"
    /\ turn' = Finished(s, "failed")
    /\ run' = [run EXCEPT ![s] = "ending"]
    /\ UNCHANGED <<request, stop, timer, unkept, hook, lease, answers, world>>

CancelledStatus_Dropped(s) == turn

CancelledStatus(s) == Finished(s, "failed")

\* except CancelledError: the turn failed, with lease_lost or cancelled.
Cancelled(s) ==
    /\ run[s] = "streaming" /\ stop[s] # "no" /\ Scheduled(s)
    /\ turn' = CancelledStatus(s)
    /\ run' = [run EXCEPT ![s] = "ending"]
    /\ UNCHANGED <<request, stop, timer, unkept, hook, lease, answers, world>>

\* finally: the refresher is cancelled, then the lease released unless it was lost.
End(s) ==
    /\ run[s] = "ending"
    /\ run' = [run EXCEPT ![s] = "over"]
    /\ lease' = IF stop[s] = "lease_lost" THEN lease ELSE Released(s)
    /\ UNCHANGED <<request, stop, timer, unkept, hook, turn, answers, world>>

\* A database statement of _run raises.  Before the try, no finally runs.
StoreError(s) ==
    /\ errors < MaxErrors
    /\ \/ /\ run[s] = "created" /\ Scheduled(s)
          /\ run' = [run EXCEPT ![s] = "orphaned"]
          /\ timer' = [timer EXCEPT ![s] = RefreshEvery]
       \/ /\ run[s] = "streaming" /\ stop[s] # "no" /\ Scheduled(s)
          /\ run' = [run EXCEPT ![s] = "ending"]
          /\ UNCHANGED timer
       \/ /\ run[s] \in {"answered", "failing", "ending"}
          /\ run' = [run EXCEPT ![s] = CASE run[s] = "answered" -> "failing"
                                         [] run[s] = "failing" -> "ending"
                                         [] run[s] = "ending" -> "over"]
          /\ UNCHANGED timer
    /\ errors' = errors + 1
    /\ UNCHANGED <<request, stop, unkept, hook, disk, mode, outages>>

\* _keep_lease wakes up.
Wakes(s) == Refreshing(s) /\ timer[s] = 0 /\ Scheduled(s)

\* Cancelling the task of an orphan does nothing.
Refresh(s) ==
    /\ Wakes(s)
    /\ IF Holds(s)
       THEN /\ lease' = Renewed(s)
            /\ timer' = [timer EXCEPT ![s] = RefreshEvery]
            /\ UNCHANGED stop
       ELSE /\ stop' = [stop EXCEPT ![s] = "lease_lost"]
            /\ UNCHANGED <<lease, timer>>
    /\ UNCHANGED <<request, run, unkept, hook, turn, answers, world>>

\* leases.refresh raises.  That ends _keep_lease without a word: the run is
\* neither cancelled nor told, and goes on with what is left of its lease.
RefreshRaises(s) ==
    /\ errors < MaxErrors
    /\ Wakes(s)
    /\ unkept' = unkept \cup {s}
    /\ errors' = errors + 1
    /\ UNCHANGED <<request, run, stop, timer, hook, disk, mode, outages>>

-----------------------------------------------------------------------------
(* The processes and the clock.                                             *)

AtHome(p) == {s \in Send : HomeOf[s] = p}

\* The process is gone: its calls and tasks end wherever they stand.
Gone(p) ==
    /\ call' = [s \in Send |-> IF s \in AtHome(p) /\ call[s] \in {"checked", "refused", "leased"}
                               THEN "lost" ELSE call[s]]
    /\ run' = [s \in Send |-> IF s \in AtHome(p) /\ run[s] \notin {"none", "over"}
                              THEN "dead" ELSE run[s]]
    /\ mode' = [mode EXCEPT ![p] = "down"]
    /\ hook' = [hook EXCEPT ![p] = NoSend]
    /\ UNCHANGED <<stop, timer, unkept, disk, errors>>

Crash(p) ==
    /\ mode[p] # "down" /\ outages < MaxOutages
    /\ outages' = outages + 1
    /\ Gone(p)

\* TurnService.shutdown cancels every task, once no request is being served.  A
\* task that has not taken its first step never enters _run; the others run
\* their handlers while the process waits for them.
Shutdown(p) ==
    /\ mode[p] = "serving" /\ LoopFree(p) /\ outages < MaxOutages
    /\ run' = [s \in Send |-> IF s \in AtHome(p) /\ run[s] = "created" THEN "dead" ELSE run[s]]
    /\ stop' = [s \in Send |-> IF s \in AtHome(p) /\ run[s] = "streaming" /\ stop[s] = "no"
                               THEN "cancelled" ELSE stop[s]]
    /\ mode' = [mode EXCEPT ![p] = "closing"]
    /\ outages' = outages + 1
    /\ UNCHANGED <<request, timer, unkept, hook, disk, errors>>

\* Every task has ended, and with the process what is left of it, an orphan's
\* refresher included.
Exit(p) ==
    /\ mode[p] = "closing"
    /\ \A s \in AtHome(p) : run[s] \in {"none", "over", "orphaned", "dead"}
    /\ Gone(p)
    /\ UNCHANGED outages

Restart(p) ==
    /\ mode[p] = "down"
    /\ mode' = [mode EXCEPT ![p] = "serving"]
    /\ UNCHANGED <<request, task, disk, outages, errors>>

\* s has something to do now.
Due(s) ==
    \/ InSection(s)
    \/ run[s] = "created"
    \/ run[s] = "streaming" /\ stop[s] # "no"
    \/ Refreshing(s) /\ timer[s] = 0

\* A tick of the clock.  Without stalls a process does what is due before it.
Tick ==
    /\ Live \/ \E s \in Send : timer[s] > 0
    /\ Stalls \/ \A s \in Send : ~Due(s)
    /\ lease' = Elapsed
    /\ timer' = [s \in Send |-> IF timer[s] > 0 THEN timer[s] - 1 ELSE 0]
    /\ UNCHANGED <<request, run, stop, unkept, hook, turn, answers, world>>

-----------------------------------------------------------------------------
Serve(s) == Receive(s) \/ Acquire(s) \/ Recheck(s) \/ Record(s) \/ Withdraw(s)

Work(s) ==
    \/ StartRun(s) \/ EndStream(s) \/ FailStream(s)
    \/ Complete(s) \/ Fail(s) \/ Cancelled(s) \/ End(s)

Raises(s) == RequestRaises(s) \/ StoreError(s) \/ RefreshRaises(s)

Next ==
    \/ \E s \in Send : Serve(s) \/ Work(s) \/ Refresh(s) \/ Raises(s)
    \/ \E p \in Process : Crash(p) \/ Shutdown(p) \/ Exit(p) \/ Restart(p)
    \/ Tick

Spec == Init /\ [][Next]_vars

\* The event loop runs what is ready and the clock advances.  A stream ends,
\* because the agents run under max_turns and each model call has a timeout.
Fairness ==
    /\ \A s \in Send : WF_vars(Serve(s)) /\ WF_vars(Work(s)) /\ WF_vars(Refresh(s))
    /\ WF_vars(Tick)

FairSpec == Spec /\ Fairness

-----------------------------------------------------------------------------
(* What the service promises.                                               *)

TypeOK ==
    /\ lease \in LeaseRow
    /\ call \in [Send -> CallState]
    /\ run \in [Send -> RunState]
    /\ stop \in [Send -> StopState]
    /\ timer \in [Send -> 0 .. RefreshEvery] /\ unkept \subseteq Send
    /\ hook \in [Process -> Send \cup {NoSend}]
    /\ turn \in [Send -> TurnStatus]
    /\ answers \subseteq Send
    /\ mode \in [Process -> {"serving", "closing", "down"}]
    /\ outages \in 0 .. MaxOutages /\ errors \in 0 .. MaxErrors

\* client_message_id is idempotent: however resends of a message, conflicts,
\* crashes and several processes interleave, it starts one turn.
OneTurnPerMessage ==
    \A q, s \in Send :
        turn[q] # "none" /\ turn[s] # "none" /\ MessageOf[q] = MessageOf[s] => q = s

\* What a client is told is so: a call that was answered "started" stored its
\* message, a "duplicate" has an original, and a refused one left nothing,
\* neither a row nor the lease.
AnswersAreTrue ==
    \A s \in Send :
        /\ call[s] = "started" <=> turn[s] # "none"
        /\ call[s] = "duplicate" => Stored(s)
        /\ call[s] \in {"duplicate", "conflict", "rejected"} => ~Holds(s)

\* The token: while a lease is live it changes hands only because its holder
\* gives it up, at the end of its call or its run.  A process that wakes up
\* after its lease was taken over neither deletes nor extends its successor's.
LiveLeaseIsItsHolders ==
    [][\A s \in Send : Holds(s) /\ lease' # lease =>
          \/ lease'.token = s /\ lease'.left < lease.left
          \/ lease'.token = s /\ Refreshing(s) /\ timer[s] = 0 /\ timer'[s] = RefreshEvery
          \/ call[s] = "leased" /\ call'[s] # "leased"
          \/ run[s] = "ending" /\ run'[s] # "ending"]_vars

\* A run that learned it lost its lease neither answers nor completes, whatever
\* it was doing: the refresher cannot come between the answer and finish_turn.
LeaseLostMeansFailed ==
    \A s \in Send : stop[s] = "lease_lost" => s \notin answers /\ turn[s] # "completed"

\* A turn the client sees completed has its answer stored, wherever the process
\* died and whichever statement raised.
CompletedHasAnswer == \A s \in Send : turn[s] = "completed" => s \in answers

\* _run has begun or will begin to act for the turn.
Working(s) == run[s] \in {"created", "streaming", "answered", "failing", "ending"}

\* At most one running turn per session, as long as processes keep up.  The one
\* way to a second is a refresher that raised, after which the lease runs out
\* under its run: of any two runs, one has lost its refresher and then its lease.
AtMostOneRun ==
    \A q, s \in Send : Working(q) /\ Working(s) /\ q # s =>
        \E r \in {q, s} : r \in unkept /\ ~Holds(r)

\* While processes keep up with their timers, a run whose refresher has not
\* raised has its lease until its end, however long it streams and whatever
\* becomes of the others.
RunHoldsLease == \A s \in Send : Working(s) /\ s \notin unkept => Holds(s)

\* The comment in _run: the hook always names this turn, so that a sub-agent's
\* run is published under the turn that dispatched it; except in a run that
\* went on after its refresher raised, next to which another may start.
HookNamesTheTurn ==
    \A s \in Send : run[s] = "streaming" /\ s \notin unkept => hook[HomeOf[s]] = s

\* What turns.py and README.md say of a lease taken over: the old run is not
\* allowed to keep writing next to the new owner.
NoAnswerNextToNewOwner ==
    [][\A s \in answers' \ answers : \A q \in Send \ {s} : ~Holds(q)]_vars

\* None held forever: a lease ends, with its call or its run or, if the process
\* died or the release raised, by itself.  The exception is the lease of a run that died
\* before its try: its refresher keeps it as long as the process lives.
LeaseEnds == \A s \in Send : Holds(s) ~> ~Holds(s) \/ run[s] = "orphaned"

\* A turn's row says how it ended, unless its process went down, or its run has
\* ended because a statement raised before the try or in a handler.
TurnEnds ==
    \A s \in Send : turn[s] = "running" ~>
        \/ turn[s] # "running" \/ run[s] = "dead"
        \/ errors > 0 /\ run[s] \in {"over", "orphaned"}

\* What sessions.py and README.md promise: if the run dies, the turn row says
\* how it ended.
EveryTurnEnds == \A s \in Send : turn[s] = "running" ~> turn[s] # "running"
=============================================================================
