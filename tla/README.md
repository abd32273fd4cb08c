# A TLA+ model of stagecraft-agents

stagecraft-agents is a multi-agent content platform in Python: an orchestrator
talks with the user and dispatches a router, a planner and an executor; the
work is kept as stages of a plan, each of which a user approves before it is
executed; messages become background turns under a lease; progress is streamed
as numbered events. This directory holds TLA+ modules translated from the
source under `src/src/stagecraft` (paths below are relative to it), TLC runs
over small instances, and TLAPS proofs for all instances. `PROJECT.json` maps
every definition to the lines it stands for.

## 1. Inventory

| Component | State | Operations | What is hard | What makes it correct |
|---|---|---|---|---|
| Stage machine, `plan/state_machine.py`, `plan/model.py` | a stage: state, contract, refs, review kind, questions | `check_transition` | rules spread over three operations that write the same fields | no execution without contract and approval; nothing finished empty; terminal stages frozen |
| Plan Store, `plan/store.py` | one row per plan in SQLite, with a revision | `create_plan`, `write_stage_contract`, `attach_runtime`, `update_stage_state`, `ask_user`, `clear_questions`, reads | several processes read, change and conditionally write; callers decide on old reads | no lost update; a pinned write replaces what was read |
| Leases, `api/leases.py` | one row per session: token, expiry | `acquire`, `refresh`, `release`, `holder` | takeover of a holder that is only asleep | a live lease is only its holder's to change; none held for ever |
| Turn service, `api/turns.py`, `api/sessions.py`, `db.py` | calls and tasks of an event loop; messages, turns | `start_turn`, `_run`, `_keep_lease`, `shutdown` | resends, races between processes, cancellation, crash between statements, stalls | one turn per message; one run at a time; every turn and lease ends |
| Event bus, `api/events.py` | per session: seq, bounded log, queues of subscribers | `publish`, `subscribe`, `read_log` | events published during the replay; trimmed log; restart resets seq | in order, once, no silent gap |
| Web client, `web/src/lib/stream.ts`, `use-session-live.ts` | last seq, turns, items | `applyEvent`, `reconnect` | reconnection after a restart of the server | the view equals the events published |
| HTTP and console, `api/app.py`, `console.py` | none of their own | routes | `extract_memory` checks for a running turn, then awaits | no extraction from a moving history |
| Dispatches, `agents/dispatch.py`, `orchestrator.py`, `runtime.py`, `submit.py` | the orchestrator's turn; sub-agents' conversations | `dispatch_router`, `dispatch_planner`, `dispatch_executor`, `stop_on_interrupt` | plan read before, written after an awaited sub-agent; partial failure | an interrupt ends the turn; questions are answered or still asked |
| Plan tools, registry, `tools/plan/tools.py`, `tools/registry.py` | none | `invoke`, one tool per store operation | awaited check of sources before the write | a model's mistake never raises |
| Assets, `assets/store.py` | rows: name, source, archived | `register`, `archive`, `resolve_many`, `apply_turn_changes` | name reuse after archiving; plan read outside the transaction | one active asset per name and source; archived is final |
| Session memory, `memory/session_memory.py`, `items.py`, `compaction.py` | items by seq | add, pop, clear, `maybe_compact`, `repair_history` | compaction awaits a summary while items change | no item is dropped unsummarised; calls and outputs stay paired |
| Long-term memory, `memory/long_term.py` | a revisioned profile per topic | `extract` | read, awaited rewrite, conditional write, 3 attempts | no lost rewrite |
| Graph workflow, `graph/workflow.py` | the plan in a checkpointed graph | nodes and edges, interrupts | nodes repeated after a crash | the same gate as the Plan Store's |
| Evaluation, `evals/` | results of jobs | `run_suite`, `run_case` | concurrency, retries, abort | a refused suite reports nothing as measured |
| MCP, `mcp/server.py`, `client.py` | none of their own | `send_message` waits for its turn | waiting over a subscription, with a timeout | the outcome is that turn's |
| Demo model and fake tools, `agents/demo_model.py`, `tools/fake/` | artefact ids of a process | the next call from message, last result and plan | rules that each look right lead round in a circle, or nowhere | every turn ends; an unfinished plan waits for the user |
| Retrieval, single agent, views | - | - | pure or rendering | not modelled |

Interaction. HTTP and MCP call `TurnService.start_turn`, which takes the lease,
stores message, turn and asset changes in one transaction, and starts `_run`.
`_run` streams the orchestrator, whose tools and dispatches write the Plan Store
through `_mutate` and the memories; it publishes to the event bus, which the
web client and MCP's `send_message` follow. Processes share only the SQLite
files; within a process everything but the stores' statements runs on one
event loop.

## 2. Modules

| Module | Kind | Models |
|---|---|---|
| `StageMachine` | constant operators | `check_transition` and the stage record |
| `Plan` | abstract specification | the plan, changed by one whole operation at a time |
| `PlanStore` | detailed specification | `_mutate` of several processes; implements `Plan` |
| `Leases` | operators on the lease row | `LeaseStore` |
| `TurnService` | specification | `start_turn`, `_run`, `_keep_lease`, processes and the clock |
| `EventBus` | specification of the server's part | `publish`, `subscribe`, the log and the queues |
| `WebStream` | composition with the console | the `EventSource`, `reconnect`, the panel's controls |
| `Pipeline` | composition over `Plan` | a chat: the orchestrator's rules, dispatches, sub-agents, plan and content tools, in several processes |
| `GraphWorkflow` | specification over `Plan`'s operators | the graph's nodes and edges, interrupts, nodes run again |
| `TurnEvents` | specification | the agent loop's stream, `_translate`, the sub-run hook, MCP's `send_message` |
| `SessionMemory`, `LongTermMemory`, `AssetPool` | specifications | the stores of the same names |
| `EvalChecks` | constant operators | what a case may claim, and the checks |
| `EvalSuite` | specification over `EvalChecks` | jobs, case runs, meters, judge, retry and abort |
| `MCPlan`, `MCPlanStore`, `MCTurnService`, `MCWebStream`, `MCEngines`, `MCServices` | instances for TLC | |
| `PlanProofs`, `TurnProofs`, `StreamProofs`, `PipelineProofs`, `GraphProofs`, `EnginesProofs`, `MemoryProofs`, `ServicesProofs` | theorems | |

A definition whose name contains an underscore (`ReviewPassed_OnlyForDone`) is
a mutant: the definition that follows it with a plausible bug. The run of the
property it is paired with in `PROJECT.json` fails when it takes its place.

`MCEngines` and `MCServices` each join components that share no state. A
behaviour is a behaviour of one of them, chosen in the initial state by `part`;
interleaving them would multiply states and show nothing.

### The plan: `StageMachine`, `Plan`, `PlanStore`

A stage keeps the fields the rules look at. `refs` is the set of ref ids,
`contract` an opaque value, or `NoContract`; `goal` is part of the contract;
`blocked_reason`, `notes` and `attempts` only word messages and are left out.
One history field is added: `approved`, set when a move to `doing` carries
`user_confirmed` out of a plan review. (In the code the flag is an argument the
orchestrator's model supplies; that the user really said so is outside every
check of the code, and outside the model.)

`Plan` has one variable, `doc`, and one action per closure that `plan/store.py`
passes to `_mutate`. `PlanStore` adds `txn`, what a process holds between the
SELECT and the UPDATE of `_mutate`, and `seen`, the plan each agent last read.
`Mutate` is the first half, `Commit` the UPDATE that finds the revision it
read, `RevisionConflict` the one that does not, `Abort` a death in between. The
process's lock is `txn[p] = Idle`. `PlanStore` extends `Plan` and `doc` is the
row, so the refinement mapping is the identity and `ImplementsPlan` is
`PlanSpec`.

### The turns: `Leases`, `TurnService`

One session. A `Send` is one call of `start_turn` and names the lease token it
draws, its message row, its turn row and its task: the code draws fresh random
ids for each, and a message and its turn are one transaction, so `turn[s] #
"none"` also says the message is stored. `MessageOf` gives the
`client_message_id`; a send without one behaves as one whose id nobody repeats.

What a coroutine does between two awaits is not interrupted by tasks of the same
process (`LoopFree`), but each database statement is a step of its own, so that
other processes act, time passes and crashes happen between them. `start_turn`
has no await at all: `Receive`, `Acquire`, `Recheck`, `Record`/`Withdraw` are
its statements. `_run` is `StartRun` (up to the first await), the stream, then
`EndStream` (the assistant message), `Complete` (`finish_turn`), `End` (the
`finally`), with `FailStream`/`Fail` and `Cancelled` for the two `except`
branches. `Refresh` is one wake-up of `_keep_lease`. Any database statement may
raise: in `_run` (`StoreError`), where before the `try` it leaves an orphaned
refresher; in `_keep_lease` (`RefreshRaises`), which ends it without a word, so
that the run goes on with what is left of its lease (`unkept`); in `start_turn`
(`RequestRaises`), whose caller gets no answer. (The first check of all may
raise too; that is a call never made.) A failing insert and the release after it are one step, `Withdraw`:
nothing of another process depends on which of the two comes first.

Time is kept as what is left of the lease and of each timer, so no clock grows.
`Stalls` says whether a process may oversleep: with `FALSE`, the clock waits
until everything due has been done.

### The events: `EventBus`, `WebStream`

One session, one process at a time. All of the bus is the process's memory, so
its queues and its log hold bare seqs, and only the console, which outlives the
process, needs the life (`of`) of the event it applied last. `sub[r]` is a
subscription and where its generator stands: `ReadLog` is the resumption after
the `await` of `read_log`, `Yield` and `YieldResync` one `yield`, `SkipCopy` an
event of the queue that the replay already had. `WebStream` joins a `yield` with
the frame's arrival: what a broken connection loses in flight is what the
generator had not yet yielded, and its `last` dies with it. `thread` is fixed
for a behaviour: publishers are all on the loop, as the code's are, or all on
other threads, as in the tests. (Mixed, an event put directly into the queue
would overtake one that was handed over, which `subscribe` then drops.)

The console has two copies of its position, in the connection and in the
reducer, which always move together and are one variable, `pos`. `told` is
history: a resync was shown, or the user asked to skip events, since the event
at `pos`. A reconnection is two steps, the serving of the snapshot and the
comparison, between which anything may happen; clicks may start several.

### The chat: `Pipeline`

A turn is a record with a place (`at`): the orchestrator opens it or goes on from
its last result, a call is performed, or a sub-agent is running. Each rule of
`orchestrator_step` is an operator of its own (`OpenReview`, `AfterExecutor`,
...), guarded by what the rule reads: the plan as it is now (the Turn Context is
rebuilt for each model call), the last result, and the message. A message is one
of six kinds that the keyword patterns tell apart; an answer other than a bare
approval names an audience. The tools are the calls of `tools/plan/tools.py` and
`agents/dispatch.py`; what they do to a plan is `Plan`'s own operators, so
`PlansImplementPlan` is a refinement of two instances of `Plan` (`INSTANCE Plan
WITH doc <- ...`), one for each plan of the chat, whose refs are mapped to their
kinds.

A dispatch is a step for each thing its sub-agent does between awaits, and the
plan is read again where the code reads it again. `plan_create` is two
steps, the count and the insert. An artefact is its kind and number in the
workspace of one process, and is found only there: `Found` is
`FakeWorkspace.require`. The faults are a crash, a failed or cancelled turn, a
failed sub-agent, a failing tool or search, and a lease that lapses so that a
second turn runs beside the first.

Of a stage's refs the model keeps a set: when a retry leaves several of one kind
any may be taken as the latest. Which stage is rewritten by `stage_id`, and a
direct request's assets, are left out, as the demo model uses neither.

### The graph: `GraphWorkflow`

One thread. A node is one step, from the checkpoint it reads to the one it
writes: a node that raises or dies has written nothing (`NodeFails`) and is run
again (`Rerun`), its sub-agent's work included. `thread` is what edges read.
`ask` and `await_review` leave the thread at their interrupt; `Ask`, `SendBack`
and `Approve` are its resumption. `owed` is history: the stages the user sent
back and the Planner has not rewritten.

### What serves the agents

`SessionMemory` keeps rows in order of seq; an item is its kind, its call and the
messages it stands for (`covers`, history), so that a summary is the union of
what it replaced. `Compact` is the transaction after the awaited summary.
`repair_history` is the operator `Repaired` on the rows; what the SDK appends is
external. `LongTermMemory` keeps, for content, the set of extractions that a
profile was written from. `AssetPool` has one session: a name is a
base and a suffix, so that `"x (2)"` as a wanted name and as a suffixed one are
the same. A transaction (`txn`) goes statement by statement on its own rows,
uploads first, and commits or rolls back at any point; `assets` is what others
read meanwhile. The time of archiving is the number of the transaction.

`TurnEvents` has the SDK's loop as far as the events show it (responses, calls
that run at the same time and return in any order), the queue between the loop
and `_run`, `_TurnState` (`told`), what is published, and a `send_message` that
follows: it goes from one event of its turn that it takes to the next
(`FollowCall`, `FollowEnd`), any number behind the log, and may give up between
them. `Invoke` is what the registry answers, whatever the model sent and the
function did. It is assumed, as asyncio's queue of callbacks has it, that the
turn is woken before the tools of the next response start.

`EvalChecks` holds a claim against recorded calls, plan, workspace and output; a
text is the set of its terms and ids. `EvalSuite` plays cases: `Send` is one turn
with its checks, `Checked` what `run_case` does when no turn is left, in its
order (refusal, endpoint errors, checks, judge), `Scored` the retry of an error,
`SuiteEnds` what `gather` leads to.

## 3. Runs

| Run | Instance | Shows |
|---|---|---|
| `plan` | 2 contracts, 2 refs, 1 question, 2 stages, 10 writes | the gate, results, review fields, frozen and executing stages |
| `plan_store` | 1 contract, 1 ref, 1 question, 1 stage, 4 writes, 2 processes, 2 agents | refinement of `Plan`; pinned writes |
| `turns` | 3 sends to 2 processes, ttl 3, refresh 1, stalls, 1 outage, 1 error | idempotency, true answers, the token, lost leases, answers stored |
| `turns_timely` | the same, refresh 2, no stalls, 1 outage, 1 error, fair | runs overlap only after a refresher that raised; every other run has its lease and the hook to its end; leases and turns end |
| `events` | 1 console, log of 2, replay limit 1, 4 events to a life, 1 restart, 2 breaks, 1 click, failing snapshots, fair | nothing missed within a life; drained means current; catching up |
| `engines` | chat: 2 processes, 4 messages, 2 plans, 1 fault; graph: 2 items, 2 stages, 2 attempts, 2 starts, 2 answers or revisions, 1 failed node | plans change as `Plan` does; done means built; no plan stranded; nothing started unseen; a stage sent back is rewritten; turns and invocations end |
| `services` | memory: 2 runs, 6 items, threshold 2, 1 turn kept; profile: 4 extractions, 2 attempts; assets: 3 sources, 3 wanted names, one of them an id, 4 rows, 3 transactions; events: 3 responses, 2 calls, 1 other turn; evaluation: 2 jobs, 9 behaviours of a turn, 1 or 2 at a time | replay well formed, history whole; no extraction lost; names keep their asset; a turn told whole; a report about every job |
| `plan_confirmation` | violation | a reviewed stage is omitted unconfirmed |
| `plan_answers` | violation | a stage with open questions is started |
| `turn_stalled` | violation | an answer stored next to the session's new owner |
| `turn_crash` | violation | the row of a crashed run stays running |
| `events_restart` | violation | a console resumes with a gap after a restart |

Bounds. Rules of the plan concern one stage, and `ask_user` orders stages, so two
stages meet every case; a stage goes through author, review, doing, block,
doing, result review and done in at most nine writes, so ten leave room for a
rewrite. In the store two processes suffice for a conflict, and the fourth write
comes after every order of two concurrent ones. The three sends are a message,
its resend to the other process, and another message to the first process: the
smallest set with a race of resends, a conflict across processes, and a takeover
within one process. The ttl exceeds the refresh interval, as 60 s does 20 s;
with ttl 3 a stalled run is taken over, and the successor's lease in turn can
run out. One outage and one error occur at any point of any run. Subscriptions do not
influence each other, since `publish` writes to each under the lock, so one
console suffices; with four events and a log of two, events are trimmed before,
during and after a replay, and the second life can pass the console's position.
In the chat, four messages are a request, an answer, an approval and one more,
or two requests whose turns overlap; the fault falls anywhere. Two plans
suffice for two turns that draw the same number. The longest run of a plan in
four messages blocks, retries and takes up a stage again; `MaxStages` and
`MaxRevision`, which only the abstract plans read, are above what it reaches. In the graph, two
stages let one build on the other, and the second start meets the first's state.
Six items are two messages with a call, and a compaction of the first; four
extractions let one lose both its attempts. Four rows let a name be taken,
archived, freed and taken again. Two calls are the least that return out of
order, and a response after them uses the same message id. Deadlock is not
checked: the sends and the writes are finite, and the system then rests.

Fairness (`turns_timely`, `turn_crash`). Weak fairness of each call's and each
run's next step, each refresher and the clock: the event loop runs what is
ready. That a stream ends rests on `max_turns` of the agents
(`agents/runtime.py`) and the timeouts of the model client. Crashes, errors and
restarts are never forced.

In `events` the server's generators run, frames arrive, a broken connection is
noticed and the browser's timer and requests end, one way or the other. Breaks,
restarts, clicks and publications are never forced, and `CatchesUp` speaks of
the behaviours in which the server does not restart.

In `engines` the step of a running turn and the node of a running thread are
weakly fair: an event loop runs what is ready. Users, faults, reruns and
resumptions are never forced.

### Disagreements found

1. `plan_confirmation`: leaving a review for `omitted` takes no confirmation,
   though the docstring of `state_machine.py` and the README say it does.
2. `plan_answers`: `update_stage_state` ignores `open_questions`; `ask_user`'s
   docstring says the stage cannot be started.
3. `turn_stalled`: only the refresher looks at the lease; a run that overslept
   may store its answer before it is told. (Without a stall the same comes of a
   `leases.refresh` that raises, see below.)
4. `turn_crash`: nothing ends the rows that a dead process left running, though
   `sessions.py` and the README say the row tells how the turn ended; a resend
   of the message is answered "duplicate" for ever.
5. `events_restart`: `reconnect` recognises a restarted server by a `last_seq`
   below its own position. A server that has already published as much again is
   taken for the old one, and the console skips its first events silently.

### Premises and limits

Each of these is where a property needed a premise, or where the model showed
the code to be narrower than its comments. They are not runs of their own.

- `UnfinishedPlanAwaitsUser` and `NothingStartsUnseen` are about turns without
  faults. A turn that dies between finishing a stage and presenting the next
  leaves a plan with stages done and pending and no rule that takes it up: an
  approval is answered "nothing is waiting". The same after `clear_questions`
  when the Planner then fails: the answers are gone, and the questions too.
- Artefact ids are numbers of one process's workspace. After a restart, or in
  another process, an id of the plan is missing or names another artefact; the
  Executor then works on that one, or leaves the item out.
- No code writes a contract's `assets`: `dependents` is always empty, and
  `archive_session_assets` never refuses, contrary to the comment at
  `plan/model.py:70` and the README's section on assets.
- An asset uploaded under the name of an archived one, and archived by the same
  message, is the fresh upload, not the old asset.
- An item of the prefix that is removed while its summary is awaited, by
  `clear_session` or by `pop_item`, makes room in the prefix for new items,
  which the summary then replaces unread: `HistoryIsWhole` needs `~undercut`,
  which is history and says that this has happened. Nothing in the repository's
  own code calls `clear_session` or `pop_item`.
- In the graph a revision may name its own or a later stage as its input; a
  Planner that submits no stage for a revision makes the node raise at each
  rerun, and an Executor that submits no refs for a stage without work items
  makes it raise too; a resumption sent twice approves the next stage unseen; a
  second request started while a stage is in `doing` leaves that stage behind.
  So `InvocationsEnd` claims complete plans only for a thread's first request.
- Ids of assets are `a_0001`, `a_0002`, ... and nothing in `assets/store.py` keeps
  an upload from being named like one. The instance includes one that is. If an
  upload is named `a_0002` and the next row has that id, `resolve_many` answers
  with the first for both, and `archive` may take either, though the schema says
  that names can be used unambiguously (`assets/store.py:45`). What a name or id
  stands for is therefore claimed in `AssetsKeepTheirIdentity` only for assets
  whose name does not clash with an id (`Clashes`); the rest of it, for all.
- If `_publish_state` raises before the `try` (`api/turns.py:197`), no `finally`
  runs and `_keep_lease` refreshes the lease as long as the process lives: the
  session answers "conflict" until then, and the turn stays running, although
  `leases.py` says that no lease is held forever (`api/leases.py:1`). `LeaseEnds`
  excepts the lease of such an orphan and nothing else.
- If `leases.refresh` raises (`api/turns.py:249`), `_keep_lease` is over and
  nobody notices: `_run` is not cancelled, its lease runs out, and the next
  message starts a second run beside it, which is what the lease is for; the
  first may still answer and set the row. `AtMostOneRun`, `RunHoldsLease` and
  `HookNamesTheTurn` except this run and no other.
- A row stays running also if `finish_turn` raises in a handler; `TurnEnds`
  excepts runs that ended after a statement raised. A release that raises leaves
  the lease to run out.
- Of parallel dispatches every finished sub-run is published before the first
  `item_completed`, though the README says each comes right before its own.
- A judge that exceeds its turns raises out of `run_suite` and loses the results
  (`JudgeRaises`). A retried case keeps only the second attempt's usage. A
  refusal under a sub-agent followed by an endpoint error of the orchestrator is
  an error, tried again, before the suite aborts. An id of a plan that was
  created by a sub-agent's run that then failed counts as invented. In the scope
  `any` a sub-agent's calls come before those of the orchestrator that led to
  them.

## 4. Theorems

Every theorem is for all values of the constants under the assumptions of the
modules that declare them: the bounds are natural numbers, one attempt and one
item at least, and the values that stand for "nothing" (`NoContract`, `NoSend`,
`Idle`, `"none"`) are none of the others. So they are about any number of
stages, processes, agents, sends, consoles, runs, extractions and work items.
The theorems about processes that keep up have the hypothesis `~Stalls`, and
say so; `NoAnswerNextHolds` adds that no refresh raises; no other theorem has a
hypothesis.

`PlanProofs`. A step of the plan changes each stage by one of a few stage steps
(`StageStep`) and may append fresh ones (`Follows`): `WritesFollow` shows it
once for all six operations. Type correctness, the invariants and the action
properties are then statements about one stage. The gate is not inductive
alone: that a waiting stage has a review kind, and that a blocked or reviewed
stage was once approved, need each other, so `PlanInvariant` proves the
conjunction `PlanInv`.

Of the store, `StoreInv` says that every plan an
agent remembers has at most the row's revision and equals the row if the
revisions are equal, and that a transaction whose revision is still the row's
was computed from the row by a legal write. Hence `Commit` is a step of `Plan`
(`StoreImplementsPlan`), everything else stutters, and a pinned write replaces
what its caller read (`PinnedWritesHold`).

`TurnProofs`. With or without stalls, crashes and errors:

- One turn per message (`OneTurnHolds`): only `Record` adds a row, and it has
  looked for the message in the same transaction (`RowsKept`).
- A lost lease means a failed turn, and a completed turn has its answer
  (`LeaseLostHolds`, `CompletedHolds`). Neither is inductive; both follow from
  `RunsWrote`, which says for each place a run can stand what it has stored. Its
  main point is that a run that has answered was never told it lost its lease,
  because a section between two awaits keeps the refresher off the loop.
- True answers (`AnswersHold`): strengthened with whose token the lease row can
  have, so that a call that was refused is known not to hold it.
- The token (`LiveLeaseHolds`): `LeaseSteps` lists the five ways the row
  changes; each is the holder's own, a tick, or finds the lease expired.

When processes keep up (`~Stalls`): a run whose own refresher has not raised has
its lease from its first statement to its last (`RunHoldsLeaseHolds`), so two
runs overlap only if one of them has lost first its refresher and then its lease
(`AtMostOneRunHolds`), and the hook of a process names the turn that streams
there with its refresher (`HookHolds`). If besides no refresh raises, no answer
is stored next to a new owner (`NoAnswerNextHolds`): what `turn_stalled` shows
takes a stall or a refresh that raises. The invariant `TimelyInv` compares
timers: a call that was just given the lease, or a run that has not started, has
it in full, and a live refresher, an orphan's included, is due before what is
left of its lease runs out. It says nothing of the lease of a run without a
refresher, and this is enough: such a run ends with a release that only its own
token lets through. It needs `AnswersHold` and `RunsWroteHolds`, by which a call
that holds the lease has no run yet.

`StreamProofs`. `StreamInv` follows one console. The log is an unbroken end of
what was published (`LogIsTail`); what a subscription has in its queue and on
the way to it from other threads is an unbroken end too, and a replay reaches up
to where it starts (`Follows`); and what the console is still owed begins right
after its position, unless it was told otherwise (`Promised`, `Asks`). The
second is about the server and the third about the client, and each needs the
other: `SkipCopy` drops only what the replay delivered because the two overlap.
From it: no event of a life is missed (`NoGapHolds`), and who has drained the
subscription is up to date (`DrainedHolds`), with restarts, breaks, trimming,
publishers on threads and clicks of `skip`.

`PipelineProofs`. `ChatInv` has four parts. `PlansKept`: a stage builds on an
earlier one, its refs are of the kinds of its own items, and it has refs only if
what it builds on has. `TurnsKept`: the plan and stage that a turn has in hand
exist, its Executor's artefacts come from what the stage builds on, and it is
about to say "done" only of a stage that has everything. `RoomKept`: there is
room for the plans that running turns will still insert, of which two may have
drawn the same number. `RestKept`: types. `TurnsKept` is about plans that other
turns change meanwhile, and stays true because plans only grow (`Later`,
`LaterPlans`): hence `DoneHolds` under crashes, failures and overlapping turns.

While nothing has failed (`faults = 0`) the stronger `CalmInv` holds
(`CalmInvHolds`): one turn runs, what it does next says how the latest plan
stands (`Calm`, one case per place: `MoveReady`, `InHand`, `PlannerCalm`, ...),
between turns the plan is `AtRest`, and an approved stage was shown. From it: no
plan is left that nothing takes up (`AwaitsUserHolds`), and nothing starts that
the user has not seen (`NothingUnseenHolds`). These two properties are about such
turns, and their premise is the invariant's.

`GraphProofs`. `GraphInv` ties the thread to the plan: `review` names a stage
that waits at `await_review` and is `doing` at `execute`, and feedback is pending
only for a stage that waits, which is the one the user is owed (`ThreadKept`). It
is kept by nodes that raise and by reruns because these leave the checkpoint. It
gives `SentBackHolds`; with one lemma per node on how it moves each stage
(`StageMove`) it gives `GraphKeepsPlanHolds`: the plan's gate, results, review
fields, undisturbed execution and frozen stages, outside the Plan Store.

`MemoryProofs`. `MemoryInv` says that rows are sorted by seq, each call is one
row and its output comes after it (`WellStored`), that the rows cover every
message, in order (`WholeIn`), and that a prefix whose summary is awaited is
still the prefix that was read (`Awaited`). The last is the point: other runs add
rows behind it meanwhile, and only what `undercut` records can disturb it.
`HistoryWhole` and `ReplayWellFormed` follow, the latter from what `Shown` and
`Folded` keep of `Paired` rows. `ProfileKeeps` rests on the revisions: what an
extraction read is contained in the profile ever after and is all of it while the
revision is the same, and each failed attempt saw a revision pass.

For assets, `AssetInv` says of the committed rows and of those of an open
transaction that active ones differ in name and source, that the transaction's
rows grew out of the committed ones (`Outgrows`: nothing lost or renamed,
archiving final), and that while a message only registers, nothing is archived.
The names rest on `FreeNameIsFree`: of the numbers from 2 to the number of rows
plus 2 one is free, by the pigeonhole principle. `AssetsKeep` compares two
committed states, between which any number of statements lie; uploads may have
any name, those of ids included.

`ServicesProofs`. `EvalInv` says of a job's run that, while it is held, every
scripted turn played has met its claim, that what goes to the judge is sound
apart from the judgement (`Sound`), and that a job that is done has a result,
which is an error only after two tries. A claim of calls in order is decided by
one pass (`IsSubsequence`, stated by its trace); `SubsequenceInOrder` shows that
a pass that finds every name takes the wanted names at calls further and further
on, which is what a case declares. So `ReportHolds`.

For the events of a turn, `EventsInv` relates the log, the queue and what the turn
remembers. While the turn runs, a call has started exactly if its `tool_called`
left the queue and completed exactly if its `tool_output` did (`LogKept`); the
queue names calls in increasing order, outputs of a response before calls of the
next (`StreamKept`); a run that is held is of a dispatch not completed, and held
once (`SubRunsHeld`, `SubRunsDiffer`). That last part needs the turn to have seen
the outputs of a response before a tool of the next returns: else a run would be
told with the output of an earlier dispatch, before its own has been told to
start. Of the
log alone, starts and completions of an item alternate (`ItemsTold`) and the end
is last (`EndKept`), which outlasts the turn. `FollowerKept` says that a follower
has exactly the calls among the events it passed. One lemma per action;
`TurnToldWhole` follows. `EachService` then turns a behaviour of the services into
one of each, which gives `ServicesTypeCorrect`.

`EnginesProofs`. `PlansImplementHolds`: every step of a chat is, for each of its
first two plans, a step of `Plan` or none. Two lemmas per write: it gives the row
that `Plan`'s operator gives, and the refs' reduction to kinds (`AbstractRow`)
commutes with it, so that the rules, which read only whether there are refs,
decide the same. The invariants of both engines hold side by side
(`EnginesInvHolds`), since each leaves the other's variables alone.

Only model-checked: liveness, `LeaseEnds`, both `TurnEnds`, `InvocationsEnd` and
`CatchesUp`. It needs ENABLED, which the prover does not reach.

## 5. Not modelled

- Wording: prompts, summaries, `next_action`, messages of refusals, the rendered
  Turn Context. The ranking of references (`tools/retrieval.py`) and the check of
  a contract's sources against the index.
- Denials by role (`RoleDenied`): every call of the model is made by the role
  that may make it.
- The single agent (`agents/single.py`) and the scripted `FakeModel`: no protocol
  of their own. Of the demo model, its asset rules and its streaming.
- HTTP routes, the console and the listings: they read, or translate. MCP's
  other tools, and its client.
- The web client's folding of events into turns and items, and its views.
- Reports of evaluations and their comparison, usage, prompt fingerprints, the
  command line.

SQLite is taken to execute each statement and transaction atomically and
durably. The wall clock does not jump backwards. The Agents SDK is taken to end
a stream or raise, and to raise `CancelledError` at the next step of a cancelled
task, as the repository's tests require. LangGraph is taken to checkpoint what a
node returns, all or nothing.

## 6. Plan

To model: the reducer's folding of events, against the stream of `TurnEvents`.
