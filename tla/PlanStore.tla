------------------------------ MODULE PlanStore ------------------------------
(***************************************************************************)
(* plan/store.py: the plan as one row of a SQLite file that several        *)
(* processes open, each with its own connection and its own lock.  A write *)
(* (_mutate) reads the row, compares the caller's expected_revision,       *)
(* changes its copy, and UPDATEs the row where the revision is still the   *)
(* one it read.  Between the read and the UPDATE another process may       *)
(* write; within a process the lock forbids it.  Agents keep the plan they *)
(* last read and decide their next write on it, possibly much later.       *)
(*                                                                         *)
(* The variable doc is the row.  The module extends Plan, so the           *)
(* refinement mapping is the identity: the row goes through the steps of   *)
(* PlanSpec, the plan changed by whole operations.                         *)
(***************************************************************************)
EXTENDS Plan

CONSTANTS
    Process,   \* the processes that opened the file (API server, MCP server)
    Agent,     \* the callers: orchestrators, planners and executors
    Idle       \* a process that is in no _mutate

VARIABLES
    txn,       \* per process: the _mutate between its SELECT and its UPDATE
    seen       \* per agent: the plan it last read

vars == <<doc, txn, seen>>

\* read_revision and the changed copy, as _mutate holds them.  decided is a
\* history field: the plan the agent decided on, if it passed that plan's
\* revision as expected_revision.
Transaction ==
    [agent : Agent, read_revision : Nat, after : Document, decided : SUBSET Document]

ASSUME IdleAssumption == Idle \notin Transaction

Init ==
    /\ PlanInit
    /\ txn = [p \in Process |-> Idle]
    /\ seen = [a \in Agent |-> NewPlan]

\* get_plan and latest_for_chat: a tool result, a turn context, an HTTP snapshot.
GetPlan(a) ==
    /\ seen' = [seen EXCEPT ![a] = doc]
    /\ UNCHANGED <<doc, txn>>

-----------------------------------------------------------------------------
(* _mutate, first half: under the lock of process p, read the row, refuse a *)
(* stale expected_revision, and apply the operation to the copy read.       *)

RevisionExpected_Ignored(a, pinned) == TRUE

RevisionExpected(a, pinned) == pinned => seen[a].revision = doc.revision

Mutate(p, a, pinned, after) ==
    /\ Writable
    /\ txn[p] = Idle
    /\ RevisionExpected(a, pinned)
    /\ txn' = [txn EXCEPT ![p] = [agent |-> a, read_revision |-> doc.revision, after |-> after,
                                  decided |-> IF pinned THEN {seen[a]} ELSE {}]]
    /\ UNCHANGED <<doc, seen>>

\* write_stage_contract without a stage id.
BeginAuthor(p, a, pinned, c, o) ==
    /\ Len(doc.stages) < MaxStages
    /\ Mutate(p, a, pinned, Authored(doc, c, o))

\* write_stage_contract of a stage.
BeginRewrite(p, a, pinned, s, c, o) ==
    /\ CanReauthor(doc, s)
    /\ Mutate(p, a, pinned, Reauthored(doc, s, c, o))

\* attach_runtime.
BeginAttach(p, a, pinned, s, refs) ==
    /\ CanAttach(doc, s)
    /\ Mutate(p, a, pinned, Attached(doc, s, refs))

\* update_stage_state.
BeginUpdate(p, a, pinned, s, target, confirmed, kind, asked) ==
    /\ CheckTransition(doc.stages[s], target, confirmed, kind)
    /\ Mutate(p, a, pinned, Updated(doc, s, target, confirmed, kind, asked))

\* ask_user and clear_questions take no expected_revision.
BeginAsk(p, a, asked) == Mutate(p, a, FALSE, Asked(doc, asked))

BeginClear(p, a) == Mutate(p, a, FALSE, Cleared(doc))

-----------------------------------------------------------------------------
(* _mutate, second half: the conditional UPDATE.                            *)

RowStillRead_Unconditional(p) == TRUE

RowStillRead(p) == doc.revision = txn[p].read_revision

\* rowcount is 1: the row is replaced and the caller gets the new plan.
Commit(p) ==
    /\ txn[p] # Idle
    /\ RowStillRead(p)
    /\ doc' = txn[p].after
    /\ seen' = [seen EXCEPT ![txn[p].agent] = txn[p].after]
    /\ txn' = [txn EXCEPT ![p] = Idle]

\* rowcount is 0: another process wrote since, the caller gets revision_conflict.
RevisionConflict(p) ==
    /\ txn[p] # Idle
    /\ ~RowStillRead(p)
    /\ txn' = [txn EXCEPT ![p] = Idle]
    /\ UNCHANGED <<doc, seen>>

\* The process dies in between, or SQLite gives up on the file's lock: the
\* UPDATE did not happen.
Abort(p) ==
    /\ txn[p] # Idle
    /\ txn' = [txn EXCEPT ![p] = Idle]
    /\ UNCHANGED <<doc, seen>>

Write(p, a, pinned) ==
    \/ \E c \in Contract, o \in Orders(doc) : BeginAuthor(p, a, pinned, c, o)
    \/ \E s \in StageIds(doc), c \in Contract : \E o \in Orders(doc) \cup {doc.stages[s].order} :
          BeginRewrite(p, a, pinned, s, c, o)
    \/ \E s \in StageIds(doc), refs \in SUBSET Ref : BeginAttach(p, a, pinned, s, refs)
    \/ \E s \in StageIds(doc), target \in StageState, confirmed \in BOOLEAN,
          kind \in ReviewKind \cup {NoKind}, asked \in SUBSET Question :
          BeginUpdate(p, a, pinned, s, target, confirmed, kind, asked)

Next ==
    \/ \E a \in Agent : GetPlan(a)
    \/ \E p \in Process, a \in Agent, pinned \in BOOLEAN : Write(p, a, pinned)
    \/ \E p \in Process, a \in Agent, asked \in (SUBSET Question) \ {{}} : BeginAsk(p, a, asked)
    \/ \E p \in Process, a \in Agent : BeginClear(p, a)
    \/ \E p \in Process : Commit(p) \/ RevisionConflict(p) \/ Abort(p)

Spec == Init /\ [][Next]_vars

-----------------------------------------------------------------------------
(* What the store promises.                                                 *)

StoreTypeOK ==
    /\ TypeOK
    /\ txn \in [Process -> Transaction \cup {Idle}]
    /\ seen \in [Agent -> Document]

\* Whatever processes and agents interleave, the row goes through whole
\* operations, each applied to the plan its predecessor left: no write is lost
\* and none is half of two.  Two writers that both read revision 3 do not both
\* produce revision 4.
ImplementsPlan == PlanSpec

\* A write whose caller passed expected_revision replaces exactly the plan the
\* caller decided on: a user's approval pinned to the revision that was shown
\* cannot start a contract that was rewritten since.
PinnedWriteReplacesWhatWasRead ==
    [][\A p \in Process :
          Commit(p) => \A d \in txn[p].decided : doc = d]_vars
=============================================================================
