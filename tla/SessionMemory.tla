---------------------------- MODULE SessionMemory ----------------------------
(***************************************************************************)
(* The stored conversation of one agent: memory/session_memory.py, with    *)
(* find_cut of compaction.py and repair_history of items.py.  Runs read    *)
(* and append; before a run the old part may be replaced by a summary that *)
(* is awaited between reading the rows and replacing them.  Two runs use   *)
(* the rows at once when a lease lapses (Leases) or a dispatch outlives    *)
(* its turn.                                                               *)
(***************************************************************************)
EXTENDS Integers, Sequences, FiniteSets

CONSTANTS
    Run,               \* runs of the agent that may use the rows at once
    Tool,              \* tools a version of the agent has, or had
    Threshold,         \* threshold_tokens, in items
    KeepRecentTurns,   \* keep_recent_user_turns
    MaxItems           \* bound: items appended

ASSUME MemoryBounds ==
    /\ Threshold \in Nat /\ KeepRecentTurns \in Nat \ {0} /\ MaxItems \in Nat

VARIABLES
    rows,      \* memory_items, ordered by seq
    run,       \* per run: where it is, and what it holds over its awaits
    appended,  \* items appended so far; an item's number is its identity
    said,      \* history: the messages of the user and replies not taken back
    undercut   \* history: rows were removed while their summary was awaited

memoryVars == <<rows, run, appended, said, undercut>>

\* covers (history): the messages an item stands for, itself or summarised.
Row(kind, call, tool, covers) ==
    [seq |-> 0, kind |-> kind, call |-> call, tool |-> tool, covers |-> covers]

-----------------------------------------------------------------------------
(* repair_history: a view of the rows.                                      *)

CallsIn(items, kind) == {items[i].call : i \in {j \in DOMAIN items : items[j].kind = kind}}

Folded_RetiredOnly(items, known) ==
    {items[i].call : i \in {j \in DOMAIN items :
        items[j].kind = "call" /\ items[j].tool \notin known}}

\* Calls shown as a note: those that never returned, those of a retired tool.
Folded(items, known) ==
    {items[i].call : i \in {j \in DOMAIN items :
        /\ items[j].kind = "call"
        /\ items[j].call \notin CallsIn(items, "output") \/ items[j].tool \notin known}}

Shown(items, known) ==
    {i \in DOMAIN items :
        items[i].kind = "output" => items[i].call \in CallsIn(items, "call") \ Folded(items, known)}

\* The view, its items at the places they have among the stored ones.
Repaired(items, known) ==
    [i \in Shown(items, known) |->
        IF items[i].kind = "call" /\ items[i].call \in Folded(items, known)
        THEN [items[i] EXCEPT !.kind = "note"]
        ELSE items[i]]

-----------------------------------------------------------------------------
(* add_items, pop_item, clear_session.                                      *)

NextSeq_Count(i) == Len(rows) + i

\* COALESCE(MAX(seq), 0) + i
NextSeq(i) == i + (IF rows = <<>> THEN 0 ELSE rows[Len(rows)].seq)

\* COUNT(*) ... WHERE seq <= seq: so many of the first items.
UpTo(items, seq) ==
    CHOOSE k \in 0 .. Len(items) : \A i \in DOMAIN items : items[i].seq <= seq <=> i <= k

\* Inserted rows are read back in the order of seq.
Inserted(old, new) ==
    LET k == UpTo(old, new.seq)
    IN SubSeq(old, 1, k) \o <<new>> \o SubSeq(old, k + 1, Len(old))

AddItems(items) ==
    /\ appended + Len(items) <= MaxItems
    /\ appended' = appended + Len(items)
    /\ said' = said \cup UNION {items[i].covers : i \in DOMAIN items}
    /\ LET numbered == [i \in DOMAIN items |-> [items[i] EXCEPT !.seq = NextSeq(i)]] IN
       rows' = IF Len(items) = 2 THEN Inserted(Inserted(rows, numbered[1]), numbered[2])
               ELSE Inserted(rows, numbered[1])

\* A run awaits the summary of rows up to this one or a later one.
BeingSummarised(seq) == \E r \in Run : run[r].at = "compacting" /\ seq <= run[r].cut_seq

\* The SDK takes back what the run added last, if it is still the last item.
PopItem(r) ==
    LET top == rows[Len(rows)] IN
    /\ run[r].at = "turn" /\ rows # <<>> /\ run[r].last = top.seq /\ top.kind # "summary"
    /\ rows' = SubSeq(rows, 1, Len(rows) - 1)
    /\ said' = said \ top.covers
    /\ run' = [run EXCEPT ![r].last = 0]
    /\ undercut' = (undercut \/ BeingSummarised(top.seq))
    /\ UNCHANGED appended

ClearSession ==
    /\ rows # <<>>
    /\ rows' = <<>> /\ said' = {}
    /\ run' = [r \in Run |-> [run[r] EXCEPT !.last = 0]]
    /\ undercut' = (undercut \/ BeingSummarised(0))
    /\ UNCHANGED appended

-----------------------------------------------------------------------------
(* maybe_compact, before the run.                                           *)

UserTurns(items) == {i \in DOMAIN items : items[i].kind = "user"}

\* find_cut: the items before the user turns that are kept, if there are more
\* user turns than those; otherwise 0.
FindCut(items) ==
    LET cuts == {cut \in 1 .. Len(items) - 1 :
                    /\ cut + 1 \in UserTurns(items)
                    /\ Cardinality({i \in UserTurns(items) : i > cut}) = KeepRecentTurns
                    /\ \E i \in UserTurns(items) : i <= cut}
    IN IF cuts = {} THEN 0 ELSE CHOOSE cut \in cuts : TRUE

NotRunning == [at |-> "idle", cut |-> 0, cut_seq |-> 0, covers |-> {}, call |-> 0, last |-> 0]

\* Reading the rows; the compactor is given the repaired head.
MaybeCompact(r) ==
    LET cut == FindCut(rows)
        head == Repaired(SubSeq(rows, 1, cut), Tool)
    IN
    /\ run[r].at = "idle" /\ appended < MaxItems
    /\ run' = [run EXCEPT ![r] =
         IF Len(rows) <= Threshold \/ cut = 0
         THEN [NotRunning EXCEPT !.at = "start"]
         ELSE [NotRunning EXCEPT !.at = "compacting", !.cut = cut, !.cut_seq = rows[cut].seq,
                                 !.covers = UNION {head[i].covers : i \in DOMAIN head}]]
    /\ UNCHANGED <<rows, appended, said, undercut>>

StillThere_Unchecked(r) == TRUE

\* As many rows up to cut_seq as were summarised.
StillThere(r) == UpTo(rows, run[r].cut_seq) = run[r].cut

\* The summary came: one transaction replaces the head, unless the history
\* changed.
Compact(r) ==
    LET tail == SubSeq(rows, UpTo(rows, run[r].cut_seq) + 1, Len(rows))
        summary == [Row("summary", 0, "none", run[r].covers) EXCEPT !.seq = run[r].cut_seq]
    IN
    /\ run[r].at = "compacting"
    /\ rows' = IF StillThere(r) THEN <<summary>> \o tail ELSE rows
    /\ run' = [run EXCEPT ![r] = [NotRunning EXCEPT !.at = "start"]]
    /\ UNCHANGED <<appended, said, undercut>>

\* The compactor raised, or answered nothing: the run goes ahead.
CompactionFails(r) ==
    /\ run[r].at = "compacting"
    /\ run' = [run EXCEPT ![r] = [NotRunning EXCEPT !.at = "start"]]
    /\ UNCHANGED <<rows, appended, said, undercut>>

-----------------------------------------------------------------------------
(* The run appends its input, its tool calls with their outputs, and its   *)
(* reply; a crash leaves what is stored.                                    *)

Appends(r, items, at, call) ==
    /\ AddItems(items)
    /\ run' = [run EXCEPT ![r] = [NotRunning EXCEPT
                  !.at = at, !.call = call,
                  !.last = IF at = "turn" THEN NextSeq(Len(items)) ELSE 0]]
    /\ UNCHANGED undercut

Input(r) ==
    /\ run[r].at = "start"
    /\ Appends(r, <<Row("user", 0, "none", {appended + 1})>>, "turn", 0)

CallTool(r) ==
    \E tool \in Tool :
        LET call == Row("call", appended + 1, tool, {})
            output == Row("output", appended + 1, tool, {})
        IN
        /\ run[r].at = "turn" /\ run[r].call = 0
        /\ Appends(r, <<call, output>>, "turn", 0) \/ Appends(r, <<call>>, "turn", appended + 1)

ToolReturns(r) ==
    /\ run[r].at = "turn" /\ run[r].call # 0
    /\ Appends(r, <<Row("output", run[r].call, "none", {})>>, "turn", 0)

Reply(r) ==
    /\ run[r].at = "turn" /\ run[r].call = 0
    /\ Appends(r, <<Row("reply", 0, "none", {appended + 1})>>, "idle", 0)

RunDies(r) ==
    /\ run[r].at # "idle"
    /\ run' = [run EXCEPT ![r] = NotRunning]
    /\ UNCHANGED <<rows, appended, said, undercut>>

-----------------------------------------------------------------------------
MemoryInit ==
    /\ rows = <<>> /\ run = [r \in Run |-> NotRunning]
    /\ appended = 0 /\ said = {} /\ undercut = FALSE

MemoryNext ==
    \/ ClearSession
    \/ \E r \in Run :
          \/ MaybeCompact(r) \/ Compact(r) \/ CompactionFails(r)
          \/ Input(r) \/ CallTool(r) \/ ToolReturns(r) \/ Reply(r) \/ PopItem(r)
          \/ RunDies(r)

MemorySpec == MemoryInit /\ [][MemoryNext]_memoryVars

-----------------------------------------------------------------------------
MemoryTypeOK ==
    /\ \A i, j \in DOMAIN rows : i < j => rows[i].seq < rows[j].seq
    /\ \A i \in DOMAIN rows :
          rows[i].kind \in {"user", "call", "output", "reply", "summary"}
    /\ \A r \in Run : run[r].at \in {"idle", "compacting", "start", "turn"}
    /\ appended \in 0 .. MaxItems

\* Whatever crashed, was taken back, summarised or interleaved, what the next
\* run is given holds no call without its output after it, no output without
\* its call before it, and no call of a tool the agent has not.
ReplayIsWellFormed ==
    \A known \in SUBSET Tool :
        LET view == Repaired(rows, known) IN
        \A i \in DOMAIN view :
            /\ view[i].kind = "call" =>
                  /\ view[i].tool \in known
                  /\ \E j \in DOMAIN view :
                        j > i /\ view[j].kind = "output" /\ view[j].call = view[i].call
            /\ view[i].kind = "output" =>
                  \E j \in DOMAIN view :
                      j < i /\ view[j].kind = "call" /\ view[j].call = view[i].call

\* Every message of the user and every reply is in the history exactly once, as
\* itself or in a summary, in the order they were said, however many runs
\* appended, took back and compacted while a summary was awaited.  (If the rows
\* to be summarised are removed meanwhile, new ones may get their numbers, and
\* the summary is stored over those.)
HistoryIsWhole ==
    ~undercut =>
        /\ said = UNION {rows[i].covers : i \in DOMAIN rows}
        /\ \A i, j \in DOMAIN rows : i < j =>
              \A a \in rows[i].covers, b \in rows[j].covers : a < b
=============================================================================
