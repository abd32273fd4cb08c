------------------------------ MODULE EventBus ------------------------------
(***************************************************************************)
(* api/events.py: the events of one session, numbered by seq, in a bounded *)
(* log and in the queues of live subscribers.  All of it is memory of the  *)
(* process: a restart begins a new life, with seq back at 0, so an event   *)
(* is known by its seq and, outside the process, by its life.              *)
(*                                                                         *)
(* subscribe is a generator: register, then replay, then drain.  What it   *)
(* does between two awaits is a step; publish holds the lock throughout.   *)
(***************************************************************************)
EXTENDS Integers, Sequences

CONSTANTS
    Reader,         \* the subscriptions there can be at a time
    NoSeq,          \* after_seq = None
    LogSize,        \* log_size
    ReplayLimit,    \* replay_limit
    MaxEvents       \* bound: events of one life

ASSUME BusAssumption ==
    /\ NoSeq \notin Nat
    /\ LogSize \in Nat \ {0}
    /\ ReplayLimit \in Nat
    /\ MaxEvents \in Nat

VARIABLES
    life,       \* how often the server was started
    thread,     \* whether publishers run on threads other than the loop's
    seq,        \* _seqs
    log,        \* _logs
    sub         \* _subscribers, and where each generator stands

bus == <<life, thread, seq, log, sub>>

Seqs == 1 .. MaxEvents

\* "registered": in the set, the log not yet read.  handed: what call_soon_threadsafe
\* has scheduled and the loop not yet put into the queue.
Subscription ==
    [phase : {"off", "registered", "replaying", "live"},
     after : 0 .. MaxEvents \cup {NoSeq}, last : 0 .. MaxEvents,
     resync : BOOLEAN, replay : Seq(Seqs), queue : Seq(Seqs), handed : Seq(Seqs)]

Off == [phase |-> "off", after |-> NoSeq, last |-> 0, resync |-> FALSE,
        replay |-> <<>>, queue |-> <<>>, handed |-> <<>>]

BusTypeOK ==
    /\ life \in Nat \ {0}
    /\ thread \in BOOLEAN
    /\ seq \in 0 .. MaxEvents
    /\ log \in Seq(Seqs) /\ Len(log) <= LogSize
    /\ sub \in [Reader -> Subscription]

BusInit ==
    /\ life = 1
    /\ thread \in BOOLEAN
    /\ seq = 0
    /\ log = <<>>
    /\ sub = [r \in Reader |-> Off]

-----------------------------------------------------------------------------
(* A definition with an underscore is a mutant of the next one.             *)

Kept_All(events) == events

\* deque(maxlen=log_size) drops from the left.
Kept(events) ==
    IF Len(events) > LogSize THEN SubSeq(events, Len(events) - LogSize + 1, Len(events))
                             ELSE events

Listening_AfterReplay(r) == sub[r].phase = "live"

Listening(r) == sub[r].phase # "off"

\* _enqueue: at once from the loop, through call_soon_threadsafe from elsewhere.
Enqueued(s, n) ==
    IF thread THEN [s EXCEPT !.handed = Append(@, n)]
              ELSE [s EXCEPT !.queue = Append(@, n)]

Publish ==
    /\ seq < MaxEvents
    /\ seq' = seq + 1
    /\ log' = Kept(Append(log, seq + 1))
    /\ sub' = [r \in Reader |-> IF Listening(r) THEN Enqueued(sub[r], seq + 1) ELSE sub[r]]
    /\ UNCHANGED <<life, thread>>

\* The loop runs what a thread handed over, in the order it was handed.
HandOver(r) ==
    /\ sub[r].handed # <<>>
    /\ sub' = [sub EXCEPT ![r].queue = Append(@, Head(sub[r].handed)),
                          ![r].handed = Tail(@)]
    /\ UNCHANGED <<life, thread, seq, log>>

-----------------------------------------------------------------------------
(* subscribe.                                                               *)

Registered(after) ==
    [phase |-> "registered", after |-> after, last |-> IF after = NoSeq THEN 0 ELSE after,
     resync |-> FALSE, replay |-> <<>>, queue |-> <<>>, handed |-> <<>>]

\* read_log: everything newer than after, or the tail.  The log is in the order
\* of seq, so either is what follows the events it skips.
Skipped(after) ==
    IF after = NoSeq
    THEN IF Len(log) > ReplayLimit THEN Len(log) - ReplayLimit ELSE 0
    ELSE CHOOSE k \in 0 .. Len(log) : \A i \in DOMAIN log : log[i] > after <=> i > k

Replay(after) == SubSeq(log, Skipped(after) + 1, Len(log))

Trimmed_NotTold(after, replay) == FALSE

\* The log has dropped some of what the subscriber asked for.
Trimmed(after, replay) == after # NoSeq /\ replay # <<>> /\ Head(replay) > after + 1

ReadLog(r) ==
    /\ sub[r].phase = "registered"
    /\ LET replay == Replay(sub[r].after) IN
       sub' = [sub EXCEPT ![r].phase = "replaying", ![r].replay = replay,
                          ![r].resync = Trimmed(sub[r].after, replay)]
    /\ UNCHANGED <<life, thread, seq, log>>

\* The generator yields resync.
YieldResync(r) ==
    /\ sub[r].phase = "replaying" /\ sub[r].resync
    /\ sub' = [sub EXCEPT ![r].resync = FALSE]
    /\ UNCHANGED <<life, thread, seq, log>>

\* It yields event n of the replay, or of the queue.
Yield(r, n) ==
    /\ n > sub[r].last
    /\ \/ /\ sub[r].phase = "replaying" /\ ~sub[r].resync
          /\ sub[r].replay # <<>> /\ n = Head(sub[r].replay)
          /\ sub' = [sub EXCEPT ![r].replay = Tail(@), ![r].last = n]
       \/ /\ sub[r].phase = "live"
          /\ sub[r].queue # <<>> /\ n = Head(sub[r].queue)
          /\ sub' = [sub EXCEPT ![r].queue = Tail(@), ![r].last = n]
    /\ UNCHANGED <<life, thread, seq, log>>

GoLive(r) ==
    /\ sub[r].phase = "replaying" /\ ~sub[r].resync /\ sub[r].replay = <<>>
    /\ sub' = [sub EXCEPT ![r].phase = "live"]
    /\ UNCHANGED <<life, thread, seq, log>>

\* The second copy of an event of the replay.
SkipCopy(r) ==
    /\ sub[r].phase = "live"
    /\ sub[r].queue # <<>> /\ Head(sub[r].queue) <= sub[r].last
    /\ sub' = [sub EXCEPT ![r].queue = Tail(@)]
    /\ UNCHANGED <<life, thread, seq, log>>

\* What the server does by itself for a subscription.
Serve(r) == HandOver(r) \/ ReadLog(r) \/ GoLive(r) \/ SkipCopy(r)

RestartBus ==
    /\ life' = life + 1
    /\ seq' = 0
    /\ log' = <<>>
    /\ sub' = [r \in Reader |-> Off]
    /\ UNCHANGED thread
=============================================================================
