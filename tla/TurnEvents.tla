------------------------------ MODULE TurnEvents ------------------------------
(***************************************************************************)
(* What a turn tells the outside (_run and _translate of api/turns.py), and *)
(* who waits for it (send_message of mcp/server.py).  The SDK runs the      *)
(* agent loop and queues stream events; the turn takes them one by one and  *)
(* publishes; a sub-agent's run is not streamed but reported by a hook, at  *)
(* once.  The events of one session, of this turn and of others, are in the *)
(* order of their seq; that readers get them so is EventBus's.              *)
(***************************************************************************)
EXTENDS Integers, Sequences, FiniteSets

CONSTANTS
    MaxResponses,   \* bound: responses of the orchestrator's model
    MaxCalls,       \* bound: tool calls; those of one response run at the same time
    MaxOthers       \* bound: other turns of the session that publish

ASSUME TurnEventsBounds ==
    MaxResponses \in Nat \ {0} /\ MaxCalls \in Nat /\ MaxOthers \in Nat

VARIABLES
    agent,      \* the SDK's run: its calls, and how many of them have answered
    stream,     \* its queued events
    told,       \* _TurnState
    events,     \* what the bus was given
    follower    \* send_message: what it has, of the events up to seen

turnEventVars == <<agent, stream, told, events, follower>>

\* Its turn is 1; a call's item is the number of the call, a message's is 0.
Ev(type, turn, item, kind, flag) ==
    [type |-> type, turn |-> turn, item |-> item, kind |-> kind, flag |-> flag]

Queued(type, item, dispatch, interrupt) ==
    [type |-> type, item |-> item, dispatch |-> dispatch, interrupt |-> interrupt]

-----------------------------------------------------------------------------
(* ToolSpec.invoke: whatever the model sent and the function did, a result. *)

\* Only a valid call runs the function: invalid JSON, arguments the schema
\* refuses and a missing run context are results too.
Valid == {"runs", "not_json", "rejected", "no_context"}

\* It answers, or asks to stop, or refuses with its own code, or raises, or
\* answers something that is no result.
Function == {"ok", "interrupt", "refuses", "raises", "no_result"}

Invoke(valid, function) ==
    IF valid = "runs" /\ function \in {"ok", "interrupt"} THEN function ELSE "error"

\* The sub-agent of a dispatch has run when the dispatch answers, or refuses what
\* it submitted.  (One that fails reports nothing.)
SubRunEnded(valid, function) == valid = "runs" /\ function \notin {"raises", "no_result"}

-----------------------------------------------------------------------------
(* The agent loop.                                                          *)

Kinds == {"dispatch", "other"}

\* A text, streamed or not.  A model that has no ids for its texts gives them all
\* the same one, 0; so do all here.
Message == Queued("message", 0, FALSE, FALSE)

Texts == {<<>>, <<Message>>, <<Queued("delta", 0, FALSE, FALSE), Message>>}

\* A response: a text, or tool calls, or both; the events of the calls are queued
\* before they run.
Respond ==
    \E kinds \in UNION {[1 .. n -> Kinds] : n \in 0 .. MaxCalls - Len(agent.calls)},
       texts \in Texts :
        /\ agent.at = "model" /\ agent.responses < MaxResponses
        /\ kinds = <<>> => texts # <<>>
        /\ stream' = stream \o (texts \o [i \in DOMAIN kinds |->
              Queued("tool_called", Len(agent.calls) + i, kinds[i] = "dispatch", FALSE)])
        /\ agent' = [agent EXCEPT
              !.at = IF kinds = <<>> THEN "done" ELSE "tools",
              !.responses = @ + 1,
              !.calls = @ \o [i \in DOMAIN kinds |-> [kind |-> kinds[i], status |-> "running"]]]
        /\ UNCHANGED <<told, events, follower>>

\* _record_sub_run holds what the hook reports; sub_run events name the dispatch
\* they belong to.
SubRunHook_Publishes(call) ==
    /\ events' = Append(events, Ev("sub_run", 1, call, "none", FALSE))
    /\ UNCHANGED told

SubRunHook(call) ==
    /\ told' = [told EXCEPT !.sub_runs = Append(@, call)]
    /\ UNCHANGED events

\* A tool is done, in any order; the hook comes first if a sub-agent ran.  (The
\* turn, which waits for the queue, is woken before the tools of the next response
\* are started, so it has seen the outputs of the last.)
CallReturns(i) ==
    \E valid \in Valid, function \in Function :
        /\ valid # "runs" => function = "no_result"
        /\ agent.at = "tools" /\ agent.calls[i].status = "running"
        /\ \A k \in DOMAIN stream : stream[k].type # "tool_output"
        /\ agent' = [agent EXCEPT !.calls[i].status = Invoke(valid, function)]
        /\ IF agent.calls[i].kind = "dispatch" /\ SubRunEnded(valid, function)
           THEN SubRunHook(i) ELSE UNCHANGED <<told, events>>
        /\ UNCHANGED <<stream, follower>>

\* All are: their outputs are queued in order; an interrupt ends the run.
ToolsDone ==
    LET n == agent.answered
        interrupts == {i \in DOMAIN agent.calls : agent.calls[i].status = "interrupt"}
    IN
    /\ agent.at = "tools"
    /\ \A i \in DOMAIN agent.calls : agent.calls[i].status # "running"
    /\ stream' = stream \o [k \in 1 .. Len(agent.calls) - n |->
          Queued("tool_output", n + k, FALSE, n + k \in interrupts)]
    /\ agent' = [agent EXCEPT
          !.at = IF interrupts # {} THEN "done" ELSE "model",
          !.answered = Len(agent.calls),
          !.calls = [i \in DOMAIN @ |-> [kind |-> @[i].kind, status |-> "answered"]]]
    /\ UNCHANGED <<told, events, follower>>

-----------------------------------------------------------------------------
(* The turn.                                                                *)

Published(new) == events' = events \o new

State == Ev("state", 1, 0, "none", FALSE)

MessageStarted(item) ==
    IF item \in told.open THEN <<>>
    ELSE <<Ev("item_started", 1, item, "message", FALSE)>>

Delta(ev) ==
    /\ Published(MessageStarted(ev.item) \o <<Ev("item_delta", 1, ev.item, "none", FALSE)>>)
    /\ told' = [told EXCEPT !.open = @ \cup {ev.item}]

MessageOutput(ev) ==
    /\ Published(MessageStarted(ev.item)
                   \o <<Ev("item_completed", 1, ev.item, "message", FALSE)>>)
    /\ told' = [told EXCEPT !.open = @ \ {ev.item}]

ToolCalled(ev) ==
    /\ Published(<<Ev("item_started", 1, ev.item, "tool_call", FALSE)>>)
    /\ told' = [told EXCEPT !.dispatches = IF ev.dispatch THEN @ \cup {ev.item} ELSE @]

\* The sub-agents' runs come with the output of a dispatch, and a snapshot after
\* it, or after that of another tool, if it is of the plan.
ToolOutput(ev) ==
    LET completed == Ev("item_completed", 1, ev.item, "tool_call", ev.interrupt)
        subRuns == [k \in DOMAIN told.sub_runs |-> Ev("sub_run", 1, told.sub_runs[k], "none", FALSE)]
    IN
    IF ev.item \in told.dispatches
    THEN /\ Published(subRuns \o <<completed, State>>)
         /\ told' = [told EXCEPT !.interrupted = @ \/ ev.interrupt, !.sub_runs = <<>>]
    ELSE /\ \E new \in {<<completed>>, <<completed, State>>} : Published(new)
         /\ told' = [told EXCEPT !.interrupted = @ \/ ev.interrupt]

Translate ==
    LET ev == Head(stream) IN
    /\ told.running /\ stream # <<>>
    /\ stream' = Tail(stream)
    /\ \/ ev.type = "delta" /\ Delta(ev)
       \/ ev.type = "message" /\ MessageOutput(ev)
       \/ ev.type = "tool_called" /\ ToolCalled(ev)
       \/ ev.type = "tool_output" /\ ToolOutput(ev)
    /\ UNCHANGED <<agent, follower>>

TurnStarted ==
    /\ agent.at = "off"
    /\ agent' = [agent EXCEPT !.at = "model"]
    /\ told' = [told EXCEPT !.running = TRUE]
    /\ Published(<<Ev("turn_started", 1, 0, "none", FALSE), State>>)
    /\ UNCHANGED stream

Ends(type, flag) ==
    /\ told.running
    /\ told' = [told EXCEPT !.running = FALSE]
    /\ Published(<<Ev(type, 1, 0, "none", flag), State>>)
    /\ UNCHANGED <<agent, follower>>

TurnCompletes ==
    /\ agent.at = "done" /\ stream = <<>>
    /\ Ends("turn_completed", told.interrupted)
    /\ UNCHANGED stream

\* The run raised, the lease was lost or the server stops: what is queued is lost.
StreamFails == Ends("turn_failed", FALSE) /\ stream' = <<>>

\* Another turn of the session, before or after.
OtherTurn ==
    /\ ~told.running /\ Cardinality({i \in DOMAIN events : events[i].turn = 2}) < 2 * MaxOthers
    /\ Published(<<Ev("item_started", 2, 1, "tool_call", FALSE),
                   Ev("turn_completed", 2, 0, "none", FALSE)>>)
    /\ UNCHANGED <<agent, stream, told, follower>>

-----------------------------------------------------------------------------
(* send_message.                                                            *)

Off == [at |-> "off", seen |-> 0, calls |-> <<>>, status |-> "started", interrupted |-> FALSE]

\* The seq is read first, so that nothing of the turn is missed; another turn of
\* the session may publish before this one holds the lease.
ReadLastSeq ==
    /\ follower.at = "off"
    /\ follower' = [follower EXCEPT !.at = "starting", !.seen = Len(events)]
    /\ UNCHANGED <<agent, stream, told, events>>

\* start_turn: the turn runs; or it is a retry of a message whose turn is known,
\* or wait is false; or the turn is refused.
SendMessage ==
    /\ follower.at = "starting"
    /\ \/ /\ TurnStarted
          /\ \E at \in {"following", "returned"} : follower' = [follower EXCEPT !.at = at]
       \/ /\ follower' = [follower EXCEPT !.at = "returned"]
          /\ UNCHANGED <<agent, stream, told, events>>

\* The turn is started by another client, the web's.
StartElsewhere == follower.at = "off" /\ TurnStarted /\ UNCHANGED follower

IsCall(ev) == ev.turn = 1 /\ ev.type = "item_started" /\ ev.kind = "tool_call"

IsEnd(ev) == ev.turn = 1 /\ ev.type \in {"turn_completed", "turn_failed"}

\* follow() passes over everything else, another turn's calls and end included.
FollowsTo(k) ==
    /\ follower.at = "following" /\ follower.seen < k
    /\ IsCall(events[k]) \/ IsEnd(events[k])
    /\ \A l \in follower.seen + 1 .. k - 1 : ~IsCall(events[l]) /\ ~IsEnd(events[l])

FollowCall(k) ==
    /\ FollowsTo(k) /\ IsCall(events[k])
    /\ follower' = [follower EXCEPT !.seen = k, !.calls = Append(@, events[k].item)]
    /\ UNCHANGED <<agent, stream, told, events>>

FollowEnd(k) ==
    /\ FollowsTo(k) /\ IsEnd(events[k])
    /\ follower' = [follower EXCEPT !.at = "returned", !.seen = k, !.status = events[k].type,
                                    !.interrupted = events[k].flag]
    /\ UNCHANGED <<agent, stream, told, events>>

FollowTimesOut ==
    /\ follower.at = "following"
    /\ follower' = [follower EXCEPT !.at = "returned", !.status = "timeout"]
    /\ UNCHANGED <<agent, stream, told, events>>

-----------------------------------------------------------------------------
TurnEventsInit ==
    /\ agent = [at |-> "off", responses |-> 0, answered |-> 0, calls |-> <<>>]
    /\ stream = <<>> /\ events = <<>>
    /\ told = [running |-> FALSE, open |-> {}, dispatches |-> {}, sub_runs |-> <<>>,
               interrupted |-> FALSE]
    /\ follower = Off

\* A turn that ended leaves its tools to themselves.
TurnEventsNext ==
    \/ told.running /\ (Respond \/ ToolsDone \/ TurnCompletes \/ StreamFails
                          \/ \E i \in DOMAIN agent.calls : CallReturns(i))
    \/ Translate
    \/ OtherTurn \/ ReadLastSeq \/ SendMessage \/ StartElsewhere
    \/ \E k \in DOMAIN events : FollowCall(k) \/ FollowEnd(k)
    \/ FollowTimesOut

TurnEventsSpec == TurnEventsInit /\ [][TurnEventsNext]_turnEventVars

-----------------------------------------------------------------------------
TurnEventsTypeOK ==
    /\ agent.at \in {"off", "model", "tools", "done"}
    /\ agent.answered \in 0 .. Len(agent.calls)
    /\ follower.at \in {"off", "starting", "following", "returned"}
    /\ follower.status \in {"started", "turn_completed", "turn_failed", "timeout"}
    /\ follower.seen \in 0 .. Len(events)
    /\ \A i \in DOMAIN events : events[i].turn \in {1, 2}

\* Where the log tells something of an item of the turn.
Of(type, item) ==
    {i \in DOMAIN events : events[i].turn = 1 /\ events[i].type = type /\ events[i].item = item}

\* Each completion has a start of its own before it, and each start after the
\* first comes after a completion.
StartsAndCompletes(item) ==
    LET starts == Of("item_started", item)
        completes == Of("item_completed", item)
    IN
    /\ \A i \in completes : \E k \in starts :
          k < i /\ \A l \in starts \cup completes : l <= k \/ i <= l
    /\ \A k, l \in starts : k < l => \E i \in completes : k < i /\ i < l

SubRunInPlace(item) ==
    \A i \in Of("sub_run", item) :
        /\ Of("sub_run", item) = {i}
        /\ \E k \in Of("item_started", item) : k < i
        /\ \A k \in Of("item_completed", item) : i < k

\* The calls of the turn that the first n events tell of, in their order.
TellsCalls(calls, n) ==
    LET starts == {k \in 1 .. n : IsCall(events[k])} IN
    /\ {calls[i] : i \in DOMAIN calls} = {events[k].item : k \in starts}
    /\ \A i, j \in DOMAIN calls : i < j =>
          \E k, l \in starts : k < l /\ events[k].item = calls[i] /\ events[l].item = calls[j]

\* The events of a turn make sense to a client that reads them in order, whatever
\* tools ran at the same time, and however they ended: an item completes once for
\* each start, after it; a sub-agent's run is told after its dispatch has started
\* and before it completes; a turn completes with nothing open, every sub-agent's
\* run told and an interrupt exactly if one of its tools asked for it; nothing of
\* the turn but a snapshot follows its end.  And who waits for the turn is given
\* its own outcome and calls, not another turn's, or that it was not waited for.
TurnIsToldWhole ==
    LET items == 0 .. Len(agent.calls) IN
    /\ \A item \in items : StartsAndCompletes(item) /\ SubRunInPlace(item)
    /\ \A i \in Of("turn_completed", 0) :
          /\ \A item \in items : \A k \in Of("item_started", item) :
                \E l \in Of("item_completed", item) : k < l
          /\ told.sub_runs = <<>>
          /\ events[i].flag = \E k \in DOMAIN events :
                events[k].turn = 1 /\ events[k].type = "item_completed" /\ events[k].flag
    /\ \A i \in DOMAIN events : IsEnd(events[i]) =>
          \A k \in i + 1 .. Len(events) : events[k].turn = 1 => events[k].type = "state"
    /\ follower.status \in {"turn_completed", "turn_failed"} =>
          /\ \E i \in Of(follower.status, 0) : events[i].flag = follower.interrupted
          /\ TellsCalls(follower.calls, Len(events))
    /\ follower.at = "following" /\ ~told.running =>
          \E k \in follower.seen + 1 .. Len(events) : IsEnd(events[k])
=============================================================================
