----------------------------- MODULE WebStream ------------------------------
(***************************************************************************)
(* The console's subscription (web/src/hooks/use-session-live.ts and the   *)
(* position of web/src/lib/stream.ts) over the event bus: GET              *)
(* /sessions/{id}/events?after=n, connections that break, reconnection     *)
(* from the last seq applied, and the controls of the events panel.        *)
(***************************************************************************)
EXTENDS EventBus

CONSTANTS
    Failed,         \* a snapshot request that failed
    SnapshotFails,  \* whether snapshot requests may fail
    MaxRestarts,    \* bound: restarts of the server
    MaxBreaks,      \* bound: connections that break while the server lives
    MaxClicks       \* bound: uses of the panel's controls

ASSUME WebAssumption ==
    /\ Failed \notin Nat /\ SnapshotFails \in BOOLEAN
    /\ MaxRestarts \in Nat /\ MaxBreaks \in Nat /\ MaxClicks \in Nat

VARIABLES
    source,     \* the EventSource; "closed" if the user disconnected it
    asked,      \* the after of its URL
    retry,      \* the timer of a reconnection: "none", "armed" or "fired"
    checks,     \* the last_seq of snapshots that reconnect is about to read
    pos,        \* lastSeq, of the connection and of the reducer
    of,         \* history: the life of the event at pos
    told,       \* history: a resync, or a request to skip, since the event at pos
    breaks, clicks

client == <<source, asked, retry, checks, pos, of, told>>
vars   == <<bus, client, breaks, clicks>>

Position == 0 .. MaxEvents

TypeOK ==
    /\ BusTypeOK /\ life <= MaxRestarts + 1
    /\ source \in [Reader -> {"none", "connecting", "open", "broken", "closed"}]
    /\ asked \in [Reader -> Position \cup {NoSeq}]
    /\ retry \in [Reader -> {"none", "armed", "fired"}]
    /\ checks \in [Reader -> SUBSET (Position \cup {Failed})]
    /\ pos \in [Reader -> Position]
    /\ of \in [Reader -> 0 .. MaxRestarts + 1]
    /\ told \in [Reader -> BOOLEAN]
    /\ breaks \in 0 .. MaxBreaks /\ clicks \in 0 .. MaxClicks

\* Opening the session connects from 0.
Init ==
    /\ BusInit
    /\ source = [c \in Reader |-> "connecting"]
    /\ asked = [c \in Reader |-> 0]
    /\ retry = [c \in Reader |-> "none"]
    /\ checks = [c \in Reader |-> {}]
    /\ pos = [c \in Reader |-> 0]
    /\ of = [c \in Reader |-> 0]
    /\ told = [c \in Reader |-> FALSE]
    /\ breaks = 0 /\ clicks = 0

-----------------------------------------------------------------------------
\* The server's side of a closed connection is gone: nothing more is delivered.
Hangup(c) ==
    /\ sub' = [sub EXCEPT ![c] = Off]
    /\ UNCHANGED <<life, thread, seq, log>>

\* connect: close what there is, the timer included, and open a new EventSource.
Connect(c, after) ==
    /\ Hangup(c)
    /\ source' = [source EXCEPT ![c] = "connecting"]
    /\ asked' = [asked EXCEPT ![c] = after]
    /\ retry' = [retry EXCEPT ![c] = "none"]

\* lastSeq = 0 and the reducer's reset.
Reset(c) ==
    /\ pos' = [pos EXCEPT ![c] = 0]
    /\ of' = [of EXCEPT ![c] = 0]
    /\ told' = [told EXCEPT ![c] = FALSE]

\* The request reaches the route, which subscribes.
Accept(c) ==
    /\ source[c] = "connecting"
    /\ source' = [source EXCEPT ![c] = "open"]
    /\ sub' = [sub EXCEPT ![c] = Registered(asked[c])]
    /\ UNCHANGED <<life, thread, seq, log, asked, retry, checks, pos, of, told, breaks, clicks>>

\* A frame arrives; one at or below the last applied seq changes nothing.
Deliver(c, n) ==
    /\ source[c] = "open"
    /\ Yield(c, n)
    /\ IF n > pos[c]
       THEN /\ pos' = [pos EXCEPT ![c] = n]
            /\ of' = [of EXCEPT ![c] = life]
            /\ told' = [told EXCEPT ![c] = FALSE]
       ELSE UNCHANGED <<pos, of, told>>
    /\ UNCHANGED <<source, asked, retry, checks, breaks, clicks>>

\* resync is logged, and the page reloads the snapshot; the position stays.
DeliverResync(c) ==
    /\ source[c] = "open"
    /\ YieldResync(c)
    /\ told' = [told EXCEPT ![c] = TRUE]
    /\ UNCHANGED <<source, asked, retry, checks, pos, of, breaks, clicks>>

AfterError_NoTimer == "none"

AfterError == "armed"

\* onerror: close, and try again in RETRY_MS.
OnError(c) ==
    /\ \/ source[c] = "broken" /\ UNCHANGED breaks
       \/ source[c] \in {"connecting", "open"} /\ breaks < MaxBreaks /\ breaks' = breaks + 1
    /\ Hangup(c)
    /\ source' = [source EXCEPT ![c] = "none"]
    /\ retry' = [retry EXCEPT ![c] = AfterError]
    /\ UNCHANGED <<asked, checks, pos, of, told, clicks>>

\* reconnect asks for the snapshot, whose last_seq is read when it is served.
AskSnapshot(c) ==
    /\ \E answer \in IF SnapshotFails THEN {seq, Failed} ELSE {seq} :
          checks' = [checks EXCEPT ![c] = @ \cup {answer}]
    /\ UNCHANGED <<bus, source, asked, pos, of, told, breaks>>

Retry(c) ==
    /\ retry[c] = "armed"
    /\ retry' = [retry EXCEPT ![c] = "fired"]
    /\ AskSnapshot(c)
    /\ UNCHANGED clicks

\* The rest of reconnect: start over if the server's counter went backwards.
Reconnect(c, answer) ==
    /\ answer \in checks[c]
    /\ checks' = [checks EXCEPT ![c] = @ \ {answer}]
    /\ IF answer # Failed /\ answer < pos[c]
       THEN Reset(c) /\ Connect(c, 0)
       ELSE Connect(c, pos[c]) /\ UNCHANGED <<pos, of, told>>
    /\ UNCHANGED <<breaks, clicks>>

-----------------------------------------------------------------------------
(* The panel's controls.                                                    *)

Click == clicks < MaxClicks /\ clicks' = clicks + 1

Resume(c) ==
    /\ Click
    /\ AskSnapshot(c)
    /\ UNCHANGED retry

\* replayFrom: a position of the user's own, or none (tail).
ReplayFrom(c, after) ==
    /\ Click
    /\ Connect(c, after)
    /\ told' = [told EXCEPT ![c] = @ \/ after = NoSeq \/ after > pos[c]]
    /\ UNCHANGED <<checks, pos, of, breaks>>

StartOver(c) ==
    /\ Click
    /\ Reset(c)
    /\ Connect(c, 0)
    /\ UNCHANGED <<checks, breaks>>

Disconnect(c) ==
    /\ source[c] \notin {"none", "closed"} \/ retry[c] # "none"
    /\ Click
    /\ Hangup(c)
    /\ source' = [source EXCEPT ![c] = "closed"]
    /\ retry' = [retry EXCEPT ![c] = "none"]
    /\ UNCHANGED <<asked, checks, pos, of, told, breaks>>

-----------------------------------------------------------------------------
\* Connections to the old process break; a request on its way reaches the new one.
Restart ==
    /\ life <= MaxRestarts
    /\ RestartBus
    /\ source' = [c \in Reader |-> IF source[c] = "open" THEN "broken" ELSE source[c]]
    /\ UNCHANGED <<asked, retry, checks, pos, of, told, breaks, clicks>>

Server ==
    \/ Publish
    \/ \E c \in Reader : Serve(c)

Stream(c) == Accept(c) \/ DeliverResync(c) \/ \E n \in Seqs : Deliver(c, n)

Recover(c) ==
    \/ Retry(c)
    \/ \E answer \in Position \cup {Failed} : Reconnect(c, answer)

Controls(c) ==
    \/ Resume(c) \/ StartOver(c) \/ Disconnect(c)
    \/ \E after \in Position \cup {NoSeq} : ReplayFrom(c, after)

Next ==
    \/ Server /\ UNCHANGED <<client, breaks, clicks>>
    \/ \E c \in Reader : Stream(c) \/ OnError(c) \/ Recover(c) \/ Controls(c)
    \/ Restart

Spec == Init /\ [][Next]_vars

\* The server's loop runs what is ready, frames arrive, a broken connection is
\* noticed, and the browser's timers and requests come to an end.
Fairness ==
    \A c \in Reader :
        /\ WF_vars(Serve(c) /\ UNCHANGED <<client, breaks, clicks>>)
        /\ WF_vars(Stream(c))
        /\ WF_vars(source[c] = "broken" /\ OnError(c))
        /\ WF_vars(Retry(c))
        /\ WF_vars(\E answer \in Position \cup {Failed} : Reconnect(c, answer))

FairSpec == Spec /\ Fairness

-----------------------------------------------------------------------------
\* Register, then replay, then drain: of the events of one life a console
\* misses none, unless it was told so or asked for it, wherever connections
\* break, the log is trimmed and the server restarts.
NoGapWithinALife ==
    [][\A c \in Reader :
          pos'[c] > pos[c] /\ (pos[c] = 0 \/ of'[c] = of[c]) => told[c] \/ pos'[c] = pos[c] + 1]_vars

Drained(c) ==
    /\ source[c] = "open" /\ sub[c].phase = "live"
    /\ sub[c].queue = <<>> /\ sub[c].handed = <<>>

\* A console that has drained its subscription shows everything published in
\* the life it shows: nothing fell between the registration and the replay.
DrainedMeansCurrent ==
    \A c \in Reader :
        Drained(c) /\ (pos[c] = 0 \/ of[c] = life)
        => told[c] \/ pos[c] = seq

\* use-session-live.ts: a dropped connection resumes with no gap, and a server
\* that restarted is subscribed to from the start.
ResumesWithoutGap ==
    [][\A c \in Reader :
          pos'[c] > pos[c] =>
             told[c] \/ (pos'[c] = pos[c] + 1 /\ (pos[c] = 0 \/ of'[c] = of[c]))]_vars

\* Disconnected by the user, with no reconnection under way.
Closed(c) == source[c] = "closed" /\ checks[c] = {}

\* While the server lives, a console that is not disconnected by its user ends
\* up with every event, however often its connection broke.
CatchesUp ==
    [](life = 1) => <>[](\A c \in Reader : Closed(c) \/ told[c] \/ pos[c] = seq)
=============================================================================
