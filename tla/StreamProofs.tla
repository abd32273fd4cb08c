---------------------------- MODULE StreamProofs ----------------------------
(***************************************************************************)
(* Theorems of WebStream over EventBus, for any consoles, log, tail and    *)
(* bounds, with the server restarting and connections breaking.            *)
(***************************************************************************)
EXTENDS WebStream, TLAPS

-----------------------------------------------------------------------------
(* The inductive invariant.                                                 *)

\* Consecutive events, n the last of them.
EndsAt(q, n) == Len(q) <= n /\ \A i \in DOMAIN q : q[i] = (n - Len(q)) + i

\* The log is the end of what was published.
LogIsTail == EndsAt(log, seq) /\ (seq # 0 => log # <<>>)

\* The last event published before those that wait in the subscription.
Unheard(s, n) == (n - Len(s.handed)) - Len(s.queue)

\* What waits in the queue and on the way to it is everything published since
\* the registration, without a hole, and a replay reaches up to there.
Follows(s, n, threads) ==
    /\ s.phase = "off" => s = Off
    /\ ~threads => s.handed = <<>>
    /\ EndsAt(s.handed, n)
    /\ EndsAt(s.queue, n - Len(s.handed))
    /\ \A i \in DOMAIN s.replay : s.replay[i] = (s.replay[1] + i) - 1
    /\ s.replay # <<>> =>
          /\ Unheard(s, n) <= s.replay[Len(s.replay)]
          /\ s.replay[Len(s.replay)] <= n
    /\ s.phase # "replaying" => s.replay = <<>>

\* What a subscriber at position p is still owed starts right after last, unless
\* it was told otherwise (t), and last is not beyond its position.
Promised(s, n, t, p) ==
    /\ s.phase # "off" => t \/ s.last <= p
    /\ s.phase = "registered" =>
          /\ ~s.resync
          /\ IF s.after = NoSeq THEN t ELSE s.last = s.after
    /\ s.phase = "replaying" /\ s.replay # <<>> => t \/ s.resync \/ s.replay[1] <= s.last + 1
    /\ s.phase \in {"replaying", "live"} /\ s.replay = <<>> => t \/ Unheard(s, n) <= s.last

\* A console asks for what follows its position, unless it knows better.
Asks(c) == source[c] = "connecting" => told[c] \/ (asked[c] # NoSeq /\ asked[c] <= pos[c])

\* A position of the life that goes on is one that was published.
Published(c) == of[c] <= life /\ (of[c] = life => pos[c] <= seq)

\* An event that a console at p has got, or was told about.
Reached(t, m, p) == t \/ m <= p

\* A subscription that is in order.
Sound(s, n, threads, t, p) ==
    s \in Subscription /\ Follows(s, n, threads) /\ Promised(s, n, t, p)

Served(c) == Sound(sub[c], seq, thread, told[c], pos[c])

StreamInv ==
    TypeOK /\ LogIsTail /\ \A c \in Reader : Served(c) /\ Asks(c) /\ Published(c)

-----------------------------------------------------------------------------
(* Lemmas about queues.                                                     *)

\* One more event keeps a queue without a hole.
LEMMA EndsAtAppend ==
    ASSUME NEW q \in Seq(Nat), NEW n \in Nat, EndsAt(q, n)
    PROVE  EndsAt(Append(q, n + 1), n + 1)
  BY DEF EndsAt

\* So does taking the first.
LEMMA EndsAtTail ==
    ASSUME NEW q \in Seq(Nat), NEW n \in Nat, EndsAt(q, n), q # <<>>
    PROVE  /\ EndsAt(Tail(q), n)
           /\ Head(q) = (n - Len(q)) + 1
           /\ Len(Tail(q)) = Len(q) - 1
  BY DEF EndsAt

\* What follows the first k.
LEMMA EndsAtSuffix ==
    ASSUME NEW q \in Seq(Nat), NEW n \in Nat, EndsAt(q, n), NEW k \in 0 .. Len(q)
    PROVE  /\ SubSeq(q, k + 1, Len(q)) \in Seq(Nat)
           /\ Len(SubSeq(q, k + 1, Len(q))) = Len(q) - k
           /\ EndsAt(SubSeq(q, k + 1, Len(q)), n)
  BY DEF EndsAt

-----------------------------------------------------------------------------
(* Lemmas about the steps of one subscription.                              *)

\* The types of a subscription's fields.
LEMMA SubscriptionTypes ==
    ASSUME NEW s \in Subscription
    PROVE  /\ s.last \in Nat /\ s.last \in 0 .. MaxEvents
           /\ s.replay \in Seq(Seqs) /\ s.queue \in Seq(Seqs) /\ s.handed \in Seq(Seqs)
           /\ s.replay \in Seq(Nat) /\ s.queue \in Seq(Nat) /\ s.handed \in Seq(Nat)
           /\ s.resync \in BOOLEAN
           /\ MaxEvents \in Nat
  <1>1. MaxEvents \in Nat
    BY BusAssumption
  <1>2. \A q \in Seq(Seqs) : q \in Seq(Nat)
    BY <1>1 DEF Seqs
  <1> QED
    BY <1>1, <1>2 DEF Subscription

\* What waits is not more than was published.
LEMMA SoundCounts ==
    ASSUME NEW s \in Subscription, NEW n \in Nat, NEW threads, Follows(s, n, threads)
    PROVE  /\ Len(s.handed) \in Nat /\ Len(s.queue) \in Nat
           /\ n - Len(s.handed) \in Nat
           /\ Unheard(s, n) \in Nat /\ Unheard(s, n) <= n
  <1>1. /\ s.handed \in Seq(Nat) /\ s.queue \in Seq(Nat)
        /\ Len(s.handed) <= n /\ Len(s.queue) <= n - Len(s.handed)
    BY SubscriptionTypes DEF Follows, EndsAt
  <1>2. Len(s.handed) \in Nat /\ Len(s.queue) \in Nat
    BY <1>1
  <1>3. Unheard(s, n) = (n - Len(s.handed)) - Len(s.queue)
    BY DEF Unheard
  <1> DEFINE h == Len(s.handed)
             q == Len(s.queue)
  <1>4. h \in Nat /\ q \in Nat /\ h <= n /\ q <= n - h /\ Unheard(s, n) = (n - h) - q
    BY <1>1, <1>2, <1>3
  <1> HIDE DEF h, q
  <1>5. /\ h \in Nat /\ q \in Nat /\ n - h \in Nat
        /\ Unheard(s, n) \in Nat /\ Unheard(s, n) <= n
    BY <1>4
  <1> QED
    BY <1>5 DEF h, q

\* A subscription that is not there is in order.
LEMMA OffIsSound ==
    ASSUME NEW n \in Nat, NEW threads, NEW t, NEW p
    PROVE  Sound(Off, n, threads, t, p)
  <1>1. Off \in Subscription
    BY BusAssumption DEF Off, Subscription
  <1>2. Follows(Off, n, threads)
    BY DEF Follows, Off, EndsAt
  <1>3. Promised(Off, n, t, p)
    BY DEF Promised, Off
  <1> QED
    BY <1>1, <1>2, <1>3 DEF Sound

\* One that was just registered is, if it asks for what it should.
LEMMA RegisteredIsSound ==
    ASSUME NEW n \in Nat, NEW threads, NEW t, NEW p \in Nat,
           NEW after \in 0 .. MaxEvents \cup {NoSeq},
           t \/ (after # NoSeq /\ after <= p)
    PROVE  Sound(Registered(after), n, threads, t, p)
  <1> DEFINE s == Registered(after)
  <1>1. /\ s.phase = "registered" /\ s.after = after /\ ~s.resync
        /\ s.last = IF after = NoSeq THEN 0 ELSE after
        /\ s.replay = <<>> /\ s.queue = <<>> /\ s.handed = <<>>
    BY DEF Registered
  <1>2. s \in Subscription
    <2>1. s = [phase |-> "registered", after |-> after, last |-> IF after = NoSeq THEN 0 ELSE after,
               resync |-> FALSE, replay |-> <<>>, queue |-> <<>>, handed |-> <<>>]
      BY DEF Registered
    <2>2. (IF after = NoSeq THEN 0 ELSE after) \in 0 .. MaxEvents
      BY BusAssumption
    <2>3. <<>> \in Seq(Seqs)
      OBVIOUS
    <2> HIDE DEF s
    <2> QED
      BY <2>1, <2>2, <2>3 DEF Subscription
  <1> HIDE DEF s
  <1>3. Follows(s, n, threads)
    BY <1>1 DEF Follows, EndsAt
  <1>4. Promised(s, n, t, p)
    BY <1>1 DEF Promised
  <1> QED
    BY <1>2, <1>3, <1>4 DEF Sound, s

\* The loop puts into the queue what a thread handed over first.
LEMMA HandOverIsSound ==
    ASSUME NEW s, NEW n \in Nat, NEW threads, NEW t, NEW p,
           Sound(s, n, threads, t, p), s.handed # <<>>, NEW s2,
           s2 = [s EXCEPT !.queue = Append(@, Head(s.handed)), !.handed = Tail(@)]
    PROVE  Sound(s2, n, threads, t, p)
  <1> USE SubscriptionTypes
  <1>1. s \in Subscription /\ Follows(s, n, threads) /\ Promised(s, n, t, p)
    BY DEF Sound
  <1>2. s2 \in Subscription
    <2>1. Append(s.queue, Head(s.handed)) \in Seq(Seqs) /\ Tail(s.handed) \in Seq(Seqs)
      BY <1>1
    <2> DEFINE q == Append(s.queue, Head(s.handed))
               h == Tail(s.handed)
               s1 == [s EXCEPT !.queue = q]
    <2>2. s2 = [s1 EXCEPT !.handed = h]
      BY <1>1 DEF Subscription
    <2> HIDE DEF q, h
    <2>3. s1 \in Subscription
      BY <1>1, <2>1 DEF Subscription, q
    <2> HIDE DEF s1
    <2> QED
      BY <2>1, <2>2, <2>3 DEF Subscription, h
  <1>3. /\ s2.phase = s.phase /\ s2.after = s.after /\ s2.last = s.last
        /\ s2.resync = s.resync /\ s2.replay = s.replay
        /\ s2.queue = Append(s.queue, Head(s.handed)) /\ s2.handed = Tail(s.handed)
    BY <1>1 DEF Subscription
  <1>4. /\ EndsAt(s2.handed, n)
        /\ Head(s.handed) = (n - Len(s.handed)) + 1
        /\ Len(s2.handed) = Len(s.handed) - 1
    BY <1>1, <1>3, EndsAtTail DEF Follows
  <1>5. n - Len(s.handed) \in Nat
    BY <1>1 DEF Follows, EndsAt
  <1>6. /\ EndsAt(s2.queue, n - Len(s2.handed))
        /\ Len(s2.queue) = Len(s.queue) + 1
    <2>1. n - Len(s2.handed) = (n - Len(s.handed)) + 1
      BY <1>1, <1>4
    <2> QED
      BY <1>1, <1>3, <1>4, <1>5, <2>1, EndsAtAppend DEF Follows
  <1>7. Unheard(s2, n) = Unheard(s, n)
    BY <1>1, <1>4, <1>6, <1>2 DEF Unheard
  <1>8. s.phase # "off"
    BY <1>1 DEF Follows, Off
  <1>9. Follows(s2, n, threads)
    BY <1>1, <1>3, <1>4, <1>6, <1>7, <1>8 DEF Follows
  <1>10. Promised(s2, n, t, p)
    BY <1>1, <1>3, <1>7 DEF Promised
  <1> QED
    BY <1>2, <1>9, <1>10 DEF Sound

\* An event is published to a subscription that listens.
LEMMA EnqueuedIsSound ==
    ASSUME NEW s, NEW n \in 0 .. MaxEvents, NEW threads \in BOOLEAN, NEW t, NEW p,
           n < MaxEvents,
           Sound(s, n, threads, t, p), s.phase # "off", NEW s2,
           s2 = IF threads THEN [s EXCEPT !.handed = Append(@, n + 1)]
                           ELSE [s EXCEPT !.queue = Append(@, n + 1)]
    PROVE  Sound(s2, n + 1, threads, t, p)
  <1> USE SubscriptionTypes
  <1>1. /\ s \in Subscription /\ Follows(s, n, threads) /\ Promised(s, n, t, p)
        /\ n + 1 \in Seqs
    BY DEF Sound, Seqs
  <1>2. s2 \in Subscription
    <2> DEFINE h == Append(s.handed, n + 1)
               q == Append(s.queue, n + 1)
    <2>1. h \in Seq(Seqs) /\ q \in Seq(Seqs)
      BY <1>1
    <2> HIDE DEF h, q
    <2>2. [s EXCEPT !.handed = h] \in Subscription /\ [s EXCEPT !.queue = q] \in Subscription
      BY <1>1, <2>1 DEF Subscription
    <2>3. s2 = IF threads THEN [s EXCEPT !.handed = h] ELSE [s EXCEPT !.queue = q]
      BY <1>1 DEF Subscription, h, q
    <2> QED
      BY <2>2, <2>3
  <1>3. /\ s2.phase = s.phase /\ s2.after = s.after /\ s2.last = s.last
        /\ s2.resync = s.resync /\ s2.replay = s.replay
        /\ s2.queue = (IF threads THEN s.queue ELSE Append(s.queue, n + 1))
        /\ s2.handed = IF threads THEN Append(s.handed, n + 1) ELSE s.handed
    BY <1>1 DEF Subscription
  <1>4. /\ EndsAt(s2.handed, n + 1)
        /\ EndsAt(s2.queue, (n + 1) - Len(s2.handed))
        /\ Unheard(s2, n + 1) = Unheard(s, n)
        /\ ~threads => s2.handed = <<>>
    <2>1. CASE threads
      <3>1. EndsAt(s2.handed, n + 1) /\ Len(s2.handed) = Len(s.handed) + 1
        BY <1>1, <1>3, <2>1, EndsAtAppend DEF Follows
      <3>2. (n + 1) - Len(s2.handed) = n - Len(s.handed)
        BY <1>1, <3>1
      <3> QED
        BY <1>1, <1>3, <2>1, <3>1, <3>2 DEF Follows, Unheard
    <2>2. CASE ~threads
      <3>1. s2.handed = <<>> /\ s.handed = <<>>
        BY <1>1, <1>3, <2>2 DEF Follows
      <3>2. n - Len(s.handed) = n /\ (n + 1) - Len(s2.handed) = n + 1
        BY <3>1
      <3>3. EndsAt(s2.queue, n + 1) /\ Len(s2.queue) = Len(s.queue) + 1
        BY <1>1, <1>3, <2>2, <3>2, EndsAtAppend DEF Follows
      <3>4. EndsAt(s2.handed, n + 1)
        BY <3>1 DEF EndsAt
      <3> QED
        BY <1>1, <3>1, <3>2, <3>3, <3>4 DEF Unheard
    <2> QED
      BY <2>1, <2>2
  <1>5. s.replay # <<>> => s.replay[Len(s.replay)] \in Nat
    BY <1>1
  <1>6. Follows(s2, n + 1, threads)
    BY <1>1, <1>3, <1>4, <1>5 DEF Follows
  <1>7. Promised(s2, n + 1, t, p)
    BY <1>1, <1>3, <1>4 DEF Promised
  <1> QED
    BY <1>2, <1>6, <1>7 DEF Sound

\* What read_log skips is a number of the events of the log: those up to after.
LEMMA SkippedCounts ==
    ASSUME TypeOK, LogIsTail, NEW after \in 0 .. MaxEvents \cup {NoSeq}
    PROVE  /\ Skipped(after) \in 0 .. Len(log)
           /\ after # NoSeq => \A i \in DOMAIN log : log[i] > after <=> i > Skipped(after)
  <1>1. log \in Seq(Nat) /\ EndsAt(log, seq) /\ seq \in Nat /\ MaxEvents \in Nat
    BY BusAssumption DEF TypeOK, BusTypeOK, Seqs, LogIsTail
  <1>2. CASE after = NoSeq
    BY <1>1, <1>2, BusAssumption DEF Skipped
  <1>3. CASE after # NoSeq
    <2> DEFINE Counts(k) == \A i \in DOMAIN log : log[i] > after <=> i > k
               w == after - (seq - Len(log))
               k == IF w < 0 THEN 0 ELSE IF w > Len(log) THEN Len(log) ELSE w
    <2>1. after \in Nat
      BY <1>1, <1>3
    <2>2. k \in 0 .. Len(log)
      BY <1>1, <2>1
    <2>3. Counts(k)
      <3> SUFFICES ASSUME NEW i \in DOMAIN log PROVE log[i] > after <=> i > k
        OBVIOUS
      <3>1. log[i] = (seq - Len(log)) + i /\ i \in 1 .. Len(log)
        BY <1>1 DEF EndsAt
      <3> QED
        BY <1>1, <2>1, <3>1
    <2>4. \E j \in 0 .. Len(log) : Counts(j)
      BY <2>2, <2>3
    <2>5. Skipped(after) = CHOOSE j \in 0 .. Len(log) : Counts(j)
      BY <1>3 DEF Skipped
    <2> QED
      BY <2>4, <2>5
  <1> QED
    BY <1>2, <1>3

\* The replay ends with the last event there is; there is none if after is not
\* before it.
LEMMA ReplayFollows ==
    ASSUME TypeOK, LogIsTail, NEW after \in 0 .. MaxEvents \cup {NoSeq}
    PROVE  /\ Replay(after) \in Seq(Seqs)
           /\ EndsAt(Replay(after), seq)
           /\ Replay(after) = <<>> /\ after # NoSeq => seq <= after
  <1>1. /\ log \in Seq(Nat) /\ log \in Seq(Seqs)
        /\ EndsAt(log, seq) /\ seq \in Nat /\ MaxEvents \in Nat
    BY BusAssumption DEF TypeOK, BusTypeOK, Seqs, LogIsTail
  <1> DEFINE k == Skipped(after)
  <1>2. /\ k \in 0 .. Len(log)
        /\ after # NoSeq => \A i \in DOMAIN log : log[i] > after <=> i > k
    BY SkippedCounts
  <1> HIDE DEF k
  <1>3. Replay(after) = SubSeq(log, k + 1, Len(log))
    BY DEF Replay, k
  <1>4. /\ EndsAt(Replay(after), seq)
        /\ Len(Replay(after)) = Len(log) - k
    BY <1>1, <1>2, <1>3, EndsAtSuffix
  <1>5. Replay(after) \in Seq(Seqs)
    BY <1>1, <1>2, <1>3
  <1>6. ASSUME Replay(after) = <<>>, after # NoSeq PROVE seq <= after
    <2>1. after \in Nat
      BY <1>1, <1>6
    <2>2. k = Len(log)
      BY <1>1, <1>2, <1>4, <1>6
    <2>3. CASE log = <<>>
      BY <1>1, <2>1, <2>3 DEF LogIsTail
    <2>4. CASE log # <<>>
      <3>1. Len(log) \in DOMAIN log /\ log[Len(log)] = seq
        BY <1>1, <2>4 DEF EndsAt
      <3> QED
        BY <1>1, <1>2, <1>6, <2>1, <2>2, <3>1
    <2> QED
      BY <2>3, <2>4
  <1> QED
    BY <1>4, <1>5, <1>6

\* The replay is read: either it starts where the subscriber's position ends,
\* or a resync goes before it, and the queue takes up where it ends.
LEMMA ReadIsSound ==
    ASSUME TypeOK, LogIsTail, NEW s, NEW t \in BOOLEAN, NEW p,
           Sound(s, seq, thread, t, p), s.phase = "registered", NEW s2,
           s2 = [s EXCEPT !.phase = "replaying", !.replay = Replay(s.after),
                          !.resync = Trimmed(s.after, Replay(s.after))]
    PROVE  Sound(s2, seq, thread, t, p)
  <1> USE SubscriptionTypes
  <1> DEFINE r == Replay(s.after)
             m == Trimmed(s.after, r)
  <1>1. /\ s \in Subscription /\ Follows(s, seq, thread) /\ Promised(s, seq, t, p)
        /\ seq \in Nat /\ s.after \in 0 .. MaxEvents \cup {NoSeq}
    BY BusAssumption DEF Sound, TypeOK, BusTypeOK, Subscription
  <1>2. /\ r \in Seq(Seqs) /\ r \in Seq(Nat) /\ EndsAt(r, seq)
        /\ r = <<>> /\ s.after # NoSeq => seq <= s.after
    <2>1. /\ Replay(s.after) \in Seq(Seqs)
          /\ EndsAt(Replay(s.after), seq)
          /\ Replay(s.after) = <<>> /\ s.after # NoSeq => seq <= s.after
      <3> DEFINE a == s.after
      <3>1. a \in 0 .. MaxEvents \cup {NoSeq}
        BY <1>1
      <3> HIDE DEF a
      <3>2. /\ Replay(a) \in Seq(Seqs)
            /\ EndsAt(Replay(a), seq)
            /\ Replay(a) = <<>> /\ a # NoSeq => seq <= a
        BY <3>1, ReplayFollows
      <3> QED
        BY <3>2 DEF a
    <2>2. \A q \in Seq(Seqs) : q \in Seq(Nat)
      BY <1>1, BusAssumption DEF Seqs
    <2> QED
      BY <2>1, <2>2
  <1> HIDE DEF r
  <1>3. m \in BOOLEAN /\ m = (s.after # NoSeq /\ r # <<>> /\ r[1] > s.after + 1)
    BY <1>2 DEF Trimmed
  <1>4. s2 = [s EXCEPT !.phase = "replaying", !.replay = r, !.resync = m]
    BY DEF r
  <1> HIDE DEF m
  <1>5. /\ s2.phase = "replaying" /\ s2.after = s.after /\ s2.last = s.last
        /\ s2.resync = m /\ s2.replay = r /\ s2.queue = s.queue /\ s2.handed = s.handed
    BY <1>1, <1>4 DEF Subscription
  <1>6. s2 \in Subscription
    <2> DEFINE s1 == [s EXCEPT !.phase = "replaying"]
               s12 == [s1 EXCEPT !.replay = r]
    <2>1. s1 \in Subscription
      BY <1>1 DEF Subscription
    <2>2. s2 = [s12 EXCEPT !.resync = m]
      BY <1>1, <1>4 DEF Subscription
    <2> HIDE DEF s1
    <2>3. s12 \in Subscription
      BY <1>2, <2>1 DEF Subscription
    <2> HIDE DEF s12
    <2> QED
      BY <1>3, <2>2, <2>3 DEF Subscription
  <1>7. r # <<>> => r[Len(r)] = seq /\ \A i \in DOMAIN r : r[i] = (r[1] + i) - 1
    BY <1>1, <1>2 DEF EndsAt
  <1>8. Unheard(s, seq) <= seq
    BY <1>1 DEF Unheard
  <1>9. Follows(s2, seq, thread)
    BY <1>1, <1>2, <1>5, <1>7, <1>8 DEF Follows, Unheard
  <1>10. Promised(s2, seq, t, p)
    <2>1. r # <<>> => t \/ m \/ r[1] <= s.last + 1
      <3>1. r # <<>> => r[1] \in Nat
        BY <1>2
      <3>2. CASE t
        BY <3>2
      <3>3. CASE ~t
        <4>1. s.after # NoSeq /\ s.last = s.after /\ s.after \in Nat
          BY <1>1, <3>3 DEF Promised
        <4>2. r # <<>> /\ ~(r[1] > s.after + 1) => r[1] <= s.last + 1
          BY <3>1, <4>1
        <4> QED
          BY <1>3, <4>1, <4>2
      <3> QED
        BY <3>2, <3>3
    <2>2. r = <<>> => t \/ Unheard(s, seq) <= s.last
      <3>1. CASE ~t
        <4>1. s.after # NoSeq /\ s.last = s.after /\ s.after \in Nat
          BY <1>1, <3>1 DEF Promised
        <4>2. Unheard(s, seq) \in Nat
          BY <1>1, SoundCounts
        <4> QED
          BY <1>1, <1>2, <1>8, <4>1, <4>2
      <3> QED
        BY <3>1
    <2>3. Unheard(s2, seq) = Unheard(s, seq)
      BY <1>5 DEF Unheard
    <2> QED
      BY <1>1, <1>5, <2>1, <2>2, <2>3 DEF Promised
  <1> QED
    BY <1>6, <1>9, <1>10 DEF Sound

\* The generator yields resync: from here on the subscriber is told.
LEMMA ResyncIsSound ==
    ASSUME NEW s, NEW n \in Nat, NEW threads, NEW t, NEW p,
           Sound(s, n, threads, t, p), s.phase = "replaying",
           NEW s2, s2 = [s EXCEPT !.resync = FALSE]
    PROVE  Sound(s2, n, threads, TRUE, p)
  <1>1. s \in Subscription /\ Follows(s, n, threads)
    BY DEF Sound
  <1>2. s2 \in Subscription
    BY <1>1 DEF Subscription
  <1>3. /\ s2.phase = s.phase /\ s2.after = s.after /\ s2.last = s.last
        /\ s2.replay = s.replay /\ s2.queue = s.queue /\ s2.handed = s.handed
    BY <1>1 DEF Subscription
  <1>4. Follows(s2, n, threads)
    BY <1>1, <1>3 DEF Follows, Unheard
  <1>5. Promised(s2, n, TRUE, p)
    BY <1>3 DEF Promised
  <1> QED
    BY <1>2, <1>4, <1>5 DEF Sound

\* The replay is over.
LEMMA LiveIsSound ==
    ASSUME NEW s, NEW n \in Nat, NEW threads, NEW t, NEW p,
           Sound(s, n, threads, t, p), s.phase = "replaying", s.replay = <<>>,
           NEW s2, s2 = [s EXCEPT !.phase = "live"]
    PROVE  Sound(s2, n, threads, t, p)
  <1>1. s \in Subscription /\ Follows(s, n, threads) /\ Promised(s, n, t, p)
    BY DEF Sound
  <1>2. s2 \in Subscription
    BY <1>1 DEF Subscription
  <1>3. /\ s2.phase = "live" /\ s2.after = s.after /\ s2.last = s.last
        /\ s2.replay = s.replay /\ s2.queue = s.queue /\ s2.handed = s.handed
    BY <1>1 DEF Subscription
  <1>4. Follows(s2, n, threads)
    BY <1>1, <1>3 DEF Follows, Unheard
  <1>5. Promised(s2, n, t, p)
    BY <1>1, <1>3 DEF Promised, Unheard
  <1> QED
    BY <1>2, <1>4, <1>5 DEF Sound

\* The first of the queue is taken out; last is at least what it was.
LEMMA TakenIsSound ==
    ASSUME NEW s, NEW n \in Nat, NEW threads, NEW t, NEW t2, NEW p, NEW p2,
           Sound(s, n, threads, t, p), s.phase = "live", s.queue # <<>>,
           NEW m \in 0 .. MaxEvents, Head(s.queue) <= m, Reached(t2, m, p2),
           NEW s2, s2 = [s EXCEPT !.queue = Tail(@), !.last = m]
    PROVE  Sound(s2, n, threads, t2, p2)
  <1> USE SubscriptionTypes
  <1>1. s \in Subscription /\ Follows(s, n, threads) /\ Promised(s, n, t, p)
    BY DEF Sound
  <1>2. Tail(s.queue) \in Seq(Seqs)
    BY <1>1
  <1>3. s2 \in Subscription
    <2> DEFINE q == Tail(s.queue)
               s1 == [s EXCEPT !.queue = q]
    <2>1. s2 = [s1 EXCEPT !.last = m]
      BY <1>1 DEF Subscription
    <2> HIDE DEF q
    <2>2. s1 \in Subscription
      BY <1>1, <1>2 DEF Subscription, q
    <2> HIDE DEF s1
    <2> QED
      BY <2>1, <2>2 DEF Subscription
  <1>4. /\ s2.phase = s.phase /\ s2.after = s.after /\ s2.last = m
        /\ s2.replay = s.replay /\ s2.queue = Tail(s.queue) /\ s2.handed = s.handed
    BY <1>1 DEF Subscription
  <1>5. n - Len(s.handed) \in Nat
    BY <1>1, SoundCounts
  <1>6. /\ EndsAt(s2.queue, n - Len(s.handed))
        /\ Head(s.queue) = ((n - Len(s.handed)) - Len(s.queue)) + 1
        /\ Len(s2.queue) = Len(s.queue) - 1
    BY <1>1, <1>4, <1>5, EndsAtTail DEF Follows
  <1>7. Unheard(s2, n) = Head(s.queue)
    BY <1>1, <1>4, <1>5, <1>6 DEF Unheard
  <1>8. Follows(s2, n, threads)
    BY <1>1, <1>4, <1>6 DEF Follows
  <1>9. Promised(s2, n, t2, p2)
    BY <1>4, <1>7 DEF Promised, Reached
  <1> QED
    BY <1>3, <1>8, <1>9 DEF Sound

\* The first of the replay is yielded.
LEMMA ReplayedIsSound ==
    ASSUME NEW s, NEW n \in Nat, NEW threads, NEW t, NEW t2, NEW p, NEW p2,
           Sound(s, n, threads, t, p), s.phase = "replaying", s.replay # <<>>,
           NEW m \in 0 .. MaxEvents, m = Head(s.replay), Reached(t2, m, p2),
           NEW s2, s2 = [s EXCEPT !.replay = Tail(@), !.last = m]
    PROVE  Sound(s2, n, threads, t2, p2)
  <1> USE SubscriptionTypes
  <1>1. s \in Subscription /\ Follows(s, n, threads) /\ Promised(s, n, t, p)
    BY DEF Sound
  <1> DEFINE q == Tail(s.replay)
  <1>2. /\ q \in Seq(Seqs) /\ q \in Seq(Nat) /\ Len(q) = Len(s.replay) - 1
        /\ s.replay \in Seq(Nat) /\ Len(s.replay) \in Nat \ {0}
        /\ m = s.replay[1] /\ m \in Nat
        /\ DOMAIN q = 1 .. Len(q) /\ DOMAIN s.replay = 1 .. Len(s.replay)
    BY <1>1
  <1>3. s2 \in Subscription
    <2> DEFINE s1 == [s EXCEPT !.replay = q]
    <2>1. s2 = [s1 EXCEPT !.last = m]
      BY <1>1 DEF Subscription
    <2> HIDE DEF q
    <2>2. s1 \in Subscription
      BY <1>1, <1>2 DEF Subscription
    <2> HIDE DEF s1
    <2> QED
      BY <2>1, <2>2 DEF Subscription
  <1>4. /\ s2.phase = s.phase /\ s2.after = s.after /\ s2.last = m
        /\ s2.replay = q /\ s2.queue = s.queue /\ s2.handed = s.handed
    BY <1>1 DEF Subscription
  <1>5. \A i \in DOMAIN q : q[i] = m + i
    <2> TAKE i \in DOMAIN q
    <2>1. q[i] = s.replay[i + 1] /\ i + 1 \in DOMAIN s.replay /\ i \in Nat
      BY <1>2
    <2>2. s.replay[i + 1] = (m + (i + 1)) - 1
      BY <1>1, <1>2, <2>1 DEF Follows
    <2>3. m \in Nat /\ i \in Nat
      BY <1>2, <2>1
    <2> HIDE DEF q
    <2>4. (m + (i + 1)) - 1 = m + i
      BY <2>3
    <2> QED
      BY <2>1, <2>2, <2>4
  <1>6. q # <<>> => q[Len(q)] = s.replay[Len(s.replay)] /\ q[1] = m + 1
    <2> SUFFICES ASSUME q # <<>> PROVE q[Len(q)] = s.replay[Len(s.replay)] /\ q[1] = m + 1
      OBVIOUS
    <2>1. Len(q) \in DOMAIN q /\ 1 \in DOMAIN q
      BY <1>2
    <2>2. q[Len(q)] = s.replay[Len(q) + 1] /\ Len(q) + 1 = Len(s.replay)
      BY <1>2, <2>1
    <2> QED
      BY <1>5, <2>1, <2>2
  <1>7. q = <<>> => m = s.replay[Len(s.replay)]
    <2> HIDE DEF q
    <2>1. q = <<>> => Len(q) = 0 /\ Len(s.replay) = 1
      BY <1>2
    <2> QED
      BY <1>2, <2>1
  <1>11. /\ Unheard(s, n) \in Nat /\ Unheard(s2, n) = Unheard(s, n)
        /\ Unheard(s, n) <= s.replay[Len(s.replay)] /\ s.replay[Len(s.replay)] <= n
    BY <1>1, <1>2, <1>4, SoundCounts DEF Unheard, Follows
  <1> HIDE DEF q
  <1>8. Follows(s2, n, threads)
    <2>1. \A i \in DOMAIN q : q[i] = (q[1] + i) - 1
      <3> TAKE i \in DOMAIN q
      <3>1. i \in Nat /\ q # <<>>
        BY <1>2
      <3>2. q[i] = m + i /\ q[1] = m + 1
        BY <1>5, <1>6, <3>1
      <3>3. m + i = ((m + 1) + i) - 1
        BY <1>2, <3>1
      <3> QED
        BY <3>2, <3>3
    <2> QED
      BY <1>1, <1>4, <1>6, <1>11, <2>1 DEF Follows
  <1>9. Promised(s2, n, t2, p2)
    <2>1. q # <<>> => q[1] <= m + 1
      BY <1>2, <1>6
    <2>2. q = <<>> => Unheard(s2, n) <= m
      BY <1>7, <1>11
    <2> QED
      BY <1>4, <2>1, <2>2 DEF Promised, Reached
  <1> QED
    BY <1>3, <1>8, <1>9 DEF Sound

-----------------------------------------------------------------------------
(* The invariant is kept by every step.                                     *)

\* A step of one subscription.
LEMMA SubStep ==
    ASSUME StreamInv, NEW c \in Reader, NEW s2,
           sub' = [sub EXCEPT ![c] = s2], UNCHANGED <<life, thread, seq, log>>,
           Sound(s2, seq, thread, told'[c], pos'[c]),
           \A d \in Reader \ {c} : told'[d] = told[d] /\ pos'[d] = pos[d]
    PROVE  /\ BusTypeOK' /\ LogIsTail' /\ \A d \in Reader : Served(d)'
           /\ (life <= MaxRestarts + 1)'
  <1>1. /\ TypeOK /\ BusTypeOK /\ LogIsTail /\ sub \in [Reader -> Subscription]
        /\ \A d \in Reader : Served(d)
    BY DEF StreamInv, TypeOK, BusTypeOK
  <1>2. s2 \in Subscription
    BY DEF Sound
  <1>3. sub' \in [Reader -> Subscription] /\ sub'[c] = s2
    BY <1>1, <1>2
  <1>4. BusTypeOK' /\ LogIsTail' /\ (life <= MaxRestarts + 1)'
    BY <1>1, <1>3 DEF TypeOK, BusTypeOK, LogIsTail
  <1>5. ASSUME NEW d \in Reader PROVE Served(d)'
    <2>1. CASE d = c
      BY <1>3, <2>1 DEF Served
    <2>2. CASE d # c
      <3>1. sub'[d] = sub[d] /\ told'[d] = told[d] /\ pos'[d] = pos[d]
        BY <1>1, <2>2
      <3> QED
        BY <1>1, <3>1 DEF Served
    <2> QED
      BY <2>1, <2>2
  <1> QED
    BY <1>4, <1>5

\* What the server does by itself for a subscription.
LEMMA ServeStep ==
    ASSUME StreamInv, NEW c \in Reader, Serve(c), UNCHANGED <<client, breaks, clicks>>
    PROVE  StreamInv'
  <1>1. /\ TypeOK /\ LogIsTail /\ sub \in [Reader -> Subscription] /\ seq \in Nat
        /\ told[c] \in BOOLEAN /\ Sound(sub[c], seq, thread, told[c], pos[c])
        /\ MaxEvents \in Nat
    BY BusAssumption DEF StreamInv, TypeOK, BusTypeOK, Served
  <1>2. sub[c] \in Subscription /\ Follows(sub[c], seq, thread)
    BY <1>1 DEF Sound
  <1>3. \E s2 : sub' = [sub EXCEPT ![c] = s2] /\ Sound(s2, seq, thread, told[c], pos[c])
    <2>1. CASE HandOver(c)
      <3> DEFINE s2 == [sub[c] EXCEPT !.queue = Append(@, Head(sub[c].handed)), !.handed = Tail(@)]
      <3>1. sub' = [sub EXCEPT ![c] = s2] /\ sub[c].handed # <<>>
        BY <1>1, <1>2, <2>1 DEF HandOver, Subscription
      <3>2. Sound(s2, seq, thread, told[c], pos[c])
        BY <1>1, <3>1, HandOverIsSound
      <3> QED
        BY <3>1, <3>2
    <2>2. CASE ReadLog(c)
      <3> DEFINE s2 == [sub[c] EXCEPT !.phase = "replaying", !.replay = Replay(sub[c].after),
                                      !.resync = Trimmed(sub[c].after, Replay(sub[c].after))]
      <3>1. sub' = [sub EXCEPT ![c] = s2] /\ sub[c].phase = "registered"
        BY <1>1, <1>2, <2>2 DEF ReadLog, Subscription
      <3>2. Sound(s2, seq, thread, told[c], pos[c])
        BY <1>1, <3>1, ReadIsSound
      <3> QED
        BY <3>1, <3>2
    <2>3. CASE GoLive(c)
      <3> DEFINE s2 == [sub[c] EXCEPT !.phase = "live"]
      <3>1. sub' = [sub EXCEPT ![c] = s2] /\ sub[c].phase = "replaying" /\ sub[c].replay = <<>>
        BY <1>1, <2>3 DEF GoLive
      <3>2. Sound(s2, seq, thread, told[c], pos[c])
        BY <1>1, <3>1, LiveIsSound
      <3> QED
        BY <3>1, <3>2
    <2>4. CASE SkipCopy(c)
      <3> DEFINE l == sub[c].last
                 s2 == [sub[c] EXCEPT !.queue = Tail(@), !.last = l]
      <3>1. /\ sub[c].phase = "live" /\ sub[c].queue # <<>> /\ Head(sub[c].queue) <= l
            /\ l \in 0 .. MaxEvents
            /\ told[c] \/ l <= pos[c]
        BY <1>1, <1>2, <2>4 DEF SkipCopy, Sound, Promised, Subscription
      <3>2. sub' = [sub EXCEPT ![c] = s2]
        BY <1>1, <1>2, <2>4 DEF SkipCopy, Subscription
      <3>3. Sound(s2, seq, thread, told[c], pos[c])
        <4> DEFINE t == told[c]
                   p == pos[c]
        <4>1. Sound(sub[c], seq, thread, t, p) /\ Reached(t, l, p)
          BY <1>1, <3>1 DEF Reached
        <4> HIDE DEF l, t, p
        <4>2. s2 = [sub[c] EXCEPT !.queue = Tail(@), !.last = l]
          OBVIOUS
        <4> HIDE DEF s2
        <4>3. Sound(s2, seq, thread, t, p)
          BY <1>1, <3>1, <4>1, <4>2, TakenIsSound
        <4> QED
          BY <4>3 DEF t, p
      <3> QED
        BY <3>2, <3>3
    <2> QED
      BY <2>1, <2>2, <2>3, <2>4 DEF Serve
  <1>4. PICK s2 : sub' = [sub EXCEPT ![c] = s2] /\ Sound(s2, seq, thread, told[c], pos[c])
    BY <1>3
  <1>5. UNCHANGED <<life, thread, seq, log>> /\ told' = told /\ pos' = pos
    BY DEF Serve, HandOver, ReadLog, GoLive, SkipCopy, client
  <1>6. /\ BusTypeOK' /\ LogIsTail' /\ \A d \in Reader : Served(d)'
        /\ (life <= MaxRestarts + 1)'
    BY <1>4, <1>5, SubStep
  <1> QED
    BY <1>5, <1>6 DEF StreamInv, TypeOK, Asks, Published, client

\* The log with one more event, trimmed, is still the end of what was published.
LEMMA KeptIsTail ==
    ASSUME TypeOK, LogIsTail, seq < MaxEvents
    PROVE  LET kept == Kept(Append(log, seq + 1)) IN
           kept \in Seq(Seqs) /\ Len(kept) <= LogSize /\ EndsAt(kept, seq + 1) /\ kept # <<>>
  <1> DEFINE q == Append(log, seq + 1)
  <1>1. /\ log \in Seq(Seqs) /\ log \in Seq(Nat) /\ Len(log) <= LogSize /\ EndsAt(log, seq)
        /\ seq \in Nat /\ seq + 1 \in Seqs /\ LogSize \in Nat \ {0}
    BY BusAssumption DEF TypeOK, BusTypeOK, Seqs, LogIsTail
  <1>2. /\ q \in Seq(Seqs) /\ q \in Seq(Nat) /\ EndsAt(q, seq + 1)
        /\ Len(q) <= LogSize + 1 /\ Len(q) \in Nat \ {0}
    BY <1>1, EndsAtAppend
  <1> HIDE DEF q
  <1>3. CASE Len(q) <= LogSize
    <2>1. Kept(q) = q /\ q # <<>>
      BY <1>1, <1>2, <1>3 DEF Kept
    <2> QED
      BY <1>2, <1>3, <2>1 DEF q
  <1>4. CASE ~(Len(q) <= LogSize)
    <2>1. Len(q) = LogSize + 1 /\ Kept(q) = SubSeq(q, 1 + 1, Len(q))
      BY <1>1, <1>2, <1>4 DEF Kept
    <2>2. 1 \in 0 .. Len(q)
      BY <1>2
    <2>3. Len(Kept(q)) = Len(q) - 1 /\ EndsAt(Kept(q), seq + 1)
      BY <1>1, <1>2, <2>1, <2>2, EndsAtSuffix
    <2>4. Kept(q) \in Seq(Seqs)
      BY <1>2, <2>1
    <2>5. Len(Kept(q)) = LogSize
      BY <1>1, <2>1, <2>3
    <2>6. Len(Kept(q)) <= LogSize /\ Kept(q) # <<>>
      BY <1>1, <2>5
    <2> QED
      BY <2>3, <2>4, <2>6 DEF q
  <1> QED
    BY <1>3, <1>4

\* publish reaches the log and every subscription that listens.
LEMMA PublishStep ==
    ASSUME StreamInv, Publish, UNCHANGED <<client, breaks, clicks>>
    PROVE  StreamInv'
  <1>1. /\ TypeOK /\ LogIsTail /\ sub \in [Reader -> Subscription]
        /\ seq \in 0 .. MaxEvents /\ seq \in Nat /\ thread \in BOOLEAN /\ MaxEvents \in Nat
        /\ seq < MaxEvents /\ seq' = seq + 1 /\ UNCHANGED <<life, thread>>
        /\ seq' \in 0 .. MaxEvents
    BY BusAssumption DEF StreamInv, TypeOK, BusTypeOK, Publish
  <1>2. /\ log' \in Seq(Seqs) /\ Len(log') <= LogSize
        /\ EndsAt(log', seq') /\ log' # <<>>
    BY <1>1, KeptIsTail DEF Publish
  <1>3. ASSUME NEW d \in Reader PROVE sub'[d] \in Subscription /\ Served(d)'
    <2>1. /\ Sound(sub[d], seq, thread, told[d], pos[d])
          /\ told'[d] = told[d] /\ pos'[d] = pos[d]
          /\ sub'[d] = IF Listening(d) THEN Enqueued(sub[d], seq + 1) ELSE sub[d]
      BY DEF StreamInv, Served, Publish, client
    <2>2. CASE sub[d].phase # "off"
      <3>1. sub'[d] = IF thread THEN [sub[d] EXCEPT !.handed = Append(@, seq + 1)]
                                ELSE [sub[d] EXCEPT !.queue = Append(@, seq + 1)]
        BY <2>1, <2>2 DEF Listening, Enqueued
      <3>2. Sound(sub'[d], seq + 1, thread, told[d], pos[d])
        BY <1>1, <2>1, <2>2, <3>1, EnqueuedIsSound
      <3> QED
        BY <1>1, <2>1, <3>2 DEF Served, Sound
    <2>3. CASE sub[d].phase = "off"
      <3>1. sub'[d] = Off
        BY <2>1, <2>3 DEF Listening, Sound, Follows
      <3>2. Sound(sub'[d], seq', thread', told'[d], pos'[d])
        BY <1>1, <3>1, OffIsSound
      <3> QED
        BY <3>2 DEF Served, Sound
    <2> QED
      BY <2>2, <2>3
  <1>4. sub' \in [Reader -> Subscription]
    BY <1>3 DEF Publish
  <1>5. BusTypeOK' /\ LogIsTail'
    BY <1>1, <1>2, <1>4 DEF TypeOK, BusTypeOK, LogIsTail
  <1>6. \A c \in Reader : Published(c)'
    BY <1>1 DEF StreamInv, TypeOK, Position, Published, client
  <1>7. \A c \in Reader : Asks(c)'
    BY DEF StreamInv, Asks, client
  <1> QED
    BY <1>1, <1>3, <1>5, <1>6, <1>7 DEF StreamInv, TypeOK, client

\* The route subscribes.
LEMMA AcceptStep ==
    ASSUME StreamInv, NEW c \in Reader, Accept(c)
    PROVE  StreamInv'
  <1>1. /\ TypeOK /\ seq \in Nat /\ pos[c] \in Nat /\ asked[c] \in 0 .. MaxEvents \cup {NoSeq}
        /\ told[c] \/ (asked[c] # NoSeq /\ asked[c] <= pos[c])
        /\ sub' = [sub EXCEPT ![c] = Registered(asked[c])]
        /\ UNCHANGED <<life, thread, seq, log, asked, retry, checks, pos, of, told, breaks, clicks>>
    BY BusAssumption DEF StreamInv, TypeOK, BusTypeOK, Accept, Asks, Position
  <1>2. Sound(Registered(asked[c]), seq, thread, told'[c], pos'[c])
    BY <1>1, RegisteredIsSound
  <1> DEFINE s2 == Registered(asked[c])
  <1> HIDE DEF s2
  <1>3. /\ BusTypeOK' /\ LogIsTail' /\ \A d \in Reader : Served(d)'
        /\ (life <= MaxRestarts + 1)'
    <2>1. sub' = [sub EXCEPT ![c] = s2] /\ Sound(s2, seq, thread, told'[c], pos'[c])
      BY <1>1, <1>2 DEF s2
    <2> QED
      BY <1>1, <2>1, SubStep
  <1>4. TypeOK'
    BY <1>1, <1>3 DEF TypeOK, Accept
  <1>5. ASSUME NEW d \in Reader PROVE Asks(d)' /\ Published(d)'
    <2>1. source'[d] = "connecting" => source[d] = "connecting"
      BY <1>1 DEF Accept, TypeOK
    <2> QED
      BY <1>1, <2>1 DEF StreamInv, Asks, Published
  <1> QED
    BY <1>3, <1>4, <1>5 DEF StreamInv

\* What an event brings to a console: with Sound, it is the next one, unless the
\* console was told otherwise.
LEMMA Yielded ==
    ASSUME StreamInv, NEW c \in Reader, NEW n \in Seqs, Yield(c, n)
    PROVE  /\ n <= seq /\ n \in 0 .. MaxEvents /\ n \in Nat
           /\ told[c] \/ n <= pos[c] + 1
  <1>1. /\ sub[c] \in Subscription /\ seq \in Nat /\ pos[c] \in Nat /\ told[c] \in BOOLEAN
        /\ Follows(sub[c], seq, thread)
        /\ Promised(sub[c], seq, told[c], pos[c])
        /\ n \in 0 .. MaxEvents /\ n \in Nat
    BY BusAssumption DEF StreamInv, TypeOK, BusTypeOK, Position, Served, Sound, Seqs
  <1> DEFINE s == sub[c]
  <1>2. /\ s.last \in Nat /\ s.replay \in Seq(Nat) /\ s.queue \in Seq(Nat)
        /\ n > s.last
    BY <1>1, SubscriptionTypes DEF Yield
  <1>3. /\ Unheard(s, seq) \in Nat /\ Unheard(s, seq) <= seq
        /\ seq - Len(s.handed) \in Nat /\ Len(s.handed) \in Nat
    BY <1>1, SoundCounts
  <1>4. CASE s.phase = "replaying" /\ ~s.resync /\ s.replay # <<>> /\ n = Head(s.replay)
    <2>1. n = s.replay[1]
      BY <1>2, <1>4
    <2>2. told[c] \/ (n <= s.last + 1 /\ s.last <= pos[c])
      BY <1>1, <1>4, <2>1 DEF Promised
    <2>3. n <= s.replay[Len(s.replay)] /\ s.replay[Len(s.replay)] \in Nat
      <3>1. Len(s.replay) \in DOMAIN s.replay /\ Len(s.replay) \in Nat \ {0}
        BY <1>2, <1>4
      <3>2. s.replay[Len(s.replay)] = (s.replay[1] + Len(s.replay)) - 1
        BY <1>1, <3>1 DEF Follows
      <3> HIDE DEF s
      <3>3. s.replay[Len(s.replay)] = (n + Len(s.replay)) - 1
        BY <2>1, <3>2
      <3> QED
        BY <1>1, <3>1, <3>3
    <2>4. s.replay[Len(s.replay)] <= seq
      BY <1>1, <1>4 DEF Follows
    <2> HIDE DEF s
    <2> QED
      BY <1>1, <1>2, <2>2, <2>3, <2>4
  <1>5. CASE s.phase = "live" /\ s.queue # <<>> /\ n = Head(s.queue)
    <2> DEFINE w == seq - Len(s.handed)
               q == s.queue
    <2>0. w \in Nat /\ w <= seq /\ EndsAt(q, w) /\ q \in Seq(Nat) /\ q # <<>> /\ n = Head(q)
      BY <1>1, <1>2, <1>3, <1>5 DEF Follows
    <2>1. n = Unheard(s, seq) + 1
      <3>1. Unheard(s, seq) = w - Len(q)
        BY DEF Unheard
      <3> HIDE DEF w, q
      <3> QED
        BY <2>0, <3>1, EndsAtTail
    <2>2. Unheard(s, seq) + 1 <= seq
      <3>1. Unheard(s, seq) = w - Len(q)
        BY DEF Unheard
      <3> HIDE DEF w, q
      <3>2. Len(q) \in Nat \ {0}
        BY <2>0
      <3> QED
        BY <1>1, <2>0, <3>1, <3>2
    <2>3. n <= seq
      BY <2>1, <2>2
    <2> HIDE DEF w, q
    <2>4. told[c] \/ (Unheard(s, seq) <= s.last /\ s.last <= pos[c])
      BY <1>1, <1>5 DEF Promised, Follows
    <2> HIDE DEF s
    <2> QED
      BY <1>1, <1>2, <1>3, <2>1, <2>3, <2>4
  <1> QED
    BY <1>4, <1>5 DEF Yield

\* A frame arrives.
LEMMA DeliverStep ==
    ASSUME StreamInv, NEW c \in Reader, NEW n \in Seqs, Deliver(c, n)
    PROVE  StreamInv'
  <1>1. /\ TypeOK /\ sub \in [Reader -> Subscription] /\ seq \in Nat
        /\ pos[c] \in Nat /\ told[c] \in BOOLEAN /\ life \in Nat \ {0}
        /\ life <= MaxRestarts + 1
        /\ Sound(sub[c], seq, thread, told[c], pos[c]) /\ Yield(c, n)
        /\ source' = source /\ asked' = asked /\ source[c] = "open"
        /\ UNCHANGED <<retry, checks, breaks, clicks>>
    BY BusAssumption DEF StreamInv, TypeOK, BusTypeOK, Position, Served, Deliver
  <1>8. UNCHANGED <<life, thread, seq, log>>
    BY <1>1 DEF Yield
  <1>2. n <= seq /\ n \in 0 .. MaxEvents /\ n \in Nat
    BY <1>1, Yielded
  <1>3. /\ told' \in [Reader -> BOOLEAN] /\ pos' \in [Reader -> Position]
        /\ of' \in [Reader -> 0 .. MaxRestarts + 1]
        /\ n <= pos'[c] /\ Published(c)'
        /\ \A d \in Reader \ {c} : told'[d] = told[d] /\ pos'[d] = pos[d] /\ of'[d] = of[d]
    <2>1. CASE n > pos[c]
      <3>1. /\ pos' = [pos EXCEPT ![c] = n] /\ of' = [of EXCEPT ![c] = life]
            /\ told' = [told EXCEPT ![c] = FALSE]
        BY <2>1 DEF Deliver
      <3>2. pos'[c] = n /\ of'[c] = life /\ n <= n /\ life <= life /\ life \in 0 .. MaxRestarts + 1
        BY <1>1, <1>2, <3>1, WebAssumption DEF TypeOK
      <3> QED
        BY <1>1, <1>2, <1>8, <3>1, <3>2 DEF TypeOK, Position, Published
    <2>2. CASE ~(n > pos[c])
      BY <1>1, <1>2, <1>8, <2>2 DEF Deliver, TypeOK, Published, StreamInv
    <2> QED
      BY <2>1, <2>2
  <1>4. \E s2 : sub' = [sub EXCEPT ![c] = s2] /\ Sound(s2, seq, thread, told'[c], pos'[c])
    <2> DEFINE t == told[c]
               t2 == told'[c]
               p == pos[c]
               p2 == pos'[c]
    <2>1. Sound(sub[c], seq, thread, t, p) /\ Reached(t2, n, p2)
      BY <1>1, <1>3 DEF Reached
    <2> HIDE DEF t, t2, p, p2
    <2>2. CASE /\ sub[c].phase = "replaying" /\ sub[c].replay # <<>> /\ n = Head(sub[c].replay)
               /\ sub' = [sub EXCEPT ![c].replay = Tail(@), ![c].last = n]
      <3> DEFINE s2 == [sub[c] EXCEPT !.replay = Tail(@), !.last = n]
      <3>1. sub' = [sub EXCEPT ![c] = s2]
        BY <1>1, <2>2 DEF Subscription
      <3>2. s2 = [sub[c] EXCEPT !.replay = Tail(@), !.last = n]
        OBVIOUS
      <3> HIDE DEF s2
      <3>3. Sound(s2, seq, thread, t2, p2)
        BY <1>1, <1>2, <2>1, <2>2, <3>2, ReplayedIsSound
      <3> QED
        BY <3>1, <3>3 DEF t2, p2
    <2>3. CASE /\ sub[c].phase = "live" /\ sub[c].queue # <<>> /\ n = Head(sub[c].queue)
               /\ sub' = [sub EXCEPT ![c].queue = Tail(@), ![c].last = n]
      <3> DEFINE s2 == [sub[c] EXCEPT !.queue = Tail(@), !.last = n]
      <3>1. sub' = [sub EXCEPT ![c] = s2]
        BY <1>1, <2>3 DEF Subscription
      <3>2. Head(sub[c].queue) <= n
        BY <1>2, <2>3
      <3>3. s2 = [sub[c] EXCEPT !.queue = Tail(@), !.last = n]
        OBVIOUS
      <3> HIDE DEF s2
      <3>4. Sound(s2, seq, thread, t2, p2)
        BY <1>1, <1>2, <2>1, <2>3, <3>2, <3>3, TakenIsSound
      <3> QED
        BY <3>1, <3>4 DEF t2, p2
    <2> QED
      BY <1>1, <2>2, <2>3 DEF Yield
  <1>5. /\ BusTypeOK' /\ LogIsTail' /\ \A d \in Reader : Served(d)'
        /\ (life <= MaxRestarts + 1)'
    <2>1. PICK s2 : sub' = [sub EXCEPT ![c] = s2] /\ Sound(s2, seq, thread, told'[c], pos'[c])
      BY <1>4
    <2> QED
      BY <1>1, <1>3, <1>8, <2>1, SubStep
  <1>6. TypeOK'
    BY <1>1, <1>3, <1>5 DEF TypeOK
  <1>7. ASSUME NEW d \in Reader PROVE Asks(d)' /\ Published(d)'
    <2>1. CASE d = c
      BY <1>1, <1>3, <1>8, <2>1 DEF Asks
    <2>2. CASE d # c
      BY <1>1, <1>3, <1>8, <2>2 DEF StreamInv, Asks, Published
    <2> QED
      BY <2>1, <2>2
  <1> QED
    BY <1>5, <1>6, <1>7 DEF StreamInv

\* A resync arrives.
LEMMA DeliverResyncStep ==
    ASSUME StreamInv, NEW c \in Reader, DeliverResync(c)
    PROVE  StreamInv'
  <1>1. /\ TypeOK /\ sub \in [Reader -> Subscription] /\ seq \in Nat
        /\ Sound(sub[c], seq, thread, told[c], pos[c]) /\ sub[c].phase = "replaying"
        /\ sub' = [sub EXCEPT ![c].resync = FALSE]
        /\ told' = [told EXCEPT ![c] = TRUE] /\ told \in [Reader -> BOOLEAN]
        /\ UNCHANGED <<life, thread, seq, log, source, asked, retry, checks, pos, of, breaks, clicks>>
    BY BusAssumption DEF StreamInv, TypeOK, BusTypeOK, Served, DeliverResync, YieldResync
  <1> DEFINE s2 == [sub[c] EXCEPT !.resync = FALSE]
  <1>2. sub' = [sub EXCEPT ![c] = s2]
    BY <1>1
  <1>3. Sound(s2, seq, thread, told'[c], pos'[c])
    <2>1. Sound(s2, seq, thread, TRUE, pos[c])
      BY <1>1, ResyncIsSound
    <2>2. told'[c] = TRUE /\ pos'[c] = pos[c]
      BY <1>1
    <2> QED
      BY <2>1, <2>2
  <1> HIDE DEF s2
  <1>4. /\ BusTypeOK' /\ LogIsTail' /\ \A d \in Reader : Served(d)'
        /\ (life <= MaxRestarts + 1)'
    BY <1>1, <1>2, <1>3, SubStep
  <1>5. TypeOK'
    BY <1>1, <1>4 DEF TypeOK
  <1>6. ASSUME NEW d \in Reader PROVE Asks(d)' /\ Published(d)'
    <2>1. told[d] => told'[d]
      BY <1>1
    <2> QED
      BY <1>1, <2>1 DEF StreamInv, Asks, Published
  <1> QED
    BY <1>4, <1>5, <1>6 DEF StreamInv

\* A connection is closed, whatever becomes of the console's own state.
LEMMA HangupStep ==
    ASSUME StreamInv, NEW c \in Reader, Hangup(c),
           \A d \in Reader \ {c} : told'[d] = told[d] /\ pos'[d] = pos[d]
    PROVE  /\ BusTypeOK' /\ LogIsTail' /\ \A d \in Reader : Served(d)'
           /\ (life <= MaxRestarts + 1)'
           /\ UNCHANGED <<life, seq>>
  <1>1. sub' = [sub EXCEPT ![c] = Off] /\ UNCHANGED <<life, thread, seq, log>> /\ seq \in Nat
    BY BusAssumption DEF Hangup, StreamInv, TypeOK, BusTypeOK
  <1>2. Sound(Off, seq, thread, told'[c], pos'[c])
    BY <1>1, OffIsSound
  <1> QED
    BY <1>1, <1>2, SubStep

\* The types that the steps of a console rest on.
LEMMA ConsoleTypes ==
    ASSUME StreamInv, NEW c \in Reader
    PROVE  /\ pos[c] \in 0 .. MaxEvents /\ pos[c] \in Nat /\ told[c] \in BOOLEAN
           /\ seq \in 0 .. MaxEvents /\ seq \in Nat /\ life \in Nat \ {0} /\ of[c] \in Nat
           /\ 0 \in 0 .. MaxEvents /\ 0 \in 0 .. MaxRestarts + 1
           /\ MaxEvents \in Nat /\ MaxRestarts \in Nat /\ MaxBreaks \in Nat /\ MaxClicks \in Nat
  BY BusAssumption, WebAssumption DEF StreamInv, TypeOK, BusTypeOK, Position

\* onerror.
LEMMA OnErrorStep ==
    ASSUME StreamInv, NEW c \in Reader, OnError(c)
    PROVE  StreamInv'
  <1>1. /\ TypeOK /\ Hangup(c) /\ source' = [source EXCEPT ![c] = "none"]
        /\ retry' = [retry EXCEPT ![c] = "armed"]
        /\ UNCHANGED <<asked, checks, pos, of, told, clicks>>
    BY DEF OnError, AfterError, StreamInv
  <1>2. /\ BusTypeOK' /\ LogIsTail' /\ \A d \in Reader : Served(d)'
        /\ (life <= MaxRestarts + 1)' /\ UNCHANGED <<life, seq>>
    BY <1>1, HangupStep
  <1>3. breaks' \in 0 .. MaxBreaks
    BY <1>1, ConsoleTypes DEF OnError, TypeOK
  <1>4. TypeOK'
    BY <1>1, <1>2, <1>3 DEF TypeOK
  <1>5. ASSUME NEW d \in Reader PROVE Asks(d)' /\ Published(d)'
    <2>1. source'[d] = "connecting" => source[d] = "connecting"
      BY <1>1 DEF TypeOK
    <2> QED
      BY <1>1, <1>2, <2>1 DEF StreamInv, Asks, Published
  <1> QED
    BY <1>2, <1>4, <1>5 DEF StreamInv

\* The user disconnects.
LEMMA DisconnectStep ==
    ASSUME StreamInv, NEW c \in Reader, Disconnect(c)
    PROVE  StreamInv'
  <1>1. /\ TypeOK /\ Hangup(c) /\ source' = [source EXCEPT ![c] = "closed"]
        /\ retry' = [retry EXCEPT ![c] = "none"]
        /\ UNCHANGED <<asked, checks, pos, of, told, breaks>>
    BY DEF Disconnect, StreamInv
  <1>2. /\ BusTypeOK' /\ LogIsTail' /\ \A d \in Reader : Served(d)'
        /\ (life <= MaxRestarts + 1)' /\ UNCHANGED <<life, seq>>
    BY <1>1, HangupStep
  <1>3. clicks' \in 0 .. MaxClicks
    BY <1>1, ConsoleTypes DEF Disconnect, Click, TypeOK
  <1>4. TypeOK'
    BY <1>1, <1>2, <1>3 DEF TypeOK
  <1>5. ASSUME NEW d \in Reader PROVE Asks(d)' /\ Published(d)'
    <2>1. source'[d] = "connecting" => source[d] = "connecting"
      BY <1>1 DEF TypeOK
    <2> QED
      BY <1>1, <1>2, <2>1 DEF StreamInv, Asks, Published
  <1> QED
    BY <1>2, <1>4, <1>5 DEF StreamInv

\* The console starts over: position 0 is of no life.
LEMMA RestartedConsole ==
    ASSUME StreamInv, NEW c \in Reader, Reset(c), Connect(c, 0),
           checks' \in [Reader -> SUBSET (Position \cup {Failed})],
           breaks' = breaks, clicks' \in 0 .. MaxClicks
    PROVE  StreamInv'
  <1>1. /\ TypeOK /\ Hangup(c) /\ source' = [source EXCEPT ![c] = "connecting"]
        /\ asked' = [asked EXCEPT ![c] = 0] /\ retry' = [retry EXCEPT ![c] = "none"]
        /\ pos' = [pos EXCEPT ![c] = 0] /\ of' = [of EXCEPT ![c] = 0]
        /\ told' = [told EXCEPT ![c] = FALSE]
    BY DEF Reset, Connect, StreamInv
  <1>2. \A d \in Reader \ {c} : told'[d] = told[d] /\ pos'[d] = pos[d]
    BY <1>1 DEF TypeOK
  <1>3. /\ BusTypeOK' /\ LogIsTail' /\ \A d \in Reader : Served(d)'
        /\ (life <= MaxRestarts + 1)' /\ UNCHANGED <<life, seq>>
    BY <1>1, <1>2, HangupStep
  <1>4. TypeOK'
    BY <1>1, <1>3, ConsoleTypes DEF TypeOK, Position
  <1>5. ASSUME NEW d \in Reader PROVE Asks(d)' /\ Published(d)'
    <2>1. CASE d = c
      <3>1. asked'[c] = 0 /\ pos'[c] = 0 /\ of'[c] = 0
        BY <1>1 DEF TypeOK
      <3> QED
        BY <1>3, <2>1, <3>1, ConsoleTypes, BusAssumption DEF Asks, Published
    <2>2. CASE d # c
      <3>1. /\ source'[d] = source[d] /\ asked'[d] = asked[d] /\ pos'[d] = pos[d]
            /\ of'[d] = of[d] /\ told'[d] = told[d]
        BY <1>1, <2>2 DEF TypeOK
      <3> QED
        BY <1>3, <3>1 DEF StreamInv, Asks, Published
    <2> QED
      BY <2>1, <2>2
  <1> QED
    BY <1>3, <1>4, <1>5 DEF StreamInv

\* The console connects from a position of its own choice.
LEMMA ConnectedConsole ==
    ASSUME StreamInv, NEW c \in Reader, NEW after \in Position \cup {NoSeq}, Connect(c, after),
           UNCHANGED <<pos, of, breaks>>,
           checks' \in [Reader -> SUBSET (Position \cup {Failed})],
           clicks' \in 0 .. MaxClicks,
           told' = [told EXCEPT ![c] = @ \/ after = NoSeq \/ after > pos[c]]
    PROVE  StreamInv'
  <1>1. /\ TypeOK /\ Hangup(c) /\ source' = [source EXCEPT ![c] = "connecting"]
        /\ asked' = [asked EXCEPT ![c] = after] /\ retry' = [retry EXCEPT ![c] = "none"]
    BY DEF Connect, StreamInv
  <1>2. \A d \in Reader \ {c} : told'[d] = told[d] /\ pos'[d] = pos[d]
    BY <1>1 DEF TypeOK
  <1>3. /\ BusTypeOK' /\ LogIsTail' /\ \A d \in Reader : Served(d)'
        /\ (life <= MaxRestarts + 1)' /\ UNCHANGED <<life, seq>>
    BY <1>1, <1>2, HangupStep
  <1>4. told' \in [Reader -> BOOLEAN]
    BY <1>1 DEF TypeOK
  <1>5. TypeOK'
    BY <1>1, <1>3, <1>4 DEF TypeOK
  <1>6. ASSUME NEW d \in Reader PROVE Asks(d)' /\ Published(d)'
    <2>1. Published(d)'
      BY <1>3 DEF StreamInv, Published
    <2>2. CASE d = c
      <3>1. /\ asked'[c] = after /\ pos'[c] = pos[c]
            /\ told'[c] = (told[c] \/ after = NoSeq \/ after > pos[c])
        BY <1>1 DEF TypeOK
      <3>2. after # NoSeq => after \in Nat
        BY ConsoleTypes DEF Position
      <3>3. told'[c] \/ (after # NoSeq /\ after <= pos[c])
        <4>1. CASE after = NoSeq \/ after > pos[c]
          BY <3>1, <4>1
        <4>2. CASE after # NoSeq /\ ~(after > pos[c])
          BY <3>2, <4>2, ConsoleTypes
        <4> QED
          BY <4>1, <4>2
      <3> QED
        BY <2>1, <2>2, <3>1, <3>3 DEF Asks
    <2>3. CASE d # c
      <3>1. /\ source'[d] = source[d] /\ asked'[d] = asked[d] /\ pos'[d] = pos[d]
            /\ told'[d] = told[d]
        BY <1>1, <1>2, <2>3 DEF TypeOK
      <3> QED
        BY <2>1, <3>1 DEF StreamInv, Asks
    <2> QED
      BY <2>2, <2>3
  <1> QED
    BY <1>3, <1>5, <1>6 DEF StreamInv

\* The rest of reconnect.
LEMMA ReconnectStep ==
    ASSUME StreamInv, NEW c \in Reader, NEW answer \in Position \cup {Failed}, Reconnect(c, answer)
    PROVE  StreamInv'
  <1>1. /\ TypeOK /\ checks' = [checks EXCEPT ![c] = @ \ {answer}]
        /\ breaks' = breaks /\ clicks' = clicks
    BY DEF Reconnect, StreamInv
  <1>2. checks' \in [Reader -> SUBSET (Position \cup {Failed})] /\ clicks' \in 0 .. MaxClicks
    BY <1>1 DEF TypeOK
  <1>3. CASE answer # Failed /\ answer < pos[c]
    BY <1>1, <1>2, <1>3, RestartedConsole DEF Reconnect
  <1>4. CASE ~(answer # Failed /\ answer < pos[c])
    <2>1. Connect(c, pos[c]) /\ UNCHANGED <<pos, of, told>>
      BY <1>4 DEF Reconnect
    <2>2. /\ pos[c] \in Position \cup {NoSeq} /\ pos[c] # NoSeq /\ ~(pos[c] > pos[c])
      BY ConsoleTypes, BusAssumption DEF Position
    <2>3. told' = [told EXCEPT ![c] = @ \/ pos[c] = NoSeq \/ pos[c] > pos[c]]
      <3>1. told \in [Reader -> BOOLEAN]
        BY <1>1 DEF TypeOK
      <3> QED
        BY <2>1, <2>2, <3>1
    <2> DEFINE after == pos[c]
    <2>4. /\ after \in Position \cup {NoSeq} /\ Connect(c, after)
          /\ told' = [told EXCEPT ![c] = @ \/ after = NoSeq \/ after > pos[c]]
      BY <2>1, <2>2, <2>3
    <2> HIDE DEF after
    <2> QED
      BY <1>1, <1>2, <2>1, <2>4, ConnectedConsole
  <1> QED
    BY <1>3, <1>4

\* The snapshot is asked for.
LEMMA AskSnapshotStep ==
    ASSUME StreamInv, NEW c \in Reader, AskSnapshot(c),
           retry' \in [Reader -> {"none", "armed", "fired"}], clicks' \in 0 .. MaxClicks
    PROVE  StreamInv'
  <1>1. TypeOK /\ UNCHANGED <<bus, source, asked, pos, of, told, breaks>>
    BY DEF AskSnapshot, StreamInv
  <1>2. checks' \in [Reader -> SUBSET (Position \cup {Failed})]
    <2>1. PICK answer \in IF SnapshotFails THEN {seq, Failed} ELSE {seq} :
             checks' = [checks EXCEPT ![c] = @ \cup {answer}]
      BY DEF AskSnapshot
    <2>2. answer \in Position \cup {Failed}
      BY ConsoleTypes DEF Position
    <2> QED
      BY <1>1, <2>1, <2>2 DEF TypeOK
  <1>3. TypeOK'
    BY <1>1, <1>2 DEF TypeOK, BusTypeOK, bus
  <1> QED
    BY <1>1, <1>3 DEF StreamInv, bus, LogIsTail, Served, Asks, Published

\* The panel's controls.
LEMMA ControlsStep ==
    ASSUME StreamInv, NEW c \in Reader, Controls(c)
    PROVE  StreamInv'
  <1>1. ASSUME Click PROVE clicks' \in 0 .. MaxClicks
    BY <1>1, ConsoleTypes DEF Click, StreamInv, TypeOK
  <1>2. CASE Resume(c)
    <2>1. retry' \in [Reader -> {"none", "armed", "fired"}]
      BY <1>2 DEF Resume, StreamInv, TypeOK
    <2> QED
      BY <1>1, <1>2, <2>1, AskSnapshotStep DEF Resume
  <1>3. CASE StartOver(c)
    <2>1. checks' \in [Reader -> SUBSET (Position \cup {Failed})]
      BY <1>3 DEF StartOver, StreamInv, TypeOK
    <2> QED
      BY <1>1, <1>3, <2>1, RestartedConsole DEF StartOver
  <1>4. CASE Disconnect(c)
    BY <1>4, DisconnectStep
  <1>5. CASE \E after \in Position \cup {NoSeq} : ReplayFrom(c, after)
    <2>1. PICK after \in Position \cup {NoSeq} : ReplayFrom(c, after)
      BY <1>5
    <2>2. checks' \in [Reader -> SUBSET (Position \cup {Failed})]
      BY <2>1 DEF ReplayFrom, StreamInv, TypeOK
    <2> QED
      BY <1>1, <2>1, <2>2, ConnectedConsole DEF ReplayFrom
  <1> QED
    BY <1>2, <1>3, <1>4, <1>5 DEF Controls

\* The timer of a reconnection fires, or the reconnection goes on.
LEMMA RecoverStep ==
    ASSUME StreamInv, NEW c \in Reader, Recover(c)
    PROVE  StreamInv'
  <1>1. CASE Retry(c)
    <2>1. retry' \in [Reader -> {"none", "armed", "fired"}] /\ clicks' \in 0 .. MaxClicks
      BY <1>1 DEF Retry, StreamInv, TypeOK
    <2> QED
      BY <1>1, <2>1, AskSnapshotStep DEF Retry
  <1>2. CASE \E answer \in Position \cup {Failed} : Reconnect(c, answer)
    BY <1>2, ReconnectStep
  <1> QED
    BY <1>1, <1>2 DEF Recover

\* A new life: no position is of it yet, and nobody is subscribed.
LEMMA RestartStep ==
    ASSUME StreamInv, Restart
    PROVE  StreamInv'
  <1>1. /\ TypeOK /\ life <= MaxRestarts /\ life' = life + 1 /\ seq' = 0 /\ log' = <<>>
        /\ sub' = [r \in Reader |-> Off] /\ UNCHANGED thread
        /\ source' = [c \in Reader |-> IF source[c] = "open" THEN "broken" ELSE source[c]]
        /\ UNCHANGED <<asked, retry, checks, pos, of, told, breaks, clicks>>
        /\ life \in Nat \ {0}
        /\ MaxEvents \in Nat /\ MaxRestarts \in Nat /\ LogSize \in Nat
    BY BusAssumption, WebAssumption DEF StreamInv, TypeOK, BusTypeOK, Restart, RestartBus
  <1>2. Off \in Subscription
    BY <1>1, OffIsSound DEF Sound
  <1>3. BusTypeOK' /\ (life <= MaxRestarts + 1)'
    BY <1>1, <1>2 DEF TypeOK, BusTypeOK
  <1>4. LogIsTail'
    BY <1>1 DEF LogIsTail, EndsAt
  <1>5. TypeOK'
    BY <1>1, <1>3 DEF TypeOK
  <1>6. ASSUME NEW d \in Reader PROVE Served(d)' /\ Asks(d)' /\ Published(d)'
    <2>1. Served(d)'
      BY <1>1, OffIsSound DEF Served
    <2>2. source'[d] = "connecting" => source[d] = "connecting"
      BY <1>1
    <2>3. Asks(d)'
      BY <1>1, <2>2 DEF StreamInv, Asks
    <2>4. of[d] <= life /\ of[d] \in Nat
      BY ConsoleTypes DEF StreamInv, Published
    <2>5. Published(d)'
      BY <1>1, <2>4 DEF Published
    <2> QED
      BY <2>1, <2>3, <2>5
  <1> QED
    BY <1>4, <1>5, <1>6 DEF StreamInv

-----------------------------------------------------------------------------
(* The theorems.                                                            *)

\* The invariant that the theorems below rest on: queue and replay have no hole,
\* and what a console is owed starts right after its position.
THEOREM StreamInvHolds == Spec => []StreamInv
  <1>1. Init => StreamInv
    <2> SUFFICES ASSUME Init PROVE StreamInv
      OBVIOUS
    <2>1. Off \in Subscription
      BY OffIsSound DEF Sound
    <2>2. TypeOK /\ LogIsTail
      BY <2>1, BusAssumption, WebAssumption
         DEF Init, BusInit, TypeOK, BusTypeOK, LogIsTail, EndsAt, Position
    <2>3. ASSUME NEW c \in Reader PROVE Served(c) /\ Asks(c) /\ Published(c)
      <3>1. /\ sub[c] = Off /\ seq = 0 /\ seq \in Nat /\ asked[c] = 0 /\ pos[c] = 0
            /\ of[c] = 0 /\ life = 1
        BY DEF Init, BusInit
      <3>2. Served(c)
        BY <3>1, OffIsSound DEF Served
      <3> QED
        BY <3>1, <3>2, BusAssumption DEF Asks, Published
    <2> QED
      BY <2>2, <2>3 DEF StreamInv
  <1>2. StreamInv /\ [Next]_vars => StreamInv'
    <2> SUFFICES ASSUME StreamInv, [Next]_vars PROVE StreamInv'
      OBVIOUS
    <2>1. CASE Server /\ UNCHANGED <<client, breaks, clicks>>
      BY <2>1, PublishStep, ServeStep DEF Server
    <2>2. ASSUME NEW c \in Reader, Stream(c) PROVE StreamInv'
      BY <2>2, AcceptStep, DeliverStep, DeliverResyncStep DEF Stream
    <2>3. ASSUME NEW c \in Reader, OnError(c) \/ Recover(c) \/ Controls(c) PROVE StreamInv'
      BY <2>3, OnErrorStep, RecoverStep, ControlsStep
    <2>4. CASE Restart
      BY <2>4, RestartStep
    <2>5. CASE UNCHANGED vars
      BY <2>5 DEF vars, bus, client, StreamInv, TypeOK, BusTypeOK, LogIsTail, Served, Asks, Published
    <2> QED
      BY <2>1, <2>2, <2>3, <2>4, <2>5 DEF Next
  <1> QED
    BY <1>1, <1>2, PTL DEF Spec

\* Every reachable state of the bus and the consoles has the expected types.
THEOREM StreamTypeCorrect == Spec => []TypeOK
  <1>1. StreamInv => TypeOK
    BY DEF StreamInv
  <1> QED
    BY <1>1, StreamInvHolds, PTL

\* A console that has drained its subscription shows all of the life it shows.
THEOREM DrainedHolds == Spec => []DrainedMeansCurrent
  <1>1. StreamInv => DrainedMeansCurrent
    <2> SUFFICES ASSUME StreamInv, NEW c \in Reader, Drained(c), pos[c] = 0 \/ of[c] = life, ~told[c]
                 PROVE  pos[c] = seq
      BY DEF DrainedMeansCurrent
    <2>1. /\ sub[c] \in Subscription /\ sub[c].replay = <<>>
          /\ Unheard(sub[c], seq) <= sub[c].last /\ sub[c].last <= pos[c]
      BY DEF StreamInv, Served, Sound, Follows, Promised, Drained
    <2>2. Unheard(sub[c], seq) = seq
      BY ConsoleTypes DEF Drained, Unheard
    <2>3. of[c] = life => pos[c] <= seq
      BY DEF StreamInv, Published
    <2>4. sub[c].last \in Nat
      BY <2>1, SubscriptionTypes
    <2> QED
      BY <2>1, <2>2, <2>3, <2>4, ConsoleTypes
  <1> QED
    BY <1>1, StreamInvHolds, PTL

\* A console misses no event of a life, unless it was told or asked to.
THEOREM NoGapHolds == Spec => NoGapWithinALife
  <1> DEFINE Step == \A c \in Reader : pos'[c] > pos[c] => told[c] \/ pos'[c] = pos[c] + 1
  <1>1. StreamInv /\ [Next]_vars => Step
    <2> SUFFICES ASSUME StreamInv, [Next]_vars, NEW c \in Reader, pos'[c] > pos[c]
                 PROVE  told[c] \/ pos'[c] = pos[c] + 1
      OBVIOUS
    <2>1. pos[c] \in Nat /\ pos \in [Reader -> Position]
      BY ConsoleTypes DEF StreamInv, TypeOK
    <2>2. ASSUME NEW d \in Reader, NEW n \in Seqs, Deliver(d, n)
          PROVE  told[c] \/ pos'[c] = pos[c] + 1
      <3>1. d = c /\ n > pos[c] /\ pos'[c] = n /\ Yield(c, n)
        BY <2>1, <2>2 DEF Deliver
      <3>2. n \in Nat /\ (told[c] \/ n <= pos[c] + 1)
        BY <3>1, Yielded
      <3> QED
        BY <2>1, <3>1, <3>2
    <2>3. ASSUME NEW d \in Reader, Reset(d) PROVE FALSE
      <3>1. pos'[c] = pos[c] \/ pos'[c] = 0
        BY <2>1, <2>3 DEF Reset
      <3> QED
        BY <2>1, <3>1
    <2>4. ASSUME pos' = pos PROVE FALSE
      BY <2>1, <2>4
    <2>5. ASSUME NEW d \in Reader, Stream(d) \/ OnError(d) \/ Recover(d) \/ Controls(d)
          PROVE  told[c] \/ pos'[c] = pos[c] + 1
      BY <2>2, <2>3, <2>4, <2>5
         DEF Stream, Accept, DeliverResync, OnError, Recover, Retry, Reconnect, AskSnapshot,
             Controls, Resume, StartOver, Disconnect, ReplayFrom
    <2> QED
      BY <2>4, <2>5 DEF Next, Server, Restart, client, vars
  <1>2. Step => \A c \in Reader : pos'[c] > pos[c] /\ (pos[c] = 0 \/ of'[c] = of[c])
                                    => told[c] \/ pos'[c] = pos[c] + 1
    OBVIOUS
  <1>3. [Next]_vars /\ StreamInv =>
           [\A c \in Reader : pos'[c] > pos[c] /\ (pos[c] = 0 \/ of'[c] = of[c])
                                    => told[c] \/ pos'[c] = pos[c] + 1]_vars
    BY <1>1, <1>2
  <1> QED
    BY <1>3, StreamInvHolds, PTL DEF Spec, NoGapWithinALife
=============================================================================
