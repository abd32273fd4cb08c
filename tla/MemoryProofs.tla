---------------------------- MODULE MemoryProofs ----------------------------
(***************************************************************************)
(* Theorems of SessionMemory, LongTermMemory and AssetPool, for any runs,  *)
(* tools, extractions, sources, names and bounds.                          *)
(***************************************************************************)
EXTENDS SessionMemory, LongTermMemory, AssetPool, FiniteSetTheorems, SequenceTheorems,
        WellFoundedInduction, NaturalsInduction, TLAPS

\* Some natural numbers have a least one.
LEMMA LeastOf ==
    ASSUME NEW T \in SUBSET Nat, T # {}
    PROVE  \E n \in T : \A l \in T : n <= l
  <1>1. PICK n \in T : \A l \in T : ~(<<l, n>> \in OpToRel(<, Nat))
    BY NatLessThanWellFounded, WFMin
  <1>2. ASSUME NEW l \in T PROVE n <= l
    <2>1. n \in Nat /\ l \in Nat /\ <<l, n>> \notin OpToRel(<, Nat)
      BY <1>1
    <2> QED
      BY <2>1 DEF OpToRel
  <1> QED
    BY <1>1, <1>2

-----------------------------------------------------------------------------
(* What the stored rows are like: facts of a sequence of rows, of which n   *)
(* items were appended so far.                                              *)

StoredRow ==
    [seq : Nat, kind : {"user", "call", "output", "reply", "summary"}, call : Nat,
     tool : Tool \cup {"none"}, covers : SUBSET Nat]

Sorted(s) == \A i, j \in DOMAIN s : i < j => s[i].seq < s[j].seq

\* An item's number is not used before it, and a result says nothing itself.
Numbered(s, n) ==
    \A i \in DOMAIN s :
        /\ s[i].call <= n /\ s[i].covers \subseteq 1 .. n
        /\ s[i].kind = "output" => s[i].covers = {}

\* No other row is the same call, and its output comes after it.
Paired(s) ==
    \A i, j \in DOMAIN s :
        s[i].kind = "call" /\ s[j].call = s[i].call /\ s[j].kind \in {"call", "output"} =>
            i = j \/ (s[j].kind = "output" /\ i < j)

WellStored(s, n) == s \in Seq(StoredRow) /\ Sorted(s) /\ Numbered(s, n) /\ Paired(s)

\* The messages are in the order they were said.
SaidInOrder(s) ==
    \A i, j \in DOMAIN s : i < j => \A a \in s[i].covers, b \in s[j].covers : a < b

\* The messages that the first k rows stand for.
Covered(s, k) == UNION {s[i].covers : i \in 1 .. k}

\* The types of a row.
LEMMA RowTypes ==
    ASSUME NEW s \in Seq(StoredRow), NEW i \in DOMAIN s
    PROVE  s[i].seq \in Nat /\ s[i].call \in Nat /\ s[i].covers \subseteq Nat
  <1>1. s[i] \in StoredRow
    OBVIOUS
  <1> QED
    BY <1>1 DEF StoredRow

\* UpTo counts: there is a last row up to a number, as the rows are sorted.
LEMMA UpToCounts ==
    ASSUME NEW s \in Seq(StoredRow), Sorted(s), NEW n \in Nat
    PROVE  /\ UpTo(s, n) \in 0 .. Len(s)
           /\ \A i \in DOMAIN s : s[i].seq <= n <=> i <= UpTo(s, n)
  <1> DEFINE T == {k \in 0 .. Len(s) : \A i \in DOMAIN s : i > k => s[i].seq > n}
  <1>1. Len(s) \in T
    OBVIOUS
  <1>2. PICK k \in T : \A l \in T : k <= l
    <2>1. T \subseteq Nat
      OBVIOUS
    <2> HIDE DEF T
    <2> QED
      BY <1>1, <2>1, LeastOf
  <1>3. k \in 0 .. Len(s) /\ \A i \in DOMAIN s : i > k => s[i].seq > n
    OBVIOUS
  <1>4. k # 0 => s[k].seq <= n
    <2> SUFFICES ASSUME k # 0, ~(s[k].seq <= n) PROVE FALSE
      OBVIOUS
    <2>1. k - 1 \in 0 .. Len(s) /\ k \in DOMAIN s /\ k - 1 < k
      BY <1>3
    <2>2. s[k].seq \in Nat
      BY <2>1, RowTypes
    <2>3. \A i \in DOMAIN s : i > k - 1 => s[i].seq > n
      BY <1>3, <2>1, <2>2
    <2>4. k - 1 \in T
      BY <2>1, <2>3
    <2> QED
      BY <1>2, <2>1, <2>4
  <1>5. ASSUME NEW i \in DOMAIN s PROVE s[i].seq <= n <=> i <= k
    <2>1. s[i].seq \in Nat
      BY RowTypes
    <2>2. i > k => s[i].seq > n
      BY <1>3
    <2>3. CASE i <= k
      <3>1. k \in DOMAIN s /\ s[k].seq <= n
        BY <1>3, <1>4, <2>3
      <3>2. s[k].seq \in Nat
        BY <3>1, RowTypes
      <3>3. i < k => s[i].seq < s[k].seq
        BY <3>1 DEF Sorted
      <3> QED
        BY <1>3, <2>1, <2>3, <3>1, <3>2, <3>3
    <2> QED
      BY <1>3, <2>1, <2>2, <2>3
  <1>6. \E m \in 0 .. Len(s) : \A i \in DOMAIN s : s[i].seq <= n <=> i <= m
    BY <1>3, <1>5
  <1> QED
    BY <1>6 DEF UpTo

\* It is the only such count.
LEMMA UpToIs ==
    ASSUME NEW s \in Seq(StoredRow), Sorted(s), NEW n \in Nat, NEW k \in 0 .. Len(s),
           \A i \in DOMAIN s : s[i].seq <= n <=> i <= k
    PROVE  UpTo(s, n) = k
  <1> DEFINE u == UpTo(s, n)
  <1>1. u \in 0 .. Len(s) /\ \A i \in DOMAIN s : s[i].seq <= n <=> i <= u
    BY UpToCounts
  <1> HIDE DEF u
  <1>2. \A i \in 1 .. Len(s) : i <= k <=> i <= u
    BY <1>1
  <1>3. u = k
    BY <1>1, <1>2
  <1> QED
    BY <1>3 DEF u

-----------------------------------------------------------------------------
(* Appending, taking back and summarising, as operations on such a sequence. *)

\* A row with a number above all others goes to the end.
LEMMA InsertedLast ==
    ASSUME NEW s \in Seq(StoredRow), Sorted(s), NEW new \in StoredRow,
           \A i \in DOMAIN s : s[i].seq < new.seq
    PROVE  Inserted(s, new) = Append(s, new)
  <1>1. new.seq \in Nat
    BY DEF StoredRow
  <1>2. \A i \in DOMAIN s : s[i].seq <= new.seq <=> i <= Len(s)
    BY <1>1, RowTypes
  <1>3. Len(s) \in 0 .. Len(s) /\ Len(s) \in Nat
    OBVIOUS
  <1>4. UpTo(s, new.seq) = Len(s)
    BY <1>1, <1>2, <1>3, UpToIs
  <1>5. SubSeq(s, 1, Len(s)) = s /\ SubSeq(s, Len(s) + 1, Len(s)) = <<>>
    BY <1>3, SubSeqFull, SubSeqEmpty
  <1>6. s \o <<new>> \in Seq(StoredRow)
    OBVIOUS
  <1>7. s \o <<new>> \o <<>> = s \o <<new>>
    BY <1>6, ConcatEmptySeq
  <1>8. s \o <<new>> = Append(s, new)
    OBVIOUS
  <1> QED
    BY <1>4, <1>5, <1>7, <1>8 DEF Inserted

\* A new item keeps what the rows are like, and says what it says.
LEMMA AppendStored ==
    ASSUME NEW n \in Nat, NEW m \in Nat, n <= m,
           NEW s, WellStored(s, n), NEW new \in StoredRow,
           \A i \in DOMAIN s : s[i].seq < new.seq,
           new.call <= m, new.covers \subseteq n + 1 .. m,
           new.kind = "output" => new.covers = {},
           new.kind = "call" => new.call > n
    PROVE  /\ WellStored(Append(s, new), m)
           /\ Covered(Append(s, new), Len(s) + 1) = Covered(s, Len(s)) \cup new.covers
           /\ SaidInOrder(s) => SaidInOrder(Append(s, new))
  <1> DEFINE t == Append(s, new)
  <1>1. s \in Seq(StoredRow) /\ t \in Seq(StoredRow)
    BY DEF WellStored
  <1>2. /\ DOMAIN t = 1 .. Len(s) + 1 /\ t[Len(s) + 1] = new /\ DOMAIN s = 1 .. Len(s)
        /\ \A i \in DOMAIN s : t[i] = s[i]
    BY <1>1
  <1> HIDE DEF t
  <1>3. Sorted(t)
    BY <1>1, <1>2 DEF WellStored, Sorted
  <1>4. Numbered(t, m)
    <2> SUFFICES ASSUME NEW i \in DOMAIN t
                 PROVE  /\ t[i].call <= m /\ t[i].covers \subseteq 1 .. m
                        /\ t[i].kind = "output" => t[i].covers = {}
      BY DEF Numbered
    <2>1. CASE i \in DOMAIN s
      BY <1>1, <1>2, <2>1, RowTypes DEF WellStored, Numbered
    <2>2. CASE i = Len(s) + 1
      BY <1>2, <2>2
    <2> QED
      BY <1>2, <2>1, <2>2
  <1>5. Paired(t)
    <2> SUFFICES ASSUME NEW i \in DOMAIN t, NEW j \in DOMAIN t,
                        t[i].kind = "call", t[j].call = t[i].call,
                        t[j].kind \in {"call", "output"}
                 PROVE  i = j \/ (t[j].kind = "output" /\ i < j)
      BY DEF Paired
    <2>1. CASE i \in DOMAIN s /\ j \in DOMAIN s
      BY <1>2, <2>1 DEF WellStored, Paired
    <2>2. CASE i \in DOMAIN s /\ j = Len(s) + 1
      <3>1. s[i].call \in Nat /\ s[i].call <= n /\ new.call \in Nat
        BY <1>1, <2>2, RowTypes DEF WellStored, Numbered, StoredRow
      <3> QED
        BY <1>2, <2>2, <3>1
    <2>3. CASE i = Len(s) + 1 /\ j \in DOMAIN s
      <3>1. s[j].call \in Nat /\ s[j].call <= n /\ new.call \in Nat
        BY <1>1, <2>3, RowTypes DEF WellStored, Numbered, StoredRow
      <3> QED
        BY <1>2, <2>3, <3>1
    <2> QED
      BY <1>2, <2>1, <2>2, <2>3
  <1>6. Covered(t, Len(s) + 1) = Covered(s, Len(s)) \cup new.covers
    <2>1. Len(s) \in Nat
      BY <1>1
    <2>2. 1 .. Len(s) + 1 = 1 .. Len(s) \cup {Len(s) + 1}
      BY <2>1
    <2>3. \A i \in 1 .. Len(s) : t[i].covers = s[i].covers
      BY <1>2
    <2> QED
      BY <1>2, <2>2, <2>3 DEF Covered
  <1>7. ASSUME SaidInOrder(s) PROVE SaidInOrder(t)
    <2> SUFFICES ASSUME NEW i \in DOMAIN t, NEW j \in DOMAIN t, i < j,
                        NEW a \in t[i].covers, NEW b \in t[j].covers
                 PROVE  a < b
      BY DEF SaidInOrder
    <2>1. i \in DOMAIN s
      BY <1>1, <1>2
    <2>2. a \in s[i].covers /\ a \in 1 .. n
      BY <1>2, <2>1 DEF WellStored, Numbered
    <2>3. CASE j \in DOMAIN s
      BY <1>2, <1>7, <2>1, <2>3 DEF SaidInOrder
    <2>4. CASE j = Len(s) + 1
      BY <1>2, <2>2, <2>4
    <2> QED
      BY <1>2, <2>3, <2>4
  <1> QED
    BY <1>1, <1>3, <1>4, <1>5, <1>6, <1>7 DEF t, WellStored

\* Taking back the last item keeps what the rows are like.
LEMMA PopStored ==
    ASSUME NEW n \in Nat, NEW s, WellStored(s, n), s # <<>>
    PROVE  LET t == SubSeq(s, 1, Len(s) - 1) IN
           /\ WellStored(t, n) /\ Len(t) = Len(s) - 1
           /\ SaidInOrder(s) => /\ SaidInOrder(t)
                            /\ Covered(t, Len(t)) = Covered(s, Len(s)) \ s[Len(s)].covers
  <1> DEFINE t == SubSeq(s, 1, Len(s) - 1)
  <1>1. s \in Seq(StoredRow) /\ Len(s) \in Nat \ {0} /\ DOMAIN s = 1 .. Len(s)
    BY DEF WellStored
  <1>2. /\ t \in Seq(StoredRow) /\ Len(t) = Len(s) - 1 /\ DOMAIN t = 1 .. Len(s) - 1
        /\ \A i \in DOMAIN t : t[i] = s[i] /\ i \in DOMAIN s
    BY <1>1
  <1> HIDE DEF t
  <1>3. Sorted(t) /\ Numbered(t, n) /\ Paired(t)
    BY <1>2 DEF WellStored, Sorted, Numbered, Paired
  <1>4. ASSUME SaidInOrder(s)
        PROVE  SaidInOrder(t) /\ Covered(t, Len(t)) = Covered(s, Len(s)) \ s[Len(s)].covers
    <2>1. SaidInOrder(t)
      BY <1>2, <1>4 DEF SaidInOrder
    <2>2. Covered(t, Len(t)) = Covered(s, Len(s) - 1)
      BY <1>2 DEF Covered
    <2>3. 1 .. Len(s) = (1 .. Len(s) - 1) \cup {Len(s)}
      BY <1>1
    <2>4. Covered(s, Len(s)) = Covered(s, Len(s) - 1) \cup s[Len(s)].covers
      BY <2>3 DEF Covered
    <2>5. ASSUME NEW i \in 1 .. Len(s) - 1, NEW a \in s[i].covers PROVE a \notin s[Len(s)].covers
      <3>1. i \in DOMAIN s /\ Len(s) \in DOMAIN s /\ i < Len(s)
        BY <1>1
      <3>2. a \in Nat
        BY <1>1, <3>1, RowTypes
      <3> QED
        BY <1>4, <3>1, <3>2 DEF SaidInOrder
    <2>6. Covered(s, Len(s) - 1) \cap s[Len(s)].covers = {}
      BY <2>5 DEF Covered
    <2> QED
      BY <2>1, <2>2, <2>4, <2>6
  <1> QED
    BY <1>2, <1>3, <1>4 DEF t, WellStored

\* The rows with a summary in the place of the first cut.
Summarised(s, cut, summary) == <<summary>> \o SubSeq(s, cut + 1, Len(s))

\* t is such a sequence, row by row.
Moved(s, cut, summary, t) ==
    /\ t \in Seq(StoredRow) /\ Len(t) = Len(s) - cut + 1 /\ DOMAIN t = 1 .. Len(t)
    /\ t[1] = summary /\ t # <<>>
    /\ \A i \in DOMAIN t : i # 1 =>
          t[i] = s[i + cut - 1] /\ i + cut - 1 \in DOMAIN s /\ i + cut - 1 > cut

\* Where its rows are.
LEMMA SummarisedRows ==
    ASSUME NEW s \in Seq(StoredRow), NEW cut \in 1 .. Len(s), NEW summary \in StoredRow
    PROVE  Moved(s, cut, summary, Summarised(s, cut, summary))
  <1> DEFINE u == SubSeq(s, cut + 1, Len(s))
  <1>1. /\ u \in Seq(StoredRow) /\ Len(u) = Len(s) - cut
        /\ \A i \in 1 .. Len(u) : u[i] = s[i + cut]
    OBVIOUS
  <1> HIDE DEF u
  <1> DEFINE t == <<summary>> \o u
  <1>2. /\ t \in Seq(StoredRow) /\ Len(t) = Len(u) + 1 /\ t[1] = summary
        /\ \A i \in 1 .. Len(u) + 1 : i # 1 => t[i] = u[i - 1]
    <2>1. <<summary>> \in Seq(StoredRow) /\ Len(<<summary>>) = 1 /\ <<summary>>[1] = summary
      OBVIOUS
    <2>2. /\ t \in Seq(StoredRow) /\ Len(t) = 1 + Len(u)
          /\ \A i \in 1 .. 1 + Len(u) : t[i] = IF i <= 1 THEN <<summary>>[i] ELSE u[i - 1]
      BY <1>1, <2>1, ConcatProperties
    <2> QED
      BY <1>1, <2>1, <2>2
  <1> HIDE DEF t
  <1>3. DOMAIN t = 1 .. Len(t) /\ t # <<>>
    BY <1>1, <1>2
  <1>4. ASSUME NEW i \in DOMAIN t, i # 1
        PROVE  t[i] = s[i + cut - 1] /\ i + cut - 1 \in DOMAIN s /\ i + cut - 1 > cut
    <2>1. i \in 2 .. Len(u) + 1 /\ Len(u) = Len(s) - cut
      BY <1>1, <1>2, <1>3, <1>4
    <2>2. t[i] = u[i - 1] /\ i - 1 \in 1 .. Len(u)
      BY <1>2, <2>1
    <2>3. u[i - 1] = s[i - 1 + cut]
      BY <1>1, <2>2
    <2> QED
      BY <2>1, <2>2, <2>3
  <1>5. t = Summarised(s, cut, summary)
    BY DEF t, u, Summarised
  <1> QED
    BY <1>1, <1>2, <1>3, <1>4, <1>5 DEF Moved

\* A summary of the first rows keeps what the rows are like, and if it covers
\* what they covered, what the history says.
LEMMA SummarisedStored ==
    ASSUME NEW n \in Nat, NEW s, WellStored(s, n), NEW cut \in 1 .. Len(s),
           NEW summary \in StoredRow, summary.kind = "summary",
           summary.call = 0, summary.covers \subseteq 1 .. n,
           \A i \in DOMAIN s : s[i].seq <= summary.seq <=> i <= cut
    PROVE  LET t == Summarised(s, cut, summary) IN
           /\ WellStored(t, n)
           /\ SaidInOrder(s) /\ summary.covers = Covered(s, cut) =>
                 SaidInOrder(t) /\ Covered(t, Len(t)) = Covered(s, Len(s))
  <1> DEFINE t == Summarised(s, cut, summary)
  <1>1. s \in Seq(StoredRow) /\ Len(s) \in Nat /\ DOMAIN s = 1 .. Len(s)
    BY DEF WellStored
  <1>2. /\ t \in Seq(StoredRow) /\ Len(t) = Len(s) - cut + 1 /\ DOMAIN t = 1 .. Len(t)
        /\ t[1] = summary
        /\ \A i \in DOMAIN t : i # 1 =>
              t[i] = s[i + cut - 1] /\ i + cut - 1 \in DOMAIN s /\ i + cut - 1 > cut
    <2>1. Moved(s, cut, summary, t)
      BY <1>1, SummarisedRows
    <2> QED
      BY <2>1 DEF Moved
  <1> HIDE DEF t
  <1>3. summary.seq \in Nat
    BY DEF StoredRow
  <1>4. Sorted(t)
    <2> SUFFICES ASSUME NEW i \in DOMAIN t, NEW j \in DOMAIN t, i < j
                 PROVE  t[i].seq < t[j].seq
      BY DEF Sorted
    <2>1. j # 1 /\ i \in Int /\ j \in Int
      BY <1>2
    <2>2. t[j] = s[j + cut - 1] /\ j + cut - 1 \in DOMAIN s /\ j + cut - 1 > cut
      BY <1>2, <2>1
    <2>3. CASE i = 1
      BY <1>2, <1>3, <2>2, <2>3, <1>1, RowTypes
    <2>4. CASE i # 1
      <3>1. t[i] = s[i + cut - 1] /\ i + cut - 1 \in DOMAIN s
        BY <1>2, <2>4
      <3>2. i + cut - 1 < j + cut - 1
        BY <2>1
      <3> QED
        BY <2>2, <3>1, <3>2 DEF WellStored, Sorted
    <2> QED
      BY <2>3, <2>4
  <1>5. Numbered(t, n)
    BY <1>2 DEF WellStored, Numbered
  <1>6. Paired(t)
    <2> SUFFICES ASSUME NEW i \in DOMAIN t, NEW j \in DOMAIN t,
                        t[i].kind = "call", t[j].call = t[i].call,
                        t[j].kind \in {"call", "output"}
                 PROVE  i = j \/ (t[j].kind = "output" /\ i < j)
      BY DEF Paired
    <2>1. i # 1 /\ j # 1 /\ i \in Int /\ j \in Int
      BY <1>2
    <2>2. /\ t[i] = s[i + cut - 1] /\ i + cut - 1 \in DOMAIN s
          /\ t[j] = s[j + cut - 1] /\ j + cut - 1 \in DOMAIN s
      BY <1>2, <2>1
    <2>3. i + cut - 1 = j + cut - 1 \/ (t[j].kind = "output" /\ i + cut - 1 < j + cut - 1)
      BY <2>2 DEF WellStored, Paired
    <2> QED
      BY <2>1, <2>3
  <1>7. ASSUME SaidInOrder(s), summary.covers = Covered(s, cut)
        PROVE  SaidInOrder(t) /\ Covered(t, Len(t)) = Covered(s, Len(s))
    <2>1. SaidInOrder(t)
      <3> SUFFICES ASSUME NEW i \in DOMAIN t, NEW j \in DOMAIN t, i < j,
                          NEW a \in t[i].covers, NEW b \in t[j].covers
                   PROVE  a < b
        BY DEF SaidInOrder
      <3>1. j # 1 /\ i \in Int /\ j \in Int
        BY <1>2
      <3>2. b \in s[j + cut - 1].covers /\ j + cut - 1 \in DOMAIN s /\ j + cut - 1 > cut
        BY <1>2, <3>1
      <3>3. PICK h \in DOMAIN s : h < j + cut - 1 /\ a \in s[h].covers
        <4>1. CASE i = 1
          <5>1. PICK h \in 1 .. cut : a \in s[h].covers
            BY <1>2, <1>7, <4>1 DEF Covered
          <5> QED
            BY <1>1, <3>1, <3>2, <5>1
        <4>2. CASE i # 1
          BY <1>2, <3>1, <4>2
        <4> QED
          BY <4>1, <4>2
      <3> QED
        BY <1>7, <3>2, <3>3 DEF SaidInOrder
    <2>2. Covered(t, Len(t)) \subseteq Covered(s, Len(s))
      <3> SUFFICES ASSUME NEW i \in DOMAIN t, NEW a \in t[i].covers
                   PROVE  \E h \in DOMAIN s : a \in s[h].covers
        BY <1>1, <1>2 DEF Covered
      <3>1. CASE i = 1
        BY <1>1, <1>2, <1>7, <3>1 DEF Covered
      <3>2. CASE i # 1
        BY <1>2, <3>2
      <3> QED
        BY <3>1, <3>2
    <2>3. Covered(s, Len(s)) \subseteq Covered(t, Len(t))
      <3> SUFFICES ASSUME NEW h \in DOMAIN s, NEW a \in s[h].covers
                   PROVE  \E i \in DOMAIN t : a \in t[i].covers
        BY <1>1, <1>2 DEF Covered
      <3>1. CASE h <= cut
        <4>1. 1 \in DOMAIN t /\ a \in Covered(s, cut)
          BY <1>1, <1>2, <3>1 DEF Covered
        <4> QED
          BY <1>2, <1>7, <4>1
      <3>2. CASE h > cut
        <4>1. h - cut + 1 \in DOMAIN t /\ h - cut + 1 # 1 /\ h - cut + 1 + cut - 1 = h
          BY <1>1, <1>2, <3>2
        <4> QED
          BY <1>2, <4>1
      <3> QED
        BY <1>1, <3>1, <3>2
    <2> QED
      BY <2>1, <2>2, <2>3
  <1> QED
    BY <1>2, <1>4, <1>5, <1>6, <1>7 DEF t, WellStored

-----------------------------------------------------------------------------
(* A run that awaits the summary of the rows up to cut_seq.  Those rows may  *)
(* be fewer when the summary comes, but not others: unless they were        *)
(* removed, a row with that number or a later summary is there, and new     *)
(* rows have higher numbers.                                                *)

Awaited(s, a) ==
    /\ UpTo(s, a.cut_seq) <= a.cut
    /\ UpTo(s, a.cut_seq) = a.cut => a.covers = Covered(s, a.cut)
    /\ \/ \E i \in DOMAIN s : s[i].seq = a.cut_seq
       \/ s # <<>> /\ s[1].kind = "summary" /\ s[1].seq > a.cut_seq

\* A new item does not come under the cut.
LEMMA AwaitedAppend ==
    ASSUME NEW n \in Nat, NEW s, WellStored(s, n), NEW new \in StoredRow,
           \A i \in DOMAIN s : s[i].seq < new.seq,
           NEW a, a.cut_seq \in Nat, a.cut \in Nat, Awaited(s, a)
    PROVE  Awaited(Append(s, new), a)
  <1> DEFINE t == Append(s, new)
             k == UpTo(s, a.cut_seq)
  <1>1. s \in Seq(StoredRow) /\ Sorted(s)
    BY DEF WellStored
  <1>2. /\ t \in Seq(StoredRow) /\ Len(t) = Len(s) + 1 /\ t[Len(s) + 1] = new
        /\ DOMAIN t = 1 .. Len(s) + 1 /\ DOMAIN s = 1 .. Len(s) /\ Len(s) \in Nat
        /\ \A i \in DOMAIN s : t[i] = s[i]
    BY <1>1
  <1>3. k \in 0 .. Len(s) /\ \A i \in DOMAIN s : s[i].seq <= a.cut_seq <=> i <= k
    BY <1>1, UpToCounts
  <1> HIDE DEF t, k
  <1>4. Sorted(t)
    BY <1>1, <1>2 DEF Sorted
  <1>5. new.seq > a.cut_seq /\ new.seq \in Nat
    <2>1. PICK i \in DOMAIN s : s[i].seq >= a.cut_seq
      <3>1. CASE \E i \in DOMAIN s : s[i].seq = a.cut_seq
        BY <3>1
      <3>2. CASE s # <<>> /\ s[1].kind = "summary" /\ s[1].seq > a.cut_seq
        <4>1. 1 \in DOMAIN s
          BY <1>1, <3>2
        <4>2. s[1].seq \in Nat
          BY <1>1, <4>1, RowTypes
        <4> QED
          BY <3>2, <4>1, <4>2
      <3> QED
        BY <3>1, <3>2 DEF Awaited
    <2>2. s[i].seq \in Nat /\ s[i].seq < new.seq
      BY <1>1, RowTypes
    <2>3. new.seq \in Nat
      BY DEF StoredRow
    <2> QED
      BY <2>1, <2>2, <2>3
  <1>6. UpTo(t, a.cut_seq) = k
    <2>1. \A i \in DOMAIN t : t[i].seq <= a.cut_seq <=> i <= k
      BY <1>2, <1>3, <1>5
    <2>2. k \in 0 .. Len(t)
      BY <1>2, <1>3
    <2> QED
      BY <1>2, <1>4, <2>1, <2>2, UpToIs
  <1>7. Covered(t, k) = Covered(s, k)
    <2>1. \A i \in 1 .. k : t[i] = s[i]
      BY <1>2, <1>3
    <2> QED
      BY <2>1 DEF Covered
  <1>8. \/ \E i \in DOMAIN t : t[i].seq = a.cut_seq
        \/ t # <<>> /\ t[1].kind = "summary" /\ t[1].seq > a.cut_seq
    <2>1. CASE \E i \in DOMAIN s : s[i].seq = a.cut_seq
      BY <1>2, <2>1
    <2>2. CASE s # <<>> /\ s[1].kind = "summary" /\ s[1].seq > a.cut_seq
      <3>1. 1 \in DOMAIN s
        BY <1>1, <2>2
      <3> QED
        BY <1>2, <2>2, <3>1
    <2> QED
      BY <2>1, <2>2 DEF Awaited
  <1> QED
    BY <1>6, <1>7, <1>8 DEF Awaited, t, k

\* Nor does taking back an item that is not under the cut move it.
LEMMA AwaitedPop ==
    ASSUME NEW n \in Nat, NEW s, WellStored(s, n), s # <<>>,
           NEW a, a.cut_seq \in Nat, a.cut \in Nat, Awaited(s, a),
           s[Len(s)].seq > a.cut_seq, s[Len(s)].kind # "summary"
    PROVE  Awaited(SubSeq(s, 1, Len(s) - 1), a)
  <1> DEFINE t == SubSeq(s, 1, Len(s) - 1)
             k == UpTo(s, a.cut_seq)
  <1>1. s \in Seq(StoredRow) /\ Sorted(s) /\ Len(s) \in Nat \ {0} /\ DOMAIN s = 1 .. Len(s)
    BY DEF WellStored
  <1>2. /\ t \in Seq(StoredRow) /\ Len(t) = Len(s) - 1 /\ DOMAIN t = 1 .. Len(s) - 1
        /\ \A i \in DOMAIN t : t[i] = s[i] /\ i \in DOMAIN s
    BY <1>1
  <1>3. k \in 0 .. Len(s) /\ \A i \in DOMAIN s : s[i].seq <= a.cut_seq <=> i <= k
    BY <1>1, UpToCounts
  <1> HIDE DEF t, k
  <1>4. Sorted(t)
    BY <1>1, <1>2 DEF Sorted
  <1>5. k <= Len(s) - 1
    <2>1. s[Len(s)].seq \in Nat /\ Len(s) \in DOMAIN s
      BY <1>1, RowTypes
    <2>2. ~(s[Len(s)].seq <= a.cut_seq)
      BY <2>1
    <2> QED
      BY <1>1, <1>3, <2>1, <2>2
  <1>6. UpTo(t, a.cut_seq) = k
    <2>1. \A i \in DOMAIN t : t[i].seq <= a.cut_seq <=> i <= k
      BY <1>2, <1>3
    <2>2. k \in 0 .. Len(t)
      BY <1>1, <1>2, <1>3, <1>5
    <2> QED
      BY <1>2, <1>4, <2>1, <2>2, UpToIs
  <1>7. Covered(t, k) = Covered(s, k)
    <2>1. \A i \in 1 .. k : t[i] = s[i]
      BY <1>1, <1>2, <1>3, <1>5
    <2> QED
      BY <2>1 DEF Covered
  <1>8. \/ \E i \in DOMAIN t : t[i].seq = a.cut_seq
        \/ t # <<>> /\ t[1].kind = "summary" /\ t[1].seq > a.cut_seq
    <2>1. ASSUME NEW i \in DOMAIN s, s[i].seq = a.cut_seq
          PROVE  i \in DOMAIN t
      <3>1. i # Len(s)
        BY <2>1
      <3> QED
        BY <1>1, <1>2, <3>1
    <2>2. CASE s # <<>> /\ s[1].kind = "summary" /\ s[1].seq > a.cut_seq
      <3>1. Len(s) # 1
        BY <2>2
      <3>2. 1 \in DOMAIN t
        BY <1>1, <1>2, <3>1
      <3>3. t # <<>>
        BY <3>2
      <3> QED
        BY <1>2, <2>2, <3>2, <3>3
    <2> QED
      BY <1>2, <2>1, <2>2 DEF Awaited
  <1> QED
    BY <1>6, <1>7, <1>8 DEF Awaited, t, k

\* Another run's summary makes the rows fewer, or stands for the same rows.
LEMMA AwaitedSummarised ==
    ASSUME NEW n \in Nat, NEW s, WellStored(s, n), NEW cut \in 1 .. Len(s),
           NEW summary \in StoredRow, summary.kind = "summary", summary.call = 0,
           summary.covers = Covered(s, cut), summary.covers \subseteq 1 .. n,
           \A i \in DOMAIN s : s[i].seq <= summary.seq <=> i <= cut,
           NEW a, a.cut_seq \in Nat, a.cut \in Nat \ {0}, Awaited(s, a)
    PROVE  Awaited(Summarised(s, cut, summary), a)
  <1> DEFINE t == Summarised(s, cut, summary)
             k == UpTo(s, a.cut_seq)
  <1>1. s \in Seq(StoredRow) /\ Sorted(s) /\ Len(s) \in Nat /\ DOMAIN s = 1 .. Len(s)
    BY DEF WellStored
  <1>2. Moved(s, cut, summary, t)
    BY <1>1, SummarisedRows
  <1>3. Sorted(t) /\ summary.seq \in Nat
    BY SummarisedStored DEF WellStored, StoredRow
  <1>4. k \in 0 .. Len(s) /\ \A i \in DOMAIN s : s[i].seq <= a.cut_seq <=> i <= k
    BY <1>1, UpToCounts
  <1> HIDE DEF t, k
  <1>5. /\ t \in Seq(StoredRow) /\ Len(t) = Len(s) - cut + 1 /\ DOMAIN t = 1 .. Len(t)
        /\ t[1] = summary /\ t # <<>> /\ 1 \in DOMAIN t
        /\ \A i \in DOMAIN t : i # 1 =>
              t[i] = s[i + cut - 1] /\ i + cut - 1 \in DOMAIN s /\ i + cut - 1 > cut
    BY <1>1, <1>2 DEF Moved
  <1>6. CASE summary.seq <= a.cut_seq
    <2>1. cut <= k
      <3>1. cut \in DOMAIN s /\ s[cut].seq \in Nat
        BY <1>1, RowTypes
      <3>2. s[cut].seq <= summary.seq
        BY <3>1
      <3> QED
        BY <1>3, <1>4, <1>6, <3>1, <3>2
    <2>2. UpTo(t, a.cut_seq) = k - cut + 1
      <3>1. \A i \in DOMAIN t : t[i].seq <= a.cut_seq <=> i <= k - cut + 1
        <4> TAKE i \in DOMAIN t
        <4>1. CASE i = 1
          BY <1>4, <1>5, <1>6, <2>1, <4>1
        <4>2. CASE i # 1
          <5>1. t[i] = s[i + cut - 1] /\ i + cut - 1 \in DOMAIN s
            BY <1>5, <4>2
          <5> QED
            BY <1>4, <1>5, <5>1
        <4> QED
          BY <4>1, <4>2
      <3>2. k - cut + 1 \in 0 .. Len(t)
        BY <1>4, <1>5, <2>1
      <3> QED
        BY <1>3, <1>5, <3>1, <3>2, UpToIs
    <2>3. k <= a.cut /\ (k = a.cut => a.covers = Covered(s, a.cut))
      BY DEF Awaited, k
    <2>4. ASSUME k - cut + 1 = a.cut
          PROVE  a.covers = Covered(t, a.cut)
      <3>1. cut = 1 /\ k = a.cut
        BY <1>4, <2>3, <2>4
      <3>2. ASSUME NEW i \in 1 .. a.cut PROVE t[i].covers = s[i].covers
        <4>1. i \in DOMAIN t
          BY <1>4, <1>5, <3>1
        <4>2. CASE i = 1
          <5>1. summary.covers = s[1].covers
            BY <3>1 DEF Covered
          <5> QED
            BY <1>5, <4>2, <5>1
        <4>3. CASE i # 1
          BY <1>5, <3>1, <4>1, <4>3
        <4> QED
          BY <4>2, <4>3
      <3>3. Covered(t, a.cut) = Covered(s, a.cut)
        BY <3>2 DEF Covered
      <3> QED
        BY <2>3, <3>1, <3>3
    <2>5. \E i \in DOMAIN t : t[i].seq = a.cut_seq
      <3>1. ~(s[1].seq > a.cut_seq)
        <4>1. 1 \in DOMAIN s /\ s[1].seq \in Nat
          BY <1>1, RowTypes
        <4>2. s[1].seq <= summary.seq
          BY <4>1
        <4> QED
          BY <1>3, <1>6, <4>1, <4>2
      <3>2. PICK i \in DOMAIN s : s[i].seq = a.cut_seq
        BY <3>1 DEF Awaited
      <3>3. CASE i <= cut
        <4>1. s[i].seq <= summary.seq
          BY <3>3
        <4>2. summary.seq = a.cut_seq
          BY <1>3, <1>6, <3>2, <4>1
        <4> QED
          BY <1>5, <4>2
      <3>4. CASE i > cut
        <4>1. i - cut + 1 \in DOMAIN t /\ i - cut + 1 # 1 /\ i - cut + 1 + cut - 1 = i
          BY <1>1, <1>5, <3>4
        <4> QED
          BY <1>5, <3>2, <4>1
      <3> QED
        BY <1>1, <3>3, <3>4
    <2>6. k - cut + 1 <= a.cut
      BY <1>4, <2>3
    <2> QED
      BY <2>2, <2>4, <2>5, <2>6 DEF Awaited, t
  <1>7. CASE summary.seq > a.cut_seq
    <2>1. UpTo(t, a.cut_seq) = 0
      <3>1. ASSUME NEW i \in DOMAIN t PROVE ~(t[i].seq <= a.cut_seq)
        <4>1. CASE i = 1
          BY <1>3, <1>5, <1>7, <4>1
        <4>2. CASE i # 1
          <5>1. t[i] = s[i + cut - 1] /\ i + cut - 1 \in DOMAIN s /\ i + cut - 1 > cut
            BY <1>5, <4>2
          <5>2. s[i + cut - 1].seq \in Nat /\ ~(s[i + cut - 1].seq <= summary.seq)
            BY <1>1, <5>1, RowTypes
          <5> QED
            BY <1>3, <1>7, <5>1, <5>2
        <4> QED
          BY <4>1, <4>2
      <3>2. 0 \in 0 .. Len(t) /\ \A i \in DOMAIN t : t[i].seq <= a.cut_seq <=> i <= 0
        BY <1>5, <3>1
      <3> QED
        BY <1>3, <1>5, <3>2, UpToIs
    <2> QED
      BY <1>5, <1>7, <2>1 DEF Awaited, t
  <1> QED
    BY <1>3, <1>6, <1>7

-----------------------------------------------------------------------------
(* The stored conversation and its runs.                                    *)

\* The records of runs, with n items appended.
RunRows(n) ==
    [at : {"idle", "compacting", "start", "turn"}, cut : Nat, cut_seq : Nat,
     covers : SUBSET (1 .. n), call : 0 .. n, last : Nat]

Stored ==
    /\ WellStored(rows, appended)
    /\ appended \in 0 .. MaxItems
    /\ run \in [Run -> RunRows(appended)]
    /\ \A r \in Run : run[r].at = "compacting" => run[r].cut # 0

\* What a history of items, the messages said and the runs agree on.
WholeIn(s, messages, runs) ==
    /\ SaidInOrder(s)
    /\ messages = Covered(s, Len(s))
    /\ \A r \in Run : runs[r].at = "compacting" => Awaited(s, runs[r])

MemoryInv == Stored /\ (~undercut => WholeIn(rows, said, run))

\* An item a run may store when n are appended, one of the items up to m.
NewItem(item, n, m) ==
    /\ item \in StoredRow
    /\ item.call <= m /\ item.covers \subseteq n + 1 .. m
    /\ item.kind = "output" => item.covers = {}
    /\ item.kind = "call" => item.call > n

Under(item, k) == [item EXCEPT !.seq = k]

\* With new at its end a sequence of rows is as it should be.
Grows(s, new, m, messages, runs) ==
    /\ Inserted(s, new) = Append(s, new)
    /\ WellStored(Append(s, new), m)
    /\ WholeIn(s, messages, runs) =>
          WholeIn(Append(s, new), messages \cup new.covers, runs)

\* Stored under the next number, an item keeps the history whole.
LEMMA AddOne ==
    ASSUME NEW n \in Nat, NEW m \in Nat, n <= m, NEW s, WellStored(s, n),
           NEW item, NewItem(item, n, m), NEW k \in Nat,
           \A i \in DOMAIN s : s[i].seq < k,
           NEW messages, NEW runs,
           \A r \in Run : runs[r].cut_seq \in Nat /\ runs[r].cut \in Nat
    PROVE  /\ Grows(s, Under(item, k), m, messages, runs)
           /\ Under(item, k).covers = item.covers
  <1> DEFINE new == Under(item, k)
  <1>1. s \in Seq(StoredRow) /\ Sorted(s)
    BY DEF WellStored
  <1>2. /\ new \in StoredRow /\ new.seq = k /\ new.call = item.call
        /\ new.covers = item.covers /\ new.kind = item.kind
    BY DEF NewItem, StoredRow, Under
  <1> HIDE DEF new
  <1>3. Inserted(s, new) = Append(s, new)
    BY <1>1, <1>2, InsertedLast
  <1>4. /\ WellStored(Append(s, new), m)
        /\ Covered(Append(s, new), Len(s) + 1) = Covered(s, Len(s)) \cup new.covers
        /\ SaidInOrder(s) => SaidInOrder(Append(s, new))
    BY <1>2, AppendStored DEF NewItem
  <1>5. Len(Append(s, new)) = Len(s) + 1
    BY <1>1, <1>2
  <1>6. ASSUME NEW r \in Run, Awaited(s, runs[r]) PROVE Awaited(Append(s, new), runs[r])
    BY <1>2, <1>6, AwaitedAppend
  <1> QED
    BY <1>2, <1>3, <1>4, <1>5, <1>6 DEF WholeIn, Grows, new

\* The number that add_items gives next is above all others.
LEMMA NextSeqIsLast ==
    ASSUME Stored
    PROVE  /\ NextSeq(1) \in Nat /\ NextSeq(2) = NextSeq(1) + 1
           /\ \A i \in DOMAIN rows : rows[i].seq < NextSeq(1)
  <1>1. rows \in Seq(StoredRow) /\ Sorted(rows) /\ Len(rows) \in Nat /\ DOMAIN rows = 1 .. Len(rows)
    BY DEF Stored, WellStored
  <1>2. CASE rows = <<>>
    BY <1>1, <1>2 DEF NextSeq
  <1>3. CASE rows # <<>>
    <2>1. Len(rows) \in DOMAIN rows
      BY <1>1, <1>3
    <2>2. rows[Len(rows)].seq \in Nat
      BY <1>1, <2>1, RowTypes
    <2>3. ASSUME NEW i \in DOMAIN rows PROVE rows[i].seq < rows[Len(rows)].seq + 1
      <3>1. rows[i].seq \in Nat
        BY <1>1, RowTypes
      <3>2. i < Len(rows) => rows[i].seq < rows[Len(rows)].seq
        BY <1>1, <2>1 DEF Sorted
      <3> QED
        BY <1>1, <2>2, <3>1, <3>2
    <2> QED
      BY <1>3, <2>2, <2>3 DEF NextSeq
  <1> QED
    BY <1>2, <1>3

Moves(runs, n) ==
    /\ runs \in [Run -> RunRows(n)]
    /\ \A r \in Run : runs[r].at = "compacting" => runs[r].cut # 0
    /\ \A s, messages : WholeIn(s, messages, run) => WholeIn(s, messages, runs)

\* A run's next record, if it awaits no summary.
LEMMA RunMoves ==
    ASSUME Stored, NEW r \in Run, NEW n \in Nat, appended <= n,
           NEW next \in RunRows(n), next.at # "compacting"
    PROVE  Moves([run EXCEPT ![r] = next], n)
  <1> DEFINE moved == [run EXCEPT ![r] = next]
  <1>1. RunRows(appended) \subseteq RunRows(n)
    <2>1. appended \in Nat
      BY MemoryBounds DEF Stored
    <2>2. 1 .. appended \subseteq 1 .. n /\ 0 .. appended \subseteq 0 .. n
      BY <2>1
    <2>3. SUBSET (1 .. appended) \subseteq SUBSET (1 .. n)
      BY <2>2
    <2> QED
      BY <2>2, <2>3 DEF RunRows
  <1>3. moved \in [Run -> RunRows(n)]
    BY <1>1 DEF Stored
  <1>4. \A q \in Run : moved[q].at = "compacting" => q # r /\ moved[q] = run[q]
    BY DEF Stored
  <1> HIDE DEF moved
  <1> QED
    BY <1>3, <1>4 DEF moved, Stored, WholeIn, Moves

\* The record of a run that has appended.
LEMMA NextRow ==
    ASSUME NEW n \in Nat, NEW at \in {"idle", "turn"}, NEW call \in 0 .. n, NEW last \in Nat
    PROVE  LET next == [NotRunning EXCEPT !.at = at, !.call = call, !.last = last] IN
           next \in RunRows(n) /\ next.at # "compacting"
  BY DEF NotRunning, RunRows

\* An item appended after the last row.
LEMMA AddNext ==
    ASSUME MemoryInv, NEW item, NewItem(item, appended, appended + 1)
    PROVE  /\ Grows(rows, Under(item, NextSeq(1)), appended + 1, said, run)
           /\ Under(item, NextSeq(1)).covers = item.covers
  <1>1. /\ Stored /\ appended \in Nat /\ WellStored(rows, appended)
        /\ \A q \in Run : run[q].cut_seq \in Nat /\ run[q].cut \in Nat
    BY MemoryBounds DEF MemoryInv, Stored, RunRows
  <1> DEFINE m == appended + 1
             k == NextSeq(1)
  <1>2. /\ m \in Nat /\ appended <= m /\ k \in Nat
        /\ NewItem(item, appended, m) /\ \A i \in DOMAIN rows : rows[i].seq < k
    BY <1>1, NextSeqIsLast
  <1> HIDE DEF m, k
  <1>3. Grows(rows, Under(item, k), m, said, run)
    BY <1>1, <1>2, AddOne
  <1>4. Under(item, k).covers = item.covers
    BY DEF Under, NewItem, StoredRow
  <1> QED
    BY <1>3, <1>4 DEF m, k

\* A run appends one item.
LEMMA AppendsOne ==
    ASSUME MemoryInv, NEW r \in Run, NEW item, NewItem(item, appended, appended + 1),
           NEW at \in {"idle", "turn"}, NEW call \in 0 .. appended + 1,
           Appends(r, <<item>>, at, call)
    PROVE  MemoryInv'
  <1> DEFINE new == Under(item, NextSeq(1))
             next == [NotRunning EXCEPT !.at = at, !.call = call,
                                        !.last = IF at = "turn" THEN NextSeq(1) ELSE 0]
  <1>1. /\ Stored /\ appended \in Nat /\ WellStored(rows, appended)
        /\ \A q \in Run : run[q].cut_seq \in Nat /\ run[q].cut \in Nat
    BY MemoryBounds DEF MemoryInv, Stored, RunRows
  <1>2. /\ appended' = appended + 1 /\ appended' <= MaxItems
        /\ said' = said \cup item.covers /\ rows' = Inserted(rows, new)
        /\ run' = [run EXCEPT ![r] = next] /\ undercut' = undercut
    <2>1. Len(<<item>>) = 1 /\ DOMAIN <<item>> = {1} /\ <<item>>[1] = item
      OBVIOUS
    <2>2. UNION {<<item>>[i].covers : i \in DOMAIN <<item>>} = item.covers
      BY <2>1
    <2> QED
      BY <2>1, <2>2 DEF Appends, AddItems, Under
  <1>3. Grows(rows, new, appended + 1, said, run) /\ new.covers = item.covers
    BY AddNext
  <1>4. next \in RunRows(appended + 1) /\ next.at # "compacting"
    <2>1. /\ appended + 1 \in Nat
          /\ (IF at = "turn" THEN NextSeq(1) ELSE 0) \in Nat
      BY <1>1, NextSeqIsLast
    <2> QED
      BY <2>1, NextRow
  <1> HIDE DEF next, new
  <1>5. Moves(run', appended')
    <2>1. appended + 1 \in Nat /\ appended <= appended + 1
      BY <1>1
    <2> QED
      BY <1>1, <1>2, <1>4, <2>1, RunMoves
  <1>6. Stored'
    BY <1>1, <1>2, <1>3, <1>5, MemoryBounds DEF Stored, Grows, Moves
  <1>7. ~undercut' => WholeIn(rows', said', run')
    BY <1>2, <1>3, <1>5 DEF MemoryInv, Grows, Moves
  <1> QED
    BY <1>6, <1>7 DEF MemoryInv

\* A run appends a call and its output, in one transaction.
LEMMA AppendsTwo ==
    ASSUME MemoryInv, NEW r \in Run, NEW item, NewItem(item, appended, appended + 1),
           NEW other, NewItem(other, appended + 1, appended + 2), Appends(r, <<item, other>>, "turn", 0)
    PROVE  MemoryInv'
  <1> DEFINE new == Under(item, NextSeq(1))
             new2 == Under(other, NextSeq(2))
             next == [NotRunning EXCEPT !.at = "turn", !.call = 0, !.last = NextSeq(2)]
  <1>1. /\ Stored /\ appended \in Nat /\ WellStored(rows, appended)
        /\ \A q \in Run : run[q].cut_seq \in Nat /\ run[q].cut \in Nat
    BY MemoryBounds DEF MemoryInv, Stored, RunRows
  <1>2. /\ appended' = appended + 2 /\ appended' <= MaxItems
        /\ said' = said \cup item.covers \cup other.covers
        /\ rows' = Inserted(Inserted(rows, new), new2)
        /\ run' = [run EXCEPT ![r] = next] /\ undercut' = undercut
    <2>1. /\ Len(<<item, other>>) = 2 /\ DOMAIN <<item, other>> = {1, 2}
          /\ <<item, other>>[1] = item /\ <<item, other>>[2] = other
      OBVIOUS
    <2>2. UNION {<<item, other>>[i].covers : i \in DOMAIN <<item, other>>}
          = item.covers \cup other.covers
      BY <2>1
    <2> QED
      BY <2>1, <2>2 DEF Appends, AddItems, Under
  <1>3. Grows(rows, new, appended + 1, said, run) /\ new.covers = item.covers
    BY AddNext
  <1> DEFINE t == Append(rows, new)
  <1>4. \A i \in DOMAIN t : t[i].seq < NextSeq(2)
    <2>1. rows \in Seq(StoredRow) /\ item \in StoredRow
      BY <1>1 DEF WellStored, NewItem
    <2>2. new.seq = NextSeq(1)
      BY <2>1 DEF StoredRow, Under
    <2>3. DOMAIN t = 1 .. Len(rows) + 1 /\ t[Len(rows) + 1] = new
          /\ \A i \in 1 .. Len(rows) : t[i] = rows[i] /\ i \in DOMAIN rows /\ rows[i].seq \in Nat
      BY <2>1, RowTypes
    <2> HIDE DEF t, new
    <2> QED
      BY <1>1, <2>1, <2>2, <2>3, NextSeqIsLast
  <1>5. /\ Grows(t, new2, appended + 2, said \cup item.covers, run)
        /\ new2.covers = other.covers
    <2> HIDE DEF t, new
    <2>1. WellStored(t, appended + 1) /\ NextSeq(2) \in Nat
      BY <1>1, <1>3, NextSeqIsLast DEF t, Grows
    <2> DEFINE n == appended + 1
               m == appended + 2
               k == NextSeq(2)
               messages == said \cup item.covers
    <2>2. /\ n \in Nat /\ m \in Nat /\ n <= m /\ k \in Nat
          /\ WellStored(t, n) /\ NewItem(other, n, m) /\ \A i \in DOMAIN t : t[i].seq < k
      BY <1>1, <1>4, <2>1
    <2> HIDE DEF n, m, k, messages
    <2>3. Grows(t, Under(other, k), m, messages, run)
      BY <1>1, <2>2, AddOne
    <2>4. Under(other, k).covers = other.covers
      BY DEF Under, NewItem, StoredRow
    <2> QED
      BY <2>3, <2>4 DEF m, k, messages
  <1>6. next \in RunRows(appended + 2) /\ next.at # "compacting"
    <2>1. NextSeq(2) \in Nat /\ appended + 2 \in Nat /\ 0 \in 0 .. appended + 2
      BY <1>1, NextSeqIsLast
    <2> QED
      BY <2>1, NextRow
  <1> HIDE DEF next, new, new2
  <1>7. Moves(run', appended')
    <2>1. appended + 2 \in Nat /\ appended <= appended + 2
      BY <1>1
    <2> QED
      BY <1>1, <1>2, <1>6, <2>1, RunMoves
  <1>8. Stored'
    BY <1>1, <1>2, <1>3, <1>5, <1>7, MemoryBounds DEF Stored, Grows, Moves
  <1>9. ~undercut' => WholeIn(rows', said', run')
    BY <1>2, <1>3, <1>5, <1>7 DEF MemoryInv, Grows, Moves
  <1> QED
    BY <1>8, <1>9 DEF MemoryInv

\* What a run appends.
LEMMA TurnInv ==
    ASSUME MemoryInv, NEW r \in Run, Input(r) \/ CallTool(r) \/ ToolReturns(r) \/ Reply(r)
    PROVE  MemoryInv'
  <1>1. appended \in Nat /\ run[r].call \in 0 .. appended
    BY MemoryBounds DEF MemoryInv, Stored, RunRows
  <1>2. CASE Input(r)
    <2>1. NewItem(Row("user", 0, "none", {appended + 1}), appended, appended + 1)
      BY <1>1 DEF NewItem, Row, StoredRow
    <2> QED
      BY <1>1, <1>2, <2>1, AppendsOne DEF Input
  <1>3. CASE CallTool(r)
    <2>1. PICK tool \in Tool :
            \/ Appends(r, <<Row("call", appended + 1, tool, {}),
                            Row("output", appended + 1, tool, {})>>, "turn", 0)
            \/ Appends(r, <<Row("call", appended + 1, tool, {})>>, "turn", appended + 1)
      BY <1>3 DEF CallTool
    <2>2. NewItem(Row("call", appended + 1, tool, {}), appended, appended + 1)
      BY <1>1 DEF NewItem, Row, StoredRow
    <2>3. NewItem(Row("output", appended + 1, tool, {}), appended + 1, appended + 2)
      BY <1>1 DEF NewItem, Row, StoredRow
    <2>4. appended + 1 \in 0 .. appended + 1
      BY <1>1
    <2> QED
      BY <2>1, <2>2, <2>3, <2>4, AppendsOne, AppendsTwo
  <1>4. CASE ToolReturns(r)
    <2>1. NewItem(Row("output", run[r].call, "none", {}), appended, appended + 1)
      BY <1>1 DEF NewItem, Row, StoredRow
    <2> QED
      BY <1>1, <1>4, <2>1, AppendsOne DEF ToolReturns
  <1>5. CASE Reply(r)
    <2>1. NewItem(Row("reply", 0, "none", {appended + 1}), appended, appended + 1)
      BY <1>1 DEF NewItem, Row, StoredRow
    <2> QED
      BY <1>1, <1>5, <2>1, AppendsOne DEF Reply
  <1> QED
    BY <1>2, <1>3, <1>4, <1>5

\* Taking back what a run added last.
LEMMA PopInv ==
    ASSUME MemoryInv, NEW r \in Run, PopItem(r)
    PROVE  MemoryInv'
  <1>1. /\ Stored /\ appended \in Nat /\ WellStored(rows, appended) /\ rows \in Seq(StoredRow)
        /\ \A q \in Run : run[q].cut_seq \in Nat /\ run[q].cut \in Nat
        /\ \A q \in Run : run[q].at = "compacting" => run[q].cut # 0
    BY MemoryBounds DEF MemoryInv, Stored, RunRows, WellStored
  <1>2. appended <= appended
    BY <1>1
  <1> DEFINE top == rows[Len(rows)]
             t == SubSeq(rows, 1, Len(rows) - 1)
  <1>3. /\ rows # <<>> /\ rows' = t /\ said' = said \ top.covers /\ UNCHANGED appended
        /\ top.kind # "summary" /\ undercut' = (undercut \/ BeingSummarised(top.seq))
        /\ run' = [run EXCEPT ![r].last = 0] /\ run[r].at = "turn"
    BY DEF PopItem
  <1>4. /\ WellStored(t, appended) /\ Len(t) = Len(rows) - 1
        /\ SaidInOrder(rows) => /\ SaidInOrder(t)
                            /\ Covered(t, Len(t)) = Covered(rows, Len(rows)) \ top.covers
    BY <1>1, <1>3, PopStored
  <1>5. Moves(run', appended)
    <2>1. [run[r] EXCEPT !.last = 0] \in RunRows(appended)
      BY DEF MemoryInv, Stored, RunRows
    <2>2. [run[r] EXCEPT !.last = 0].at # "compacting"
      BY <1>3 DEF MemoryInv, Stored, RunRows
    <2>3. run' = [run EXCEPT ![r] = [run[r] EXCEPT !.last = 0]]
      BY <1>3
    <2> QED
      BY <1>1, <1>2, <2>1, <2>2, <2>3, RunMoves
  <1>6. Stored'
    BY <1>1, <1>3, <1>4, <1>5 DEF Stored, Moves
  <1>7. ASSUME ~undercut' PROVE WholeIn(t, said', run)
    <2>1. WholeIn(rows, said, run) /\ ~BeingSummarised(top.seq)
      BY <1>3, <1>7 DEF MemoryInv
    <2>2. ASSUME NEW q \in Run, run[q].at = "compacting" PROVE Awaited(t, run[q])
      <3>1. top.seq > run[q].cut_seq
        <4>1. Len(rows) \in DOMAIN rows
          BY <1>1, <1>3
        <4>2. top.seq \in Nat
          BY <1>1, <4>1, RowTypes
        <4> QED
          BY <1>1, <2>1, <2>2, <4>2 DEF BeingSummarised
      <3> QED
        BY <1>1, <1>3, <2>1, <2>2, <3>1, AwaitedPop DEF WholeIn
    <2> QED
      BY <1>3, <1>4, <2>1, <2>2 DEF WholeIn
  <1> QED
    BY <1>3, <1>5, <1>6, <1>7 DEF MemoryInv, Moves

\* Clearing the session.
LEMMA ClearInv ==
    ASSUME MemoryInv, ClearSession
    PROVE  MemoryInv'
  <1>1. /\ Stored /\ appended \in Nat /\ WellStored(rows, appended) /\ rows \in Seq(StoredRow)
        /\ \A q \in Run : run[q].cut_seq \in Nat /\ run[q].cut \in Nat
        /\ \A q \in Run : run[q].at = "compacting" => run[q].cut # 0
    BY MemoryBounds DEF MemoryInv, Stored, RunRows, WellStored
  <1>2. /\ rows' = <<>> /\ said' = {} /\ UNCHANGED appended
        /\ run' = [q \in Run |-> [run[q] EXCEPT !.last = 0]]
        /\ undercut' = (undercut \/ BeingSummarised(0))
    BY DEF ClearSession
  <1>3. WellStored(<<>>, appended) /\ SaidInOrder(<<>>)
    BY DEF WellStored, Sorted, Numbered, Paired, SaidInOrder
  <1>4. /\ run' \in [Run -> RunRows(appended)]
        /\ \A q \in Run : run'[q].at = run[q].at /\ run'[q].cut = run[q].cut
    BY <1>2 DEF MemoryInv, Stored, RunRows
  <1>5. Stored'
    BY <1>1, <1>2, <1>3, <1>4 DEF Stored
  <1>6. ASSUME ~undercut' PROVE WholeIn(rows', said', run')
    <2>1. \A q \in Run : run[q].at # "compacting"
      <3>1. ~BeingSummarised(0)
        BY <1>2, <1>6
      <3>2. \A q \in Run : 0 <= run[q].cut_seq
        BY <1>1
      <3> QED
        BY <3>1, <3>2 DEF BeingSummarised
    <2>2. Covered(<<>>, Len(<<>>)) = {}
      BY DEF Covered
    <2> QED
      BY <1>2, <1>3, <1>4, <2>1, <2>2 DEF WholeIn
  <1> QED
    BY <1>5, <1>6 DEF MemoryInv

\* A run that ends, or goes on without a summary.
LEMMA LeaveInv ==
    ASSUME MemoryInv, NEW r \in Run, CompactionFails(r) \/ RunDies(r)
    PROVE  MemoryInv'
  <1>1. Stored /\ appended \in Nat
    BY MemoryBounds DEF MemoryInv, Stored
  <1>2. PICK next \in {NotRunning, [NotRunning EXCEPT !.at = "start"]} :
          run' = [run EXCEPT ![r] = next] /\ UNCHANGED <<rows, appended, said, undercut>>
    BY DEF CompactionFails, RunDies
  <1>3. next \in RunRows(appended) /\ next.at # "compacting"
    BY <1>1, <1>2 DEF NotRunning, RunRows
  <1>4. Moves(run', appended)
    <2>1. appended <= appended
      BY <1>1
    <2> QED
      BY <1>1, <1>2, <1>3, <2>1, RunMoves
  <1> QED
    BY <1>2, <1>4 DEF MemoryInv, Stored, Moves

\* What the compactor is given says all that its rows say: only outputs are
\* left out of the view.
LEMMA RepairedCovers ==
    ASSUME NEW s \in Seq(StoredRow), NEW n, Numbered(s, n), NEW known
    PROVE  UNION {Repaired(s, known)[i].covers : i \in DOMAIN Repaired(s, known)}
           = Covered(s, Len(s))
  <1> DEFINE v == Repaired(s, known)
  <1>1. DOMAIN v = Shown(s, known) /\ DOMAIN s = 1 .. Len(s)
    BY DEF Repaired
  <1>2. ASSUME NEW i \in DOMAIN v PROVE i \in 1 .. Len(s) /\ v[i].covers = s[i].covers
    <2>1. i \in DOMAIN s
      BY <1>1, <1>2 DEF Shown
    <2>2. s[i] \in StoredRow
      BY <2>1
    <2> QED
      BY <1>1, <2>1, <2>2 DEF Repaired, StoredRow
  <1>3. ASSUME NEW i \in 1 .. Len(s), NEW a \in s[i].covers PROVE i \in DOMAIN v
    <2>1. s[i].kind # "output"
      BY <1>1, <1>3 DEF Numbered
    <2> QED
      BY <1>1, <2>1 DEF Shown
  <1> HIDE DEF v
  <1>4. UNION {v[i].covers : i \in DOMAIN v} = Covered(s, Len(s))
    BY <1>2, <1>3 DEF Covered
  <1> QED
    BY <1>4 DEF v

\* find_cut leaves rows on both sides, or is 0.
LEMMA FindCutIs ==
    ASSUME NEW s \in Seq(StoredRow), FindCut(s) # 0
    PROVE  FindCut(s) \in 1 .. Len(s) - 1
  <1> DEFINE cuts == {cut \in 1 .. Len(s) - 1 :
                         /\ cut + 1 \in UserTurns(s)
                         /\ Cardinality({i \in UserTurns(s) : i > cut}) = KeepRecentTurns
                         /\ \E i \in UserTurns(s) : i <= cut}
  <1>1. FindCut(s) = IF cuts = {} THEN 0 ELSE CHOOSE cut \in cuts : TRUE
    BY DEF FindCut
  <1>2. cuts \subseteq 1 .. Len(s) - 1
    OBVIOUS
  <1> HIDE DEF cuts
  <1>3. cuts # {}
    BY <1>1
  <1> QED
    BY <1>1, <1>2, <1>3

\* The record of a run that awaits a summary.
Awaiting(cut, seq, covers) ==
    [NotRunning EXCEPT !.at = "compacting", !.cut = cut, !.cut_seq = seq, !.covers = covers]

HasRead(row, n, cut, seq, covers) ==
    row \in RunRows(n) /\ row.cut = cut /\ row.cut_seq = seq /\ row.covers = covers

\* It holds what was read.
LEMMA AwaitingRow ==
    ASSUME NEW n \in Nat, NEW cut \in Nat, NEW seq \in Nat, NEW covers \in SUBSET (1 .. n)
    PROVE  HasRead(Awaiting(cut, seq, covers), n, cut, seq, covers)
  <1> DEFINE one == [NotRunning EXCEPT !.at = "compacting"]
             two == [one EXCEPT !.cut = cut]
             three == [two EXCEPT !.cut_seq = seq]
             four == [three EXCEPT !.covers = covers]
  <1>1. one \in RunRows(n)
    BY DEF NotRunning, RunRows
  <1>2. Awaiting(cut, seq, covers) = four
    BY DEF Awaiting
  <1> HIDE DEF one
  <1>3. two \in RunRows(n) /\ two.cut = cut
    BY <1>1 DEF RunRows
  <1> HIDE DEF two
  <1>4. three \in RunRows(n) /\ three.cut = cut /\ three.cut_seq = seq
    BY <1>3 DEF RunRows
  <1> HIDE DEF three
  <1>5. /\ four \in RunRows(n) /\ four.cut = cut /\ four.cut_seq = seq
        /\ four.covers = covers
    BY <1>4 DEF RunRows
  <1> QED
    BY <1>2, <1>5 DEF HasRead

\* Reading the rows to be summarised.
LEMMA ReadInv ==
    ASSUME MemoryInv, NEW r \in Run, MaybeCompact(r)
    PROVE  MemoryInv'
  <1> DEFINE cut == FindCut(rows)
             head == SubSeq(rows, 1, cut)
             view == Repaired(head, Tool)
             given == UNION {view[i].covers : i \in DOMAIN view}
             next == Awaiting(cut, rows[cut].seq, given)
  <1>1. /\ Stored /\ appended \in Nat /\ WellStored(rows, appended)
        /\ rows \in Seq(StoredRow) /\ Sorted(rows) /\ Len(rows) \in Nat
    BY MemoryBounds DEF MemoryInv, Stored, WellStored
  <1>2. UNCHANGED <<rows, appended, said, undercut>>
    BY DEF MaybeCompact
  <1>3. CASE run' = [run EXCEPT ![r] = [NotRunning EXCEPT !.at = "start"]]
    <2>1. [NotRunning EXCEPT !.at = "start"] \in RunRows(appended) /\ appended <= appended
      BY <1>1 DEF NotRunning, RunRows
    <2>2. [NotRunning EXCEPT !.at = "start"].at # "compacting"
      BY DEF NotRunning
    <2>3. Moves(run', appended)
      BY <1>1, <1>3, <2>1, <2>2, RunMoves
    <2> QED
      BY <1>2, <2>3 DEF MemoryInv, Stored, Moves
  <1>4. CASE cut # 0 /\ run' = [run EXCEPT ![r] = next]
    <2>1. cut \in 1 .. Len(rows) - 1
      BY <1>1, <1>4, FindCutIs
    <2> HIDE DEF cut
    <2>2. /\ head \in Seq(StoredRow) /\ Len(head) = cut /\ DOMAIN head = 1 .. cut
          /\ \A i \in 1 .. cut : head[i] = rows[i] /\ i \in DOMAIN rows
      BY <1>1, <2>1
    <2> HIDE DEF head
    <2>3. Numbered(head, appended)
      BY <1>1, <2>2 DEF WellStored, Numbered
    <2>4. given = Covered(rows, cut)
      <3>1. given = Covered(head, cut)
        BY <2>2, <2>3, RepairedCovers
      <3> QED
        BY <2>2, <3>1 DEF Covered
    <2>5. given \subseteq 1 .. appended
      BY <1>1, <2>2, <2>4 DEF Covered, WellStored, Numbered
    <2> HIDE DEF given
    <2>6. rows[cut].seq \in Nat /\ cut \in DOMAIN rows /\ cut \in Nat /\ cut \in 0 .. Len(rows)
      BY <1>1, <2>1, RowTypes
    <2>7. /\ next \in RunRows(appended)
          /\ next.cut = cut /\ next.cut_seq = rows[cut].seq /\ next.covers = given
      <3>1. given \in SUBSET (1 .. appended)
        BY <2>5
      <3>2. HasRead(next, appended, cut, rows[cut].seq, given)
        BY <1>1, <2>6, <3>1, AwaitingRow
      <3> QED
        BY <3>2 DEF HasRead
    <2> HIDE DEF next
    <2>8. UpTo(rows, rows[cut].seq) = cut
      <3>1. \A i \in DOMAIN rows : rows[i].seq <= rows[cut].seq <=> i <= cut
        <4> TAKE i \in DOMAIN rows
        <4>1. rows[i].seq \in Nat /\ i \in Nat
          BY <1>1, RowTypes
        <4>2. i < cut => rows[i].seq < rows[cut].seq
          BY <1>1, <2>6 DEF Sorted
        <4>3. cut < i => rows[cut].seq < rows[i].seq
          BY <1>1, <2>6 DEF Sorted
        <4> QED
          BY <2>6, <4>1, <4>2, <4>3
      <3> QED
        BY <1>1, <2>6, <3>1, UpToIs
    <2>9. Awaited(rows, next)
      BY <2>4, <2>6, <2>7, <2>8 DEF Awaited
    <2>10. Stored'
      <3>1. run' \in [Run -> RunRows(appended)]
        BY <1>1, <1>4, <2>7 DEF Stored
      <3>2. \A q \in Run : run'[q].at = "compacting" => run'[q].cut # 0
        BY <1>1, <1>4, <2>7 DEF Stored
      <3> QED
        BY <1>1, <1>2, <3>1, <3>2 DEF Stored
    <2>11. WholeIn(rows, said, run) => WholeIn(rows, said, run')
      BY <1>1, <1>4, <2>9 DEF WholeIn, Stored
    <2> QED
      BY <1>2, <2>10, <2>11 DEF MemoryInv
  <1> QED
    BY <1>3, <1>4 DEF MaybeCompact, Awaiting

\* Replacing them by their summary, unless there are fewer.
LEMMA CompactInv ==
    ASSUME MemoryInv, NEW r \in Run, Compact(r)
    PROVE  MemoryInv'
  <1> DEFINE cut == run[r].cut
             summary == [Row("summary", 0, "none", run[r].covers) EXCEPT !.seq = run[r].cut_seq]
             next == [NotRunning EXCEPT !.at = "start"]
  <1>1. /\ Stored /\ appended \in Nat /\ WellStored(rows, appended)
        /\ rows \in Seq(StoredRow) /\ Sorted(rows)
        /\ \A q \in Run : run[q] \in RunRows(appended)
        /\ \A q \in Run : run[q].at = "compacting" => run[q].cut # 0
    BY MemoryBounds DEF MemoryInv, Stored, WellStored
  <1>2. /\ \A q \in Run : run[q].cut_seq \in Nat /\ run[q].cut \in Nat
        /\ run[r].covers \subseteq 1 .. appended
    BY <1>1 DEF RunRows
  <1>3. /\ run[r].at = "compacting" /\ UNCHANGED <<appended, said, undercut>>
        /\ run' = [run EXCEPT ![r] = next]
    BY DEF Compact
  <1>4. Moves(run', appended)
    <2>1. next \in RunRows(appended) /\ next.at # "compacting" /\ appended <= appended
      BY <1>1 DEF NotRunning, RunRows
    <2> HIDE DEF next
    <2> QED
      BY <1>1, <1>3, <2>1, RunMoves
  <1>5. CASE ~StillThere(r)
    <2>1. rows' = rows
      BY <1>5 DEF Compact
    <2> QED
      BY <1>3, <1>4, <2>1 DEF MemoryInv, Stored, Moves
  <1>6. CASE StillThere(r)
    <2>1. UpTo(rows, run[r].cut_seq) = cut /\ rows' = Summarised(rows, cut, summary)
      BY <1>6 DEF Compact, StillThere, Summarised
    <2>2. /\ cut \in 1 .. Len(rows)
          /\ \A i \in DOMAIN rows : rows[i].seq <= run[r].cut_seq <=> i <= cut
      BY <1>1, <1>2, <1>3, <2>1, UpToCounts
    <2>3. /\ summary \in StoredRow /\ summary.kind = "summary" /\ summary.call = 0
          /\ summary.seq = run[r].cut_seq /\ summary.covers = run[r].covers
      BY <1>1, <1>2 DEF Row, StoredRow
    <2> HIDE DEF summary, cut
    <2>4. \A i \in DOMAIN rows : rows[i].seq <= summary.seq <=> i <= cut
      BY <2>2, <2>3
    <2> DEFINE t == Summarised(rows, cut, summary)
    <2>5. /\ WellStored(t, appended)
          /\ SaidInOrder(rows) /\ summary.covers = Covered(rows, cut) =>
                SaidInOrder(t) /\ Covered(t, Len(t)) = Covered(rows, Len(rows))
      BY <1>1, <1>2, <2>2, <2>3, <2>4, SummarisedStored
    <2>6. Stored'
      BY <1>1, <1>3, <1>4, <2>1, <2>5 DEF Stored, Moves
    <2>7. ASSUME WholeIn(rows, said, run) PROVE WholeIn(t, said, run)
      <3>1. summary.covers = Covered(rows, cut)
        BY <1>3, <2>1, <2>3, <2>7 DEF WholeIn, Awaited, cut
      <3>2. ASSUME NEW q \in Run, run[q].at = "compacting" PROVE Awaited(t, run[q])
        <4>1. Awaited(rows, run[q]) /\ run[q].cut \in Nat \ {0} /\ run[q].cut_seq \in Nat
          BY <1>1, <1>2, <2>7, <3>2 DEF WholeIn
        <4> QED
          BY <1>1, <1>2, <2>2, <2>3, <2>4, <3>1, <4>1, AwaitedSummarised
      <3> QED
        BY <2>5, <2>7, <3>1, <3>2 DEF WholeIn
    <2> QED
      BY <1>3, <1>4, <2>1, <2>6, <2>7 DEF MemoryInv, Moves
  <1> QED
    BY <1>5, <1>6

\* The stored conversation starts as it should be, and every step keeps it so.
LEMMA MemoryInvInductive ==
    /\ MemoryInit => MemoryInv
    /\ MemoryInv /\ [MemoryNext]_memoryVars => MemoryInv'
  <1>1. MemoryInit => MemoryInv
    <2> SUFFICES ASSUME MemoryInit PROVE MemoryInv
      OBVIOUS
    <2>1. WellStored(<<>>, 0) /\ SaidInOrder(<<>>) /\ Covered(<<>>, Len(<<>>)) = {}
      BY DEF WellStored, Sorted, Numbered, Paired, SaidInOrder, Covered
    <2>2. NotRunning \in RunRows(0) /\ NotRunning.at # "compacting"
      BY DEF NotRunning, RunRows
    <2> QED
      BY <2>1, <2>2, MemoryBounds DEF MemoryInit, MemoryInv, Stored, WholeIn
  <1>2. MemoryInv /\ [MemoryNext]_memoryVars => MemoryInv'
    <2> SUFFICES ASSUME MemoryInv, [MemoryNext]_memoryVars PROVE MemoryInv'
      OBVIOUS
    <2>1. CASE UNCHANGED memoryVars
      BY <2>1 DEF memoryVars, MemoryInv, Stored
    <2>2. ASSUME NEW r \in Run,
                 \/ MaybeCompact(r) \/ Compact(r) \/ CompactionFails(r)
                 \/ Input(r) \/ CallTool(r) \/ ToolReturns(r) \/ Reply(r)
                 \/ PopItem(r) \/ RunDies(r)
          PROVE  MemoryInv'
      BY <2>2, ReadInv, CompactInv, LeaveInv, TurnInv, PopInv
    <2>3. CASE ClearSession
      BY <2>3, ClearInv
    <2> QED
      BY <2>1, <2>2, <2>3 DEF MemoryNext
  <1> QED
    BY <1>1, <1>2

\* In every behaviour the rows are numbered, paired and, unless rows were
\* removed under an awaited summary, whole.
THEOREM MemoryInvHolds == MemorySpec => []MemoryInv
  BY MemoryInvInductive, PTL DEF MemorySpec

\* The rows have distinct numbers in their order, and every variable its type.
THEOREM MemoryTypeCorrect == MemorySpec => []MemoryTypeOK
  <1>1. MemoryInv => MemoryTypeOK
    <2> SUFFICES ASSUME MemoryInv PROVE MemoryTypeOK
      OBVIOUS
    <2>1. Sorted(rows) /\ rows \in Seq(StoredRow) /\ appended \in 0 .. MaxItems
      BY DEF MemoryInv, Stored, WellStored
    <2>2. \A i \in DOMAIN rows : rows[i].kind \in {"user", "call", "output", "reply", "summary"}
      <3> TAKE i \in DOMAIN rows
      <3>1. rows[i] \in StoredRow
        BY <2>1
      <3> QED
        BY <3>1 DEF StoredRow
    <2>3. \A r \in Run : run[r].at \in {"idle", "compacting", "start", "turn"}
      BY DEF MemoryInv, Stored, RunRows
    <2> QED
      BY <2>1, <2>2, <2>3 DEF MemoryTypeOK, Sorted
  <1> QED
    BY <1>1, MemoryInvHolds, PTL

\* However runs append, take back and compact while summaries are awaited, every
\* message is in the history once and in its place, unless the rows that are
\* being summarised were themselves removed.
THEOREM HistoryWhole == MemorySpec => []HistoryIsWhole
  <1>1. MemoryInv => HistoryIsWhole
    <2> SUFFICES ASSUME MemoryInv, ~undercut
                 PROVE  /\ said = UNION {rows[i].covers : i \in DOMAIN rows}
                        /\ SaidInOrder(rows)
      BY DEF HistoryIsWhole, SaidInOrder
    <2>1. WholeIn(rows, said, run) /\ rows \in Seq(StoredRow)
      BY DEF MemoryInv, Stored, WellStored
    <2>2. DOMAIN rows = 1 .. Len(rows)
      BY <2>1
    <2> QED
      BY <2>1, <2>2 DEF WholeIn, Covered
  <1> QED
    BY <1>1, MemoryInvHolds, PTL

\* Whatever runs crashed, took back or summarised between a call and its output,
\* and whichever tools the next version has, repair_history pairs what it shows.
THEOREM ReplayWellFormed == MemorySpec => []ReplayIsWellFormed
  <1>1. MemoryInv => ReplayIsWellFormed
    <2> SUFFICES ASSUME MemoryInv, NEW known \in SUBSET Tool,
                        NEW i \in DOMAIN Repaired(rows, known)
                 PROVE  LET view == Repaired(rows, known) IN
                        /\ view[i].kind = "call" =>
                              /\ view[i].tool \in known
                              /\ \E j \in DOMAIN view :
                                    /\ j > i /\ view[j].kind = "output"
                                    /\ view[j].call = view[i].call
                        /\ view[i].kind = "output" =>
                              \E j \in DOMAIN view :
                                  j < i /\ view[j].kind = "call" /\ view[j].call = view[i].call
      BY DEF ReplayIsWellFormed
    <2> DEFINE view == Repaired(rows, known)
               folded == Folded(rows, known)
               calls == CallsIn(rows, "call")
               outputs == CallsIn(rows, "output")
    <2>1. /\ DOMAIN view = Shown(rows, known)
          /\ \A j \in DOMAIN view : view[j] = IF rows[j].kind = "call" /\ rows[j].call \in folded
                                              THEN [rows[j] EXCEPT !.kind = "note"] ELSE rows[j]
          /\ \A j \in DOMAIN view : j \in DOMAIN rows
      BY DEF Repaired, Shown
    <2>2. \A j \in DOMAIN rows : (rows[j].kind = "output" => rows[j].call \in calls \ folded)
                                 => j \in DOMAIN view
      BY <2>1 DEF Shown
    <2>3. i \in DOMAIN view /\ i \in DOMAIN rows
      BY <2>1
    <2>4. Paired(rows) /\ rows \in Seq(StoredRow) /\ DOMAIN rows = 1 .. Len(rows)
      BY DEF MemoryInv, Stored, WellStored
    <2> HIDE DEF view
    <2>5. ASSUME view[i].kind = "call"
          PROVE  /\ view[i].tool \in known
                 /\ \E j \in DOMAIN view : j > i /\ view[j].kind = "output" /\ view[j].call = view[i].call
      <3>1. view[i] = rows[i] /\ rows[i].kind = "call" /\ rows[i].call \notin folded /\ i \in DOMAIN rows
        <4>1. rows[i] \in StoredRow
          BY <2>4, <2>3
        <4> QED
          BY <2>1, <2>5, <2>3, <4>1 DEF StoredRow
      <3>2. rows[i].call \in outputs /\ rows[i].tool \in known
        BY <3>1 DEF Folded
      <3>3. PICK j \in DOMAIN rows : rows[j].kind = "output" /\ rows[j].call = rows[i].call
        BY <3>2 DEF CallsIn
      <3>4. i < j
        BY <2>4, <3>1, <3>3 DEF Paired
      <3>5. j \in DOMAIN view
        BY <2>2, <3>1, <3>3 DEF CallsIn
      <3>6. view[j] = rows[j]
        BY <2>1, <3>3, <3>5
      <3> QED
        BY <2>4, <3>1, <3>2, <3>3, <3>4, <3>5, <3>6
    <2>6. ASSUME view[i].kind = "output"
          PROVE  \E j \in DOMAIN view : j < i /\ view[j].kind = "call" /\ view[j].call = view[i].call
      <3>1. view[i] = rows[i] /\ rows[i].kind = "output" /\ i \in DOMAIN rows
        <4>1. rows[i] \in StoredRow
          BY <2>4, <2>3
        <4> QED
          BY <2>1, <2>6, <2>3, <4>1 DEF StoredRow
      <3>2. rows[i].call \in calls \ folded
        BY <2>1, <2>3, <3>1 DEF Shown
      <3>3. PICK j \in DOMAIN rows : rows[j].kind = "call" /\ rows[j].call = rows[i].call
        BY <3>2 DEF CallsIn
      <3>4. j < i
        BY <2>4, <3>1, <3>3 DEF Paired
      <3>5. j \in DOMAIN view /\ view[j] = rows[j]
        BY <2>1, <2>2, <3>2, <3>3
      <3> QED
        BY <3>1, <3>3, <3>4, <3>5
    <2> QED
      BY <2>5, <2>6 DEF view
  <1> QED
    BY <1>1, MemoryInvHolds, PTL

-----------------------------------------------------------------------------
(* The profile.  What an extraction read is in the profile still, and is all *)
(* of it as long as the revision is the one it read; every revision is one  *)
(* more extraction, and every attempt that failed saw a revision pass.      *)

ExtractionRow ==
    [at : {"new", "refused", "rewriting", "again", "written", "conflict", "failed"},
     tries : Nat, revision : Nat, content : SUBSET Extraction]

Learned(e) ==
    LET x == extraction[e] IN
    /\ e \in profile.content <=> x.at = "written"
    /\ x.tries <= Attempts
    /\ x.at = "new" => x.tries = 0
    /\ x.at = "again" => x.tries < Attempts /\ x.tries <= profile.revision
    /\ x.at = "conflict" => Attempts <= profile.revision
    /\ x.at = "rewriting" =>
          /\ x.tries <= x.revision + 1 /\ x.revision <= profile.revision
          /\ x.revision = profile.revision => x.content = profile.content

ProfileInv ==
    /\ profile \in [revision : Nat, content : SUBSET Extraction]
    /\ extraction \in [Extraction -> ExtractionRow]
    /\ IsFiniteSet(profile.content) /\ Cardinality(profile.content) = profile.revision
    /\ \A e \in Extraction : Learned(e)

\* A step that leaves the profile and moves one extraction.
LEMMA ProfileKept ==
    ASSUME ProfileInv, NEW e \in Extraction, UNCHANGED profile,
           \/ RefuseExtraction(e) \/ ReadProfile(e) \/ RewriterFails(e)
           \/ WriteProfile(e) /\ ~RevisionUnchanged(e)
    PROVE  ProfileInv'
  <1>1. /\ extraction[e] \in ExtractionRow /\ Learned(e)
        /\ profile.revision \in Nat /\ profile.content \in SUBSET Extraction
    BY DEF ProfileInv
  <1>2. /\ extraction' \in [Extraction -> ExtractionRow]
        /\ \A d \in Extraction : d # e => extraction'[d] = extraction[d]
    BY <1>1 DEF ProfileInv, ExtractionRow, RefuseExtraction, ReadProfile, RewriterFails, WriteProfile, Status
  <1>3. Learned(e)'
    <2>1. CASE RefuseExtraction(e) \/ RewriterFails(e)
      BY <1>1, <2>1 DEF ProfileInv, Learned, ExtractionRow, RefuseExtraction, RewriterFails, Status
    <2>2. CASE ReadProfile(e)
      BY <1>1, <2>2, ExtractionBounds DEF ProfileInv, Learned, ExtractionRow, ReadProfile
    <2>3. CASE WriteProfile(e) /\ ~RevisionUnchanged(e)
      BY <1>1, <2>3, ExtractionBounds
      DEF ProfileInv, Learned, ExtractionRow, WriteProfile, RevisionUnchanged, Status
    <2> QED
      BY <2>1, <2>2, <2>3
  <1>4. \A d \in Extraction : Learned(d)'
    BY <1>2, <1>3 DEF ProfileInv, Learned
  <1> QED
    BY <1>2, <1>4 DEF ProfileInv

\* Writing over the revision that was read.
LEMMA ProfileWritten ==
    ASSUME ProfileInv, NEW e \in Extraction, WriteProfile(e), RevisionUnchanged(e)
    PROVE  ProfileInv'
  <1>1. /\ extraction[e] \in ExtractionRow /\ Learned(e) /\ extraction[e].at = "rewriting"
        /\ profile.revision \in Nat /\ profile.content \in SUBSET Extraction
        /\ extraction[e].revision = profile.revision
    BY DEF ProfileInv, WriteProfile, RevisionUnchanged
  <1>2. extraction[e].content = profile.content /\ e \notin profile.content
    BY <1>1 DEF Learned
  <1>3. /\ profile' = [revision |-> profile.revision + 1, content |-> profile.content \cup {e}]
        /\ extraction' = [extraction EXCEPT ![e].at = "written"]
    BY <1>2 DEF WriteProfile, Status
  <1>4. IsFiniteSet(profile'.content) /\ Cardinality(profile'.content) = profile'.revision
    BY <1>2, <1>3, FS_AddElement DEF ProfileInv
  <1>5. /\ extraction' \in [Extraction -> ExtractionRow]
        /\ profile' \in [revision : Nat, content : SUBSET Extraction]
    BY <1>1, <1>3 DEF ProfileInv, ExtractionRow
  <1>6. ASSUME NEW d \in Extraction PROVE Learned(d)'
    <2>1. Learned(d) /\ extraction[d] \in ExtractionRow
      BY DEF ProfileInv
    <2>2. CASE d = e
      BY <1>1, <1>3, <2>1, <2>2 DEF Learned, ProfileInv, ExtractionRow
    <2>3. CASE d # e
      <3>1. extraction'[d] = extraction[d]
        BY <1>3, <2>3 DEF ProfileInv
      <3>2. d \in profile'.content <=> d \in profile.content
        BY <1>3, <2>3
      <3>3. profile'.revision = profile.revision + 1
        BY <1>3
      <3> QED
        BY <1>1, <2>1, <3>1, <3>2, <3>3, ExtractionBounds DEF Learned, ExtractionRow
    <2> QED
      BY <2>2, <2>3
  <1> QED
    BY <1>4, <1>5, <1>6 DEF ProfileInv

\* Every step of every extraction.
LEMMA ProfileInvInductive ==
    /\ LongTermInit => ProfileInv
    /\ ProfileInv /\ [LongTermNext]_longTermVars => ProfileInv'
  <1>1. LongTermInit => ProfileInv
    BY FS_EmptySet, ExtractionBounds DEF LongTermInit, ProfileInv, Learned, Waiting, ExtractionRow
  <1>2. ASSUME ProfileInv, [LongTermNext]_longTermVars PROVE ProfileInv'
    <2>1. CASE UNCHANGED longTermVars
      BY <1>2, <2>1 DEF longTermVars, ProfileInv, Learned
    <2>2. ASSUME NEW e \in Extraction,
                 RefuseExtraction(e) \/ ReadProfile(e) \/ WriteProfile(e) \/ RewriterFails(e)
          PROVE  ProfileInv'
      <3>1. CASE WriteProfile(e) /\ RevisionUnchanged(e)
        BY <1>2, <3>1, ProfileWritten
      <3>2. CASE ~(WriteProfile(e) /\ RevisionUnchanged(e))
        BY <1>2, <2>2, <3>2, ProfileKept
        DEF RefuseExtraction, ReadProfile, WriteProfile, RewriterFails
      <3> QED
        BY <3>1, <3>2
    <2> QED
      BY <1>2, <2>1, <2>2 DEF LongTermNext
  <1> QED
    BY <1>1, <1>2

\* What an extraction learned stays in the profile, whichever others rewrote it
\* at the same time, and one gives up only after as many others have succeeded
\* as it had attempts.
THEOREM ProfileKeeps == LongTermSpec => []ProfileKeepsEveryExtraction
  <1>1. ProfileInv => ProfileKeepsEveryExtraction
    BY DEF ProfileInv, Learned, ProfileKeepsEveryExtraction
  <1> QED
    BY <1>1, ProfileInvInductive, PTL DEF LongTermSpec

\* The profile's row and the requests keep their types.
THEOREM LongTermTypeCorrect == LongTermSpec => []LongTermTypeOK
  <1>1. ProfileInv => LongTermTypeOK
    BY ExtractionBounds DEF ProfileInv, Learned, ExtractionRow, LongTermTypeOK
  <1> QED
    BY <1>1, ProfileInvInductive, PTL DEF LongTermSpec

-----------------------------------------------------------------------------
(* The assets: what the rows are like, and those of a transaction.          *)

AssetName == [base : STRING, suffix : Seq(Nat)]

AssetRow == [name : AssetName, source : Source, archived : Nat]

\* No two active assets share a name or a source.
Distinct(pool) ==
    \A i, j \in ActiveIn(pool) :
        i # j => pool[i].name # pool[j].name /\ pool[i].source # pool[j].source

\* Rows that were archived at time n at the latest.
PoolKept(pool, n) ==
    /\ pool \in Seq(AssetRow) /\ Len(pool) <= MaxAssets /\ Distinct(pool)
    /\ \A i \in DOMAIN pool : pool[i].archived <= n

\* The rows of a transaction that began with old: an asset is what it was, but
\* that it may be archived now, and a new one has a name that nobody had.
Outgrows(old, pool) ==
    /\ DOMAIN old \subseteq DOMAIN pool
    /\ \A i \in DOMAIN old :
          /\ pool[i].name = old[i].name /\ pool[i].source = old[i].source
          /\ old[i].archived # 0 => pool[i] = old[i]
    /\ \A i \in DOMAIN pool \ DOMAIN old : ~Taken(old, pool[i].name)

\* As long as it only registers, it archives nothing.
OnlyRegisters(old, pool) == \A i \in DOMAIN old : pool[i] = old[i]

TxnKept ==
    /\ txn \in [open : BOOLEAN, archives : BOOLEAN, rows : Seq(AssetRow)]
    /\ PoolKept(txn.rows, now + 1)
    /\ txn.open =>
          /\ now < MaxChanges
          /\ Outgrows(assets, txn.rows)
          /\ ~txn.archives => OnlyRegisters(assets, txn.rows)
    /\ ~txn.open => txn.rows = <<>>

AssetInv == now \in 0 .. MaxChanges /\ PoolKept(assets, now) /\ TxnKept

\* The rows of a pool.
LEMMA PoolRows ==
    ASSUME NEW pool \in Seq(AssetRow)
    PROVE  /\ Len(pool) \in Nat /\ DOMAIN pool = 1 .. Len(pool)
           /\ \A i \in DOMAIN pool : pool[i] \in AssetRow /\ pool[i].archived \in Nat
           /\ ActiveIn(pool) \subseteq 1 .. Len(pool)
  <1>1. Len(pool) \in Nat /\ DOMAIN pool = 1 .. Len(pool)
    OBVIOUS
  <1>2. \A i \in DOMAIN pool : pool[i] \in AssetRow
    OBVIOUS
  <1>3. \A i \in DOMAIN pool : pool[i].archived \in Nat
    BY <1>2 DEF AssetRow
  <1> QED
    BY <1>1, <1>2, <1>3 DEF ActiveIn

\* Names with different numbers are different.
LEMMA SuffixedNames ==
    ASSUME NEW name \in AssetName, NEW n \in Nat
    PROVE  /\ Suffixed(name, n) \in AssetName
           /\ \A k \in Nat : Suffixed(name, k) = Suffixed(name, n) => k = n
  <1>1. /\ Suffixed(name, n) = [base |-> name.base, suffix |-> Append(name.suffix, n)]
        /\ name.suffix \in Seq(Nat) /\ name.base \in STRING
    <2>1. name.suffix \in Seq(Nat) /\ name.base \in STRING
      BY DEF AssetName
    <2>2. name = [base |-> name.base, suffix |-> name.suffix]
      BY DEF AssetName
    <2>3. Suffixed(name, n) = [base |-> name.base, suffix |-> Append(name.suffix, n)]
      BY <2>2 DEF Suffixed
    <2> QED
      BY <2>1, <2>3
  <1>2. Append(name.suffix, n) \in Seq(Nat)
    BY <1>1
  <1>3. Suffixed(name, n) \in AssetName
    BY <1>1, <1>2 DEF AssetName
  <1>4. ASSUME NEW k \in Nat, Suffixed(name, k) = Suffixed(name, n) PROVE k = n
    <2>1. Suffixed(name, k).suffix = Append(name.suffix, k)
      BY DEF Suffixed, AssetName
    <2>2. Append(name.suffix, k) = Append(name.suffix, n)
      BY <1>1, <1>4, <2>1
    <2>3. Append(name.suffix, k)[Len(name.suffix) + 1] = k
      BY <1>1
    <2>4. Append(name.suffix, n)[Len(name.suffix) + 1] = n
      BY <1>1
    <2> QED
      BY <2>2, <2>3, <2>4
  <1> QED
    BY <1>3, <1>4

\* Of one more number than there are rows, one is free.
LEMMA SomeNumberIsFree ==
    ASSUME NEW pool \in Seq(AssetRow), NEW wanted \in AssetName
    PROVE  \E n \in 2 .. Len(pool) + 2 : ~Taken(pool, Suffixed(wanted, n))
  <1> SUFFICES ASSUME \A n \in 2 .. Len(pool) + 2 : Taken(pool, Suffixed(wanted, n))
               PROVE  FALSE
    OBVIOUS
  <1> DEFINE S == 2 .. Len(pool) + 2
             T == 1 .. Len(pool)
             f == [n \in S |-> CHOOSE i \in ActiveIn(pool) : pool[i].name = Suffixed(wanted, n)]
  <1>1. Len(pool) \in Nat /\ ActiveIn(pool) \subseteq T
    BY PoolRows
  <1>2. IsFiniteSet(S) /\ Cardinality(S) = Len(pool) + 1
    BY <1>1, FS_Interval
  <1>3. IsFiniteSet(T) /\ Cardinality(T) = Len(pool)
    <2>1. IsFiniteSet(T) /\ Cardinality(T) = IF 1 > Len(pool) THEN 0 ELSE (Len(pool) - 1) + 1
      BY <1>1, FS_Interval
    <2> QED
      BY <1>1, <2>1
  <1>4. \A n \in S : f[n] \in ActiveIn(pool) /\ pool[f[n]].name = Suffixed(wanted, n)
    BY DEF Taken
  <1>5. f \in [S -> T]
    BY <1>1, <1>4
  <1> HIDE DEF f
  <1>6. Cardinality(T) < Cardinality(S)
    BY <1>1, <1>2, <1>3
  <1>7. S \subseteq Nat
    BY <1>1
  <1> HIDE DEF S, T
  <1>8. PICK n, k \in S : n # k /\ f[n] = f[k]
    BY <1>2, <1>3, <1>5, <1>6, FS_PigeonHole
  <1>9. Suffixed(wanted, n) = Suffixed(wanted, k)
    BY <1>4, <1>8
  <1> QED
    BY <1>7, <1>8, <1>9, SuffixedNames

\* _free_name finds a name, and nobody has it.
LEMMA FreeNameIsFree ==
    ASSUME NEW pool \in Seq(AssetRow), NEW wanted \in AssetName
    PROVE  FreeName(pool, wanted) \in AssetName /\ ~Taken(pool, FreeName(pool, wanted))
  <1>1. CASE ~Taken(pool, wanted)
    BY <1>1 DEF FreeName
  <1>2. CASE Taken(pool, wanted)
    <2> DEFINE Free == {n \in 2 .. Len(pool) + 2 : ~Taken(pool, Suffixed(wanted, n))}
               First(n) == /\ ~Taken(pool, Suffixed(wanted, n))
                           /\ \A k \in 2 .. n - 1 : Taken(pool, Suffixed(wanted, k))
    <2>1. Len(pool) \in Nat
      BY PoolRows
    <2>2. Free # {} /\ Free \subseteq Nat
      BY <2>1, SomeNumberIsFree
    <2>3. PICK n \in Free : \A l \in Free : n <= l
      <3> HIDE DEF Free
      <3> QED
        BY <2>2, LeastOf
    <2>4. n \in 2 .. Len(pool) + 2 /\ n \in Nat
      BY <2>1, <2>2
    <2>5. ASSUME NEW k \in 2 .. n - 1 PROVE Taken(pool, Suffixed(wanted, k))
      <3>1. k \in Nat /\ k < n /\ k \in 2 .. Len(pool) + 2
        BY <2>1, <2>4
      <3> QED
        BY <2>3, <2>4, <3>1
    <2>6. First(n)
      BY <2>5
    <2> DEFINE m == CHOOSE x \in 2 .. Len(pool) + 2 : First(x)
    <2>7. m \in 2 .. Len(pool) + 2 /\ ~Taken(pool, Suffixed(wanted, m))
      BY <2>4, <2>6
    <2>8. FreeName(pool, wanted) = Suffixed(wanted, m)
      BY <1>2 DEF FreeName
    <2> HIDE DEF m
    <2>9. m \in Nat
      BY <2>1, <2>7
    <2> QED
      BY <2>7, <2>8, <2>9, SuffixedNames
  <1> QED
    BY <1>1, <1>2

-----------------------------------------------------------------------------
(* The statements of a transaction.                                         *)

\* What an upload becomes is in order, and keeps what the transaction began with.
LEMMA RegisteredKept ==
    ASSUME NEW n \in Nat, NEW pool, PoolKept(pool, n), NEW upload \in Upload,
           Len(Registered(pool, upload)) <= MaxAssets
    PROVE  /\ PoolKept(Registered(pool, upload), n)
           /\ \A old \in Seq(AssetRow) :
                 Outgrows(old, pool) /\ OnlyRegisters(old, pool) =>
                    /\ Outgrows(old, Registered(pool, upload))
                    /\ OnlyRegisters(old, Registered(pool, upload))
  <1> DEFINE name == FreeName(pool, upload.wanted)
             row == [name |-> name, source |-> upload.source, archived |-> 0]
             new == Append(pool, row)
  <1>1. pool \in Seq(AssetRow) /\ Len(pool) \in Nat /\ DOMAIN pool = 1 .. Len(pool)
    BY PoolRows DEF PoolKept
  <1>2. CASE \E i \in ActiveIn(pool) : pool[i].source = upload.source
    <2>1. Registered(pool, upload) = pool
      BY <1>2 DEF Registered
    <2> QED
      BY <2>1
  <1>3. CASE \A i \in ActiveIn(pool) : pool[i].source # upload.source
    <2>1. Registered(pool, upload) = new
      BY <1>3 DEF Registered
    <2>2. upload.wanted \in AssetName /\ upload.source \in Source
      BY NameAssumption DEF Upload, AssetName
    <2>3. name \in AssetName /\ ~Taken(pool, name)
      BY <1>1, <2>2, FreeNameIsFree
    <2> HIDE DEF name
    <2>4. row \in AssetRow /\ row.name = name /\ row.source = upload.source /\ row.archived = 0
      BY <2>2, <2>3 DEF AssetRow
    <2> HIDE DEF row
    <2>5. /\ new \in Seq(AssetRow) /\ Len(new) = Len(pool) + 1
          /\ DOMAIN new = 1 .. Len(pool) + 1 /\ new[Len(pool) + 1] = row
          /\ \A i \in DOMAIN pool : new[i] = pool[i]
      BY <1>1, <2>4
    <2> HIDE DEF new
    <2>6. \A i \in DOMAIN new : i \in DOMAIN pool \/ i = Len(pool) + 1
      BY <1>1, <2>5
    <2>7. \A i \in ActiveIn(new) : i \in ActiveIn(pool) \/ i = Len(pool) + 1
      BY <2>5, <2>6 DEF ActiveIn
    <2>8. \A i \in ActiveIn(pool) : pool[i].name # name /\ pool[i].source # upload.source
      BY <1>3, <2>3 DEF Taken
    <2>9. Distinct(new)
      <3> SUFFICES ASSUME NEW i \in ActiveIn(new), NEW j \in ActiveIn(new), i # j
                   PROVE  new[i].name # new[j].name /\ new[i].source # new[j].source
        BY DEF Distinct
      <3>1. CASE i \in ActiveIn(pool) /\ j \in ActiveIn(pool)
        BY <2>5, <3>1 DEF PoolKept, Distinct, ActiveIn
      <3>2. CASE i = Len(pool) + 1 /\ j \in ActiveIn(pool)
        <4>1. new[i] = row /\ new[j] = pool[j]
          BY <2>5, <3>2 DEF ActiveIn
        <4> QED
          BY <2>4, <2>8, <3>2, <4>1
      <3>3. CASE i \in ActiveIn(pool) /\ j = Len(pool) + 1
        <4>1. new[j] = row /\ new[i] = pool[i]
          BY <2>5, <3>3 DEF ActiveIn
        <4> QED
          BY <2>4, <2>8, <3>3, <4>1
      <3> QED
        BY <2>7, <3>1, <3>2, <3>3
    <2>10. \A i \in DOMAIN new : new[i].archived <= n
      BY <2>4, <2>5, <2>6 DEF PoolKept
    <2>11. PoolKept(new, n)
      BY <2>1, <2>5, <2>9, <2>10 DEF PoolKept
    <2>12. ASSUME NEW old \in Seq(AssetRow), Outgrows(old, pool), OnlyRegisters(old, pool)
           PROVE  Outgrows(old, new) /\ OnlyRegisters(old, new)
      <3>1. /\ DOMAIN old \subseteq DOMAIN pool /\ DOMAIN old \subseteq DOMAIN new
            /\ \A i \in DOMAIN old : new[i] = pool[i] /\ pool[i] = old[i]
        BY <1>1, <2>5, <2>12 DEF Outgrows, OnlyRegisters
      <3>2. ~Taken(old, name)
        BY <2>8, <2>12, <3>1 DEF Taken, ActiveIn, OnlyRegisters
      <3>3. ASSUME NEW i \in DOMAIN new \ DOMAIN old PROVE ~Taken(old, new[i].name)
        <4>1. CASE i \in DOMAIN pool
          BY <2>5, <2>12, <3>3, <4>1 DEF Outgrows
        <4>2. CASE i = Len(pool) + 1
          BY <2>4, <2>5, <3>2, <4>2
        <4> QED
          BY <2>6, <4>1, <4>2
      <3> QED
        BY <3>1, <3>3 DEF Outgrows, OnlyRegisters
    <2> QED
      BY <2>1, <2>11, <2>12
  <1> QED
    BY <1>2, <1>3

\* Archiving a row keeps them in order.
LEMMA ArchivedKept ==
    ASSUME NEW pool, PoolKept(pool, now + 1), now \in Nat, NEW found
    PROVE  /\ PoolKept(Archived(pool, found), now + 1)
           /\ \A old \in Seq(AssetRow) :
                 Outgrows(old, pool) => Outgrows(old, Archived(pool, found))
  <1> DEFINE row == [pool[found] EXCEPT !.archived = now + 1]
             new == [pool EXCEPT ![found] = row]
  <1>1. /\ pool \in Seq(AssetRow) /\ Len(pool) \in Nat /\ DOMAIN pool = 1 .. Len(pool)
        /\ \A i \in DOMAIN pool : pool[i] \in AssetRow /\ pool[i].archived <= now + 1
    BY PoolRows DEF PoolKept
  <1>2. CASE Archived(pool, found) = pool
    BY <1>2
  <1>3. CASE found \notin DOMAIN pool /\ Archived(pool, found) = new
    <2>1. new = pool
      <3> HIDE DEF row
      <3> QED
        BY <1>1, <1>3
    <2> QED
      BY <1>3, <2>1
  <1>4. CASE found \in DOMAIN pool /\ pool[found].archived = 0 /\ Archived(pool, found) = new
    <2>1. pool[found] \in AssetRow /\ now + 1 \in Nat /\ now + 1 # 0
      BY <1>1, <1>4
    <2>2. /\ row \in AssetRow /\ row.archived = now + 1
          /\ row.name = pool[found].name /\ row.source = pool[found].source
      BY <2>1 DEF AssetRow
    <2> HIDE DEF row
    <2>3. /\ DOMAIN new = DOMAIN pool /\ new[found] = row
          /\ \A i \in DOMAIN pool : i # found => new[i] = pool[i]
      BY <1>1, <1>4
    <2>4. new \in Seq(AssetRow) /\ Len(new) = Len(pool)
      BY <1>1, <1>4, <2>2
    <2> HIDE DEF new
    <2>5. ASSUME NEW i \in DOMAIN pool
          PROVE  /\ new[i].archived <= now + 1
                 /\ new[i].name = pool[i].name /\ new[i].source = pool[i].source
                 /\ pool[i].archived # 0 => new[i] = pool[i]
                 /\ new[i].archived = 0 => pool[i].archived = 0
      <3>1. CASE i = found
        BY <1>4, <2>1, <2>2, <2>3, <3>1
      <3>2. CASE i # found
        BY <1>1, <2>3, <3>2
      <3> QED
        BY <3>1, <3>2
    <2>6. ActiveIn(new) \subseteq ActiveIn(pool)
      BY <2>3, <2>5 DEF ActiveIn
    <2>7. Distinct(new)
      BY <2>5, <2>6 DEF PoolKept, Distinct, ActiveIn
    <2>8. PoolKept(new, now + 1)
      BY <2>3, <2>4, <2>5, <2>7 DEF PoolKept
    <2>9. ASSUME NEW old \in Seq(AssetRow), Outgrows(old, pool) PROVE Outgrows(old, new)
      BY <2>3, <2>5, <2>9 DEF Outgrows
    <2> QED
      BY <1>4, <2>8, <2>9
  <1>5. \/ Archived(pool, found) = pool
        \/ pool[found].archived = 0 /\ Archived(pool, found) = new
    BY DEF Archived
  <1> QED
    BY <1>2, <1>3, <1>4, <1>5

-----------------------------------------------------------------------------
(* The inductive invariant, and what a commit does.                         *)

LEMMA AssetInitKept ==
    ASSUME AssetInit
    PROVE  AssetInv
  <1>1. PoolKept(<<>>, 0) /\ PoolKept(<<>>, 1)
    BY AssetBounds DEF PoolKept, Distinct, ActiveIn
  <1>2. txn \in [open : BOOLEAN, archives : BOOLEAN, rows : Seq(AssetRow)]
    BY DEF AssetInit, NoTransaction
  <1> QED
    BY <1>1, <1>2, AssetBounds DEF AssetInit, AssetInv, TxnKept, NoTransaction

\* No transaction is open.
LEMMA ClosedKept ==
    ASSUME now' \in Nat, txn' = NoTransaction
    PROVE  TxnKept'
  <1>1. PoolKept(<<>>, now' + 1)
    BY AssetBounds DEF PoolKept, Distinct, ActiveIn
  <1>2. txn' \in [open : BOOLEAN, archives : BOOLEAN, rows : Seq(AssetRow)]
    BY DEF NoTransaction
  <1> QED
    BY <1>1, <1>2 DEF TxnKept, NoTransaction

LEMMA AssetStepKept ==
    ASSUME AssetInv, [AssetNext]_assetVars
    PROVE  AssetInv'
  <1>1. /\ now \in Nat /\ now \in 0 .. MaxChanges /\ MaxChanges \in Nat /\ PoolKept(assets, now)
        /\ assets \in Seq(AssetRow)
        /\ txn \in [open : BOOLEAN, archives : BOOLEAN, rows : Seq(AssetRow)]
        /\ PoolKept(txn.rows, now + 1) /\ TxnKept
    BY AssetBounds DEF AssetInv, TxnKept, PoolKept
  <1>2. CASE UNCHANGED assetVars
    BY <1>2 DEF AssetInv, TxnKept, assetVars
  <1>3. ASSUME NEW archives \in BOOLEAN, Begins(archives) PROVE AssetInv'
    <2>1. txn' = [open |-> TRUE, archives |-> archives, rows |-> assets] /\ now < MaxChanges
          /\ assets' = assets /\ now' = now
      BY <1>3 DEF Begins
    <2>2. txn' \in [open : BOOLEAN, archives : BOOLEAN, rows : Seq(AssetRow)]
      BY <1>1, <2>1
    <2>3. PoolKept(assets, now + 1)
      <3>1. \A i \in DOMAIN assets : assets[i].archived <= now + 1
        BY <1>1, PoolRows DEF PoolKept
      <3> QED
        BY <1>1, <3>1 DEF PoolKept
    <2>4. Outgrows(assets, assets) /\ OnlyRegisters(assets, assets)
      BY DEF Outgrows, OnlyRegisters
    <2> QED
      BY <1>1, <2>1, <2>2, <2>3, <2>4 DEF AssetInv, TxnKept
  <1>4. ASSUME NEW upload \in Upload, Register(upload) PROVE AssetInv'
    <2> DEFINE pool == Registered(txn.rows, upload)
    <2>1. /\ txn.open /\ ~txn.archives /\ txn' = [txn EXCEPT !.rows = pool]
          /\ Len(pool) <= MaxAssets /\ assets' = assets /\ now' = now
      BY <1>4 DEF Register
    <2>2. now < MaxChanges /\ Outgrows(assets, txn.rows) /\ OnlyRegisters(assets, txn.rows)
      BY <1>1, <2>1 DEF TxnKept
    <2>3. /\ PoolKept(pool, now + 1) /\ Outgrows(assets, pool) /\ OnlyRegisters(assets, pool)
      <3>1. now + 1 \in Nat
        BY <1>1
      <3>2. PoolKept(pool, now + 1)
        BY <1>1, <2>1, <3>1, RegisteredKept
      <3>3. Outgrows(assets, pool) /\ OnlyRegisters(assets, pool)
        BY <1>1, <2>1, <2>2, <3>1, RegisteredKept
      <3> QED
        BY <3>2, <3>3
    <2> HIDE DEF pool
    <2>4. /\ txn' \in [open : BOOLEAN, archives : BOOLEAN, rows : Seq(AssetRow)]
          /\ txn'.open = txn.open /\ txn'.archives = txn.archives /\ txn'.rows = pool
      BY <1>1, <2>1, <2>3 DEF PoolKept
    <2> QED
      BY <1>1, <2>1, <2>2, <2>3, <2>4 DEF AssetInv, TxnKept
  <1>5. ASSUME NEW target \in Target, Archive(target) PROVE AssetInv'
    <2> PICK i \in FindAny(txn.rows, target) :
               txn' = [txn EXCEPT !.archives = TRUE, !.rows = Archived(txn.rows, i)]
      BY <1>5 DEF Archive
    <2> DEFINE pool == Archived(txn.rows, i)
    <2>1. /\ txn.open /\ txn' = [txn EXCEPT !.archives = TRUE, !.rows = pool]
          /\ assets' = assets /\ now' = now
      BY <1>5 DEF Archive
    <2>2. now < MaxChanges /\ Outgrows(assets, txn.rows)
      BY <1>1, <2>1 DEF TxnKept
    <2>3. PoolKept(pool, now + 1) /\ Outgrows(assets, pool)
      BY <1>1, <2>2, ArchivedKept
    <2> HIDE DEF pool
    <2>4. /\ txn' \in [open : BOOLEAN, archives : BOOLEAN, rows : Seq(AssetRow)]
          /\ txn'.open = txn.open /\ txn'.archives = TRUE /\ txn'.rows = pool
      BY <1>1, <2>1, <2>3 DEF PoolKept
    <2> QED
      BY <1>1, <2>1, <2>2, <2>3, <2>4 DEF AssetInv, TxnKept
  <1>6. CASE Commit
    <2>1. /\ txn.open /\ assets' = txn.rows /\ now' = now + 1 /\ txn' = NoTransaction
      BY <1>6 DEF Commit
    <2>2. now < MaxChanges
      BY <1>1, <2>1 DEF TxnKept
    <2>3. now' \in Nat /\ now' \in 0 .. MaxChanges
      BY <1>1, <2>1, <2>2
    <2>4. PoolKept(assets', now')
      BY <1>1, <2>1
    <2> QED
      BY <2>1, <2>3, <2>4, ClosedKept DEF AssetInv
  <1>7. CASE Rollback
    <2>1. txn' = NoTransaction /\ assets' = assets /\ now' = now
      BY <1>7 DEF Rollback
    <2> QED
      BY <1>1, <2>1, ClosedKept DEF AssetInv
  <1> QED
    BY <1>2, <1>3, <1>4, <1>5, <1>6, <1>7 DEF AssetNext, ApplyTurnChanges, ArchiveSessionAssets

\* The names and sources of active assets are told apart, and a transaction
\* grows out of the rows it began with.
THEOREM AssetInvHolds == AssetSpec => []AssetInv
  <1> QED
    BY AssetInitKept, AssetStepKept, PTL DEF AssetSpec

\* The variables of the pool have their types.
THEOREM AssetTypeCorrect == AssetSpec => []AssetTypeOK
  <1>1. ASSUME AssetInv PROVE AssetTypeOK
    <2>1. ASSUME NEW pool, NEW n \in 0 .. MaxChanges, PoolKept(pool, n)
          PROVE  /\ Len(pool) <= MaxAssets
                 /\ \A i \in DOMAIN pool :
                       /\ pool[i].name.base \in STRING /\ pool[i].name.suffix \in Seq(Nat)
                       /\ pool[i].source \in Source /\ pool[i].archived \in 0 .. MaxChanges
      <3>1. \A i \in DOMAIN pool : pool[i] \in AssetRow /\ pool[i].archived <= n
        BY <2>1, PoolRows DEF PoolKept
      <3>2. \A i \in DOMAIN pool : pool[i].name \in AssetName /\ pool[i].source \in Source
                                  /\ pool[i].archived \in Nat
        BY <3>1 DEF AssetRow
      <3>3. \A i \in DOMAIN pool :
               pool[i].name.base \in STRING /\ pool[i].name.suffix \in Seq(Nat)
        BY <3>2 DEF AssetName
      <3> QED
        BY <2>1, <3>1, <3>2, <3>3, AssetBounds DEF PoolKept
    <2>2. txn.open \in BOOLEAN /\ txn.archives \in BOOLEAN /\ now \in 0 .. MaxChanges
      BY <1>1 DEF AssetInv, TxnKept
    <2>3. PoolKept(assets, now)
      BY <1>1 DEF AssetInv
    <2>4. CASE txn.open
      <3>1. now + 1 \in 0 .. MaxChanges /\ PoolKept(txn.rows, now + 1)
        BY <1>1, <2>2, <2>4, AssetBounds DEF AssetInv, TxnKept
      <3> QED
        BY <2>1, <2>2, <2>3, <3>1 DEF AssetTypeOK
    <2>5. CASE ~txn.open
      <3>1. txn.rows = <<>>
        BY <1>1, <2>5 DEF AssetInv, TxnKept
      <3>2. Len(txn.rows) <= MaxAssets /\ DOMAIN txn.rows = {}
        BY <3>1, AssetBounds
      <3> QED
        BY <2>1, <2>2, <2>3, <3>2 DEF AssetTypeOK
    <2> QED
      BY <2>4, <2>5
  <1> QED
    BY <1>1, AssetInvHolds, PTL

\* In whatever order and however often is uploaded and archived, what an asset is
\* stays, active ones differ in name and source, and a name and an id keep their
\* asset until it is archived, as long as no name clashes with an id.
THEOREM AssetsKeep == AssetSpec => AssetsKeepTheirIdentity
  <1> DEFINE Told == \A i, j \in ActiveIn(assets) :
                         i # j => assets[i].name # assets[j].name /\ assets[i].source # assets[j].source
             Step ==
                /\ \A i \in DOMAIN assets :
                      /\ [assets'[i] EXCEPT !.archived = 0] = [assets[i] EXCEPT !.archived = 0]
                      /\ assets[i].archived # 0 => assets'[i] = assets[i]
                /\ \A i \in ActiveIn(assets) \cap ActiveIn(assets') : ~Clashes(assets', i) =>
                      Resolved(assets', assets[i].name) = {i} /\ Resolved(assets', IdOf(i)) = {i}
                /\ \A i \in DOMAIN assets' \ DOMAIN assets :
                      assets'[i].archived # 0 => ~Taken(assets, assets'[i].name)
  <1>1. AssetInv => Told
    BY DEF AssetInv, PoolKept, Distinct
  <1>2. ASSUME AssetInv, AssetInv', Commit PROVE Step
    <2>1. /\ assets \in Seq(AssetRow) /\ assets' \in Seq(AssetRow) /\ Distinct(assets')
          /\ Outgrows(assets, assets')
      BY <1>2 DEF AssetInv, TxnKept, PoolKept, Commit
    <2>2. /\ \A i \in DOMAIN assets : assets[i] \in AssetRow
          /\ \A i \in DOMAIN assets' : assets'[i] \in AssetRow /\ i \in Nat
      BY <2>1, PoolRows
    <2>3. ASSUME NEW i \in DOMAIN assets
          PROVE  [assets'[i] EXCEPT !.archived = 0] = [assets[i] EXCEPT !.archived = 0]
      <3>1. /\ assets'[i] \in AssetRow /\ assets[i] \in AssetRow
            /\ assets'[i].name = assets[i].name /\ assets'[i].source = assets[i].source
        BY <2>1, <2>2 DEF Outgrows
      <3> QED
        BY <3>1 DEF AssetRow
    <2>4. ASSUME NEW i \in ActiveIn(assets), i \in ActiveIn(assets'), ~Clashes(assets', i)
          PROVE  Resolved(assets', assets[i].name) = {i} /\ Resolved(assets', IdOf(i)) = {i}
      <3>1. assets'[i].name = assets[i].name
        BY <2>1, <2>4 DEF Outgrows, ActiveIn
      <3>2. \A k \in ActiveIn(assets') :
               /\ k \in Nat
               /\ k # i => /\ assets'[k].name # assets[i].name
                          /\ assets'[k].name # IdOf(i) /\ IdOf(k) # assets[i].name
        BY <2>1, <2>2, <2>4, <3>1 DEF Distinct, Clashes, ActiveIn
      <3>3. \A k \in Nat : k # i => IdOf(k) # IdOf(i)
        <4>1. \A k \in Nat : IdOf(k).suffix = <<k>>
          BY DEF IdOf
        <4>2. \A k \in Nat : <<k>> = <<i>> => k = i
          OBVIOUS
        <4> QED
          BY <2>2, <2>4, <4>1, <4>2 DEF ActiveIn
      <3>4. \A k \in ActiveIn(assets') : Is(assets', k, assets[i].name) <=> k = i
        BY <2>4, <3>1, <3>2 DEF Is
      <3>5. \A k \in ActiveIn(assets') : Is(assets', k, IdOf(i)) <=> k = i
        BY <2>4, <3>2, <3>3 DEF Is
      <3>6. Matching(assets', assets[i].name) = {i} /\ Matching(assets', IdOf(i)) = {i}
        BY <2>4, <3>4, <3>5 DEF Matching
      <3> QED
        BY <2>4, <3>2, <3>6 DEF Resolved
    <2> QED
      BY <2>1, <2>3, <2>4 DEF Outgrows
  <1>3. AssetInv /\ [AssetNext]_assetVars => UNCHANGED assets \/ Commit
    BY DEF AssetNext, ApplyTurnChanges, ArchiveSessionAssets, Begins, Register, Archive, Rollback,
           assetVars
  <1>4. AssetInv /\ AssetInv' /\ [AssetNext]_assetVars => [Step]_assets
    BY <1>2, <1>3
  <1> HIDE DEF Told, Step
  <1>5. AssetSpec => []Told /\ [][Step]_assets
    BY <1>1, <1>4, AssetInvHolds, PTL DEF AssetSpec
  <1> QED
    BY <1>5 DEF AssetsKeepTheirIdentity, Told, Step
=============================================================================
