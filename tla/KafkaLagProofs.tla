--------------------------- MODULE KafkaLagProofs ---------------------------
(***************************************************************************)
(* Authorization and stale accounting, for any partitions, any number of   *)
(* records, crashes and clock changes, and for all time.                   *)
(*                                                                         *)
(* A time is a fact about the log: "all that came before t is within the   *)
(* first n records".  The invariant says that each time the monitor has    *)
(* written down, in the observations of the probe under way, in pending    *)
(* fences, in the coverage and in the row, is such a fact, and is not      *)
(* ahead of real time.  Records that come later cannot make it false.      *)
(***************************************************************************)
EXTENDS KafkaLag, FiniteSetTheorems, SequenceTheorems, TLAPS

Fences == [end : Nat, at : Nat]

SeenRows == [next : Nat, observed : Nat, end : Nat \cup {Unread}]

Covers == [next : Nat, end : Nat, observed : Nat, covered : Nat, pending : Seq(Fences)]

Rows == [checked : Nat, covered : Nat, available : BOOLEAN]

ProbeTyping ==
    /\ probe = [started |-> probe.started, parts |-> probe.parts, seen |-> probe.seen]
    /\ probe.started \in Nat
    /\ probe.parts \subseteq Partitions
    /\ probe.seen \in [Partitions -> SeenRows]

LagTyping ==
    /\ real \in Nat /\ back \in Nat /\ Clock >= 1
    /\ topic \subseteq Partitions
    /\ log \in [Partitions -> Seq(Nat)]
    /\ next \in [Partitions -> Nat]
    /\ polled \in Nat
    /\ coverage \in [Partitions -> Covers]
    /\ row \in Rows

\* All that came before t is within the first n of a partition's records, and t is not
\* ahead.
Within(records, now, t, n) ==
    /\ t <= now
    /\ \A i \in DOMAIN records : records[i] < t => i <= n

CoverTrue(c, records, now, n) ==
    /\ Within(records, now, c.covered, n)
    /\ \A i \in DOMAIN c.pending : Within(records, now, c.pending[i].at, c.pending[i].end)

\* A partition has no records before it is there.
TopicHoldsRecords == \A p \in Partitions \ topic : log[p] = <<>>

CoverageTrue == \A p \in Partitions : CoverTrue(coverage[p], log[p], real, next[p])

ProbeTrue ==
    /\ polled <= real
    /\ probe.started <= polled
    /\ \A p \in probe.parts :
          /\ probe.seen[p].observed <= real
          /\ probe.seen[p].next <= next[p]
          /\ Seen(p) => Within(log[p], real, probe.seen[p].observed, probe.seen[p].end)
    /\ probe # NoProbe =>
          \A p \in Partitions \ probe.parts : \A i \in DOMAIN log[p] : probe.started <= log[p][i]

RowTrue ==
    /\ row.checked <= polled
    /\ \A p \in Partitions : Within(log[p], real, row.covered, next[p])

LagInv == LagTyping /\ ProbeTyping /\ TopicHoldsRecords /\ CoverageTrue /\ ProbeTrue /\ RowTrue

-----------------------------------------------------------------------------
(***************************************************************************)
(* Least and greatest elements                                             *)
(***************************************************************************)
LEMMA LeastBelow ==
    ASSUME NEW n \in Nat, NEW S \in SUBSET (0 .. n), S # {}
    PROVE  \E k \in S : \A m \in S : k <= m
<1> DEFINE upTo(i) == {j \in S : j <= i}
           T == {upTo(i) : i \in S}
<1>1. IsFiniteSet(S)
  <2>1. IsFiniteSet(0 .. n)
    BY FS_Interval
  <2> QED
    BY <2>1, FS_Subset
<1>2. T \subseteq FiniteSubsetsOf(S) /\ T # {}
  <2>1. T \subseteq SUBSET S /\ T # {}
    OBVIOUS
  <2> QED
    BY <1>1, <2>1, FS_FiniteSubsetsOfFinite
<1> HIDE DEF T
<1>3. PICK U \in T : \A V \in T : <<V, U>> \notin StrictSubsetOrdering(S)
  BY <1>2, FS_StrictSubsetOrderingWellFounded, WFMin
<1>4. PICK i \in S : U = upTo(i)
  BY DEF T
<1>5. ASSUME NEW j \in S, ~(i <= j) PROVE FALSE
  <2>1. upTo(j) \in T /\ upTo(j) \subseteq S /\ upTo(i) \subseteq S
    BY DEF T
  <2>2. i \in Int /\ j \in Int /\ j < i /\ \A k \in S : k \in Int
    BY <1>5
  <2>3. \A k \in S : k <= j => k <= i
    BY <2>2
  <2>4. \A k : k \in upTo(j) => k \in upTo(i)
    BY <2>3
  <2>5. i \in upTo(i) /\ i \notin upTo(j)
    BY <1>5, <2>2
  <2>6. <<upTo(j), upTo(i)>> \in StrictSubsetOrdering(S)
    BY <2>1, <2>4, <2>5 DEF StrictSubsetOrdering
  <2> QED
    BY <1>3, <1>4, <2>1, <2>6
<1> QED
  BY <1>5

\* A set of numbers has its least element.
LEMMA MinExists ==
    ASSUME NEW S \in SUBSET Nat, NEW n \in S
    PROVE  Min(S) \in S /\ \A m \in S : Min(S) <= m
<1> DEFINE B == {m \in S : m <= n}
<1>1. n \in Nat /\ B \in SUBSET (0 .. n) /\ n \in B
  <2>1. n \in Nat
    OBVIOUS
  <2>2. \A m \in B : m \in 0 .. n
    BY <2>1
  <2>3. n \in B
    BY <2>1
  <2> QED
    BY <2>1, <2>2, <2>3
<1> HIDE DEF B
<1>2. PICK k \in B : \A m \in B : k <= m
  BY <1>1, LeastBelow
<1>3. k \in S /\ k <= n
  BY DEF B
<1>4. \A m \in S : k <= m
  <2> TAKE m \in S
  <2>1. CASE m <= n
    BY <1>2, <2>1 DEF B
  <2>2. CASE ~(m <= n)
    BY <1>3, <2>2
  <2> QED
    BY <2>1, <2>2
<1> QED
  BY <1>3, <1>4 DEF Min

\* A set of indices has its greatest element.
LEMMA MaxExists ==
    ASSUME NEW n \in Nat, NEW S \in SUBSET (1 .. n), S # {}
    PROVE  Max(S) \in S
<1> DEFINE T == {n - i : i \in S}
<1>1. T \in SUBSET (0 .. n) /\ T # {}
  <2>1. \A i \in S : n - i \in 0 .. n
    OBVIOUS
  <2>2. \A t \in T : t \in 0 .. n
    BY <2>1
  <2> QED
    BY <2>2
<1> HIDE DEF T
<1>2. PICK k \in T : \A m \in T : k <= m
  BY <1>1, LeastBelow
<1>3. PICK x \in S : k = n - x
  BY DEF T
<1>4. \A y \in S : x >= y
  <2> TAKE y \in S
  <2>1. n - y \in T
    BY DEF T
  <2>2. n - x <= n - y
    BY <1>2, <1>3, <2>1
  <2> QED
    BY <2>2
<1> QED
  BY <1>4 DEF Max

-----------------------------------------------------------------------------
(***************************************************************************)
(* lagCoverage.update                                                      *)
(***************************************************************************)
LEMMA ConsumedIsPrefix ==
    ASSUME NEW fences \in Seq(Fences), NEW n, NEW cutoff
    PROVE  Consumed(fences, n, cutoff) \in 0 .. Len(fences)
<1> DEFINE S == {i \in 1 .. Len(fences) : fences[i].end > n /\ fences[i].at > cutoff}
                    \cup {Len(fences) + 1}
<1>1. S \in SUBSET Nat /\ Len(fences) + 1 \in S /\ S \subseteq 1 .. Len(fences) + 1
  OBVIOUS
<1> HIDE DEF S
<1>2. Min(S) \in S
  BY <1>1, MinExists
<1>3. Consumed(fences, n, cutoff) = Min(S) - 1
  BY DEF Consumed, S
<1>4. Min(S) \in 1 .. Len(fences) + 1 /\ Len(fences) \in Nat
  <2>1. Len(fences) \in Nat
    OBVIOUS
  <2> QED
    BY <1>1, <1>2, <2>1
<1>5. Min(S) - 1 \in 0 .. Len(fences)
  BY <1>4
<1> QED
  BY <1>3, <1>5

\* A partition is covered through the time it was covered through, or that of a fence
\* which the checkpoint has reached.
LEMMA CoveredByReached ==
    ASSUME NEW fences \in Seq(Fences), NEW n, NEW k \in 0 .. Len(fences), NEW covered
    PROVE  \/ CoveredBy(fences, n, k, covered) = covered
           \/ \E i \in 1 .. Len(fences) :
                 fences[i].end <= n /\ CoveredBy(fences, n, k, covered) = fences[i].at
<1> DEFINE reached == {i \in 1 .. k : fences[i].end <= n}
<1>1. CASE reached = {}
  BY <1>1 DEF CoveredBy
<1>2. CASE reached # {}
  <2>1. reached \in SUBSET (1 .. k) /\ k \in Nat
    OBVIOUS
  <2>2. Max(reached) \in reached
    BY <1>2, <2>1, MaxExists
  <2>3. CoveredBy(fences, n, k, covered) = fences[Max(reached)].at
    BY <1>2 DEF CoveredBy
  <2>4. Max(reached) \in 1 .. Len(fences) /\ fences[Max(reached)].end <= n
    BY <2>2
  <2> QED
    BY <2>3, <2>4
<1> QED
  BY <1>1, <1>2

\* A fence that a partition has after a probe: the probe's, or one it had.
FenceAfter(c, seen, f) ==
    \/ f.end = seen.end /\ f.at = seen.observed
    \/ \E i \in DOMAIN c.pending : f = c.pending[i]

\* A cover advances to a fence the committed offset has reached, and keeps only
\* fences it had or the one just seen.
LEMMA AdvancedMeans ==
    ASSUME NEW c \in Covers, NEW seen \in SeenRows, seen.end # Unread, NEW checked
    PROVE  LET after == Advanced(c, seen, checked)
           IN  /\ after \in Covers
               /\ \/ after.covered = c.covered
                  \/ \E f \in Fences :
                        FenceAfter(c, seen, f) /\ f.end <= seen.next /\ after.covered = f.at
               /\ \A i \in DOMAIN after.pending : FenceAfter(c, seen, after.pending[i])
<1> DEFINE mine == [end |-> seen.end, at |-> seen.observed]
           fences == Append(c.pending, mine)
           k == Consumed(fences, seen.next, checked - MaxAge)
           rest == SubSeq(fences, k + 1, Len(fences))
           through == CoveredBy(fences, seen.next, k, c.covered)
           after == Advanced(c, seen, checked)
<1>1. mine \in Fences /\ c.pending \in Seq(Fences) /\ c.covered \in Nat
  BY DEF Fences, SeenRows, Covers, Unread
<1>2. after = [next |-> seen.next, end |-> seen.end, observed |-> seen.observed,
               covered |-> through, pending |-> rest]
  BY DEF Advanced
<1>3. seen.next \in Nat /\ seen.end \in Nat /\ seen.observed \in Nat
  BY DEF SeenRows, Unread
<1> HIDE DEF after
<1>4. mine.end = seen.end /\ mine.at = seen.observed
  OBVIOUS
<1> HIDE DEF mine
<1>5. /\ fences \in Seq(Fences)
      /\ \A i \in 1 .. Len(fences) : FenceAfter(c, seen, fences[i])
  <2>1. fences \in Seq(Fences) /\ Len(fences) = Len(c.pending) + 1 /\ Len(c.pending) \in Nat
    BY <1>1
  <2>2. fences[Len(c.pending) + 1] = mine /\ \A i \in 1 .. Len(c.pending) : fences[i] = c.pending[i]
    BY <1>1
  <2>3. DOMAIN c.pending = 1 .. Len(c.pending)
    BY <1>1
  <2> HIDE DEF fences
  <2>4. \A i \in 1 .. Len(fences) : i = Len(c.pending) + 1 \/ i \in 1 .. Len(c.pending)
    BY <2>1
  <2> QED
    BY <1>4, <2>1, <2>2, <2>3, <2>4 DEF FenceAfter
<1> HIDE DEF fences
<1>6. k \in 0 .. Len(fences) /\ Len(fences) \in Nat
  BY <1>5, ConsumedIsPrefix
<1> HIDE DEF k
<1>7. /\ rest \in Seq(Fences)
      /\ \A i \in DOMAIN rest : i + k \in 1 .. Len(fences) /\ rest[i] = fences[i + k]
  <2>1. k + 1 \in 1 .. Len(fences) + 1 /\ Len(fences) \in 0 .. Len(fences)
    BY <1>6
  <2>2. /\ rest \in Seq(Fences)
        /\ Len(rest) = Len(fences) - k
        /\ \A i \in 1 .. Len(fences) - k : rest[i] = fences[i + k]
    BY <1>5, <1>6, <2>1, SubSeqProperties
  <2>3. DOMAIN rest = 1 .. Len(fences) - k
    BY <2>2
  <2> HIDE DEF rest
  <2> QED
    BY <1>6, <2>2, <2>3
<1> HIDE DEF rest
<1>8. \/ through = c.covered
      \/ \E i \in 1 .. Len(fences) : fences[i].end <= seen.next /\ through = fences[i].at
  BY <1>5, <1>6, CoveredByReached
<1> HIDE DEF through
<1>9. through \in Nat
  <2>1. \A i \in 1 .. Len(fences) : fences[i] \in Fences
    BY <1>5
  <2>2. \A i \in 1 .. Len(fences) : fences[i].at \in Nat
    BY <2>1 DEF Fences
  <2> QED
    BY <1>1, <1>8, <2>2
<1>10. after \in Covers
  BY <1>2, <1>3, <1>7, <1>9 DEF Covers
<1>11. after.covered = through /\ after.pending = rest
  BY <1>2
<1>12. \A i \in DOMAIN rest : FenceAfter(c, seen, rest[i])
  BY <1>5, <1>7
<1>13. through = c.covered \/ \E f \in Fences : FenceAfter(c, seen, f) /\ f.end <= seen.next /\ through = f.at
  BY <1>5, <1>8
<1> QED
  BY <1>10, <1>11, <1>12, <1>13 DEF after

\* What a probe saves is no later than its start, nor than what any of its partitions
\* is covered through.
LEMMA LagMeans ==
    ASSUME NEW cover \in [Partitions -> Covers], NEW parts \in SUBSET Partitions,
           NEW started \in Nat, NEW checked \in Nat
    PROVE  LET h == Lag(cover, parts, started, checked)
           IN  /\ h \in Rows
               /\ h.checked = started
               /\ h.covered <= started
               /\ \A p \in parts : h.covered <= cover[p].covered
<1> DEFINE S == {cover[p].covered : p \in parts} \cup {checked}
           h == Lag(cover, parts, started, checked)
<1>1. S \in SUBSET Nat /\ checked \in S /\ \A p \in parts : cover[p].covered \in S
  BY DEF Covers
<1> HIDE DEF S
<1>2. Min(S) \in Nat /\ \A m \in S : Min(S) <= m
  BY <1>1, MinExists
<1> DEFINE Q == {Min(S), started}
<1>3. Q \in SUBSET Nat /\ started \in Q /\ Min(S) \in Q
  BY <1>2
<1> HIDE DEF Q
<1>4. Min(Q) \in Nat /\ Min(Q) <= started /\ Min(Q) <= Min(S)
  BY <1>3, MinExists
<1>5. h = [checked |-> started, covered |-> Min(Q), available |-> Min(S) > 0]
  BY DEF Lag, S, Q
<1>6. h \in Rows
  BY <1>4, <1>5 DEF Rows
<1>7. \A p \in parts : cover[p].covered \in Nat
  BY DEF Covers
<1>8. \A p \in parts : Min(Q) <= cover[p].covered
  BY <1>1, <1>2, <1>4, <1>7
<1> QED
  BY <1>4, <1>5, <1>6, <1>8

-----------------------------------------------------------------------------
(***************************************************************************)
(* Types                                                                   *)
(***************************************************************************)
LEMMA NoLagIsRow ==
    ASSUME ProbeTyping
    PROVE  /\ NoLag \in Rows /\ NoLag.covered = 0 /\ NoLag.checked = 0
           /\ [NoLag EXCEPT !.checked = probe.started] \in Rows
           /\ [NoLag EXCEPT !.checked = probe.started].covered = 0
           /\ [NoLag EXCEPT !.checked = probe.started].checked = probe.started
BY DEF NoLag, Rows, ProbeTyping

\* No probe is a probe with nothing to read.
LEMMA NoProbeTyped == NoProbe.parts = {} /\ NoProbe.started = 0 /\ (probe = NoProbe => ProbeTyping)
BY DEF NoProbe, Unseen, Unread, SeenRows, ProbeTyping

\* A partition not yet covered is covered up to time 0, with no fence pending.
LEMMA UncoveredTyped == Uncovered \in Covers /\ Uncovered.covered = 0 /\ Uncovered.pending = <<>>
<1>1. <<>> \in Seq(Fences)
  OBVIOUS
<1> QED
  BY <1>1 DEF Uncovered, Covers

\* A cover forgotten is one up to time 0, with no fence pending.
LEMMA ForgottenTyped ==
    ASSUME NEW c \in Covers
    PROVE  Forgotten(c) \in Covers /\ Forgotten(c).covered = 0 /\ Forgotten(c).pending = <<>>
<1>1. <<>> \in Seq(Fences)
  OBVIOUS
<1> QED
  BY <1>1 DEF Forgotten, Covers

\* What Update does, in terms of what its fences mean.
LEMMA UpdateMeans ==
    ASSUME LagTyping, ProbeTyping, Update
    PROVE  /\ coverage' \in [Partitions -> Covers]
           /\ \A p \in Partitions \ probe.parts : coverage'[p] = coverage[p]
           /\ \A p \in probe.parts :
                 /\ Seen(p)
                 /\ coverage'[p] = Advanced(coverage[p], probe.seen[p], Clock)
           /\ \/ row' = row
              \/ /\ row' \in Rows /\ row'.checked = probe.started /\ row'.covered <= probe.started
                 /\ \A p \in probe.parts : row'.covered <= coverage'[p].covered
<1>1. /\ coverage' = [p \in Partitions |->
            IF p \in probe.parts THEN Advanced(coverage[p], probe.seen[p], Clock) ELSE coverage[p]]
      /\ row' \in {Lag(coverage', probe.parts, probe.started, Clock), row}
      /\ \A p \in probe.parts : Seen(p)
  BY DEF Update, Complete, Save
<1>2. \A p \in probe.parts : Advanced(coverage[p], probe.seen[p], Clock) \in Covers
  BY <1>1, AdvancedMeans DEF LagTyping, ProbeTyping, Seen
<1>3. coverage' \in [Partitions -> Covers]
  BY <1>1, <1>2 DEF LagTyping
<1>4. Clock \in Nat
  BY DEF Clock, LagTyping
<1>5. probe.parts \in SUBSET Partitions /\ probe.started \in Nat
  BY DEF ProbeTyping
<1>6. LET h == Lag(coverage', probe.parts, probe.started, Clock)
      IN  h \in Rows /\ h.checked = probe.started /\ h.covered <= probe.started
          /\ \A p \in probe.parts : h.covered <= coverage'[p].covered
  BY <1>3, <1>4, <1>5, LagMeans
<1> QED
  BY <1>1, <1>3, <1>5, <1>6

\* Every step keeps the types of the broker's and the monitor's state.
LEMMA TypingStep ==
    ASSUME LagTyping, ProbeTyping, LagNext
    PROVE  LagTyping'
<1> USE DEF LagTyping, clockVars, kafkaVars, monitorVars, Clock
<1>1. CASE BeginProbe
  BY <1>1 DEF BeginProbe
<1>2. CASE FailProbe
  BY <1>2, NoLagIsRow DEF FailProbe, Save
<1>3. CASE Regress
  <2>1. coverage' \in [Partitions -> Covers]
    BY <1>3, ForgottenTyped DEF Regress
  <2> QED
    BY <1>3, <2>1, NoLagIsRow DEF Regress, Save
<1>4. CASE Update
  <2>1. coverage' \in [Partitions -> Covers] /\ row' \in Rows
    BY <1>4, UpdateMeans
  <2> QED
    BY <1>4, <2>1 DEF Update
<1>5. CASE Start
  BY <1>5, NoLagIsRow DEF Start
<1>6. CASE Stop
  BY <1>6, NoLagIsRow, UncoveredTyped DEF Stop, Save
<1>7. CASE Tick
  BY <1>7 DEF Tick
<1>8. CASE SetBack
  BY <1>8 DEF SetBack
<1>9. ASSUME NEW p \in Partitions, Look(p) \/ ReadEnd(p) \/ AddPartition(p) PROVE LagTyping'
  BY <1>9 DEF Look, ReadEnd, AddPartition
<1>10. ASSUME NEW p \in Partitions, Consume(p) PROVE LagTyping'
  BY <1>10 DEF Consume
<1>11. ASSUME NEW p \in Partitions, Produce(p) PROVE LagTyping'
  <2>1. Append(log[p], real) \in Seq(Nat)
    OBVIOUS
  <2> QED
    BY <1>11, <2>1 DEF Produce
<1> QED
  BY <1>1, <1>2, <1>3, <1>4, <1>5, <1>6, <1>7, <1>8, <1>9, <1>10, <1>11 DEF LagNext

\* The two steps of a probe at a partition change what it has seen of that partition.
SeesOf(p, seen) ==
    /\ seen \in SeenRows
    /\ probe' = [started |-> probe.started, parts |-> probe.parts, seen |-> [probe.seen EXCEPT ![p] = seen]]

\* Reading a committed offset notes it with the time it was read.
LEMMA LookMeans ==
    ASSUME LagTyping, ProbeTyping, NEW p \in Partitions, Look(p)
    PROVE  /\ SeesOf(p, [next |-> next[p], observed |-> Clock, end |-> Unread])
           /\ ProbeTyping'
<1> DEFINE mine == [next |-> next[p], observed |-> Clock, end |-> Unread]
<1>1. mine \in SeenRows
  <2>1. next[p] \in Nat /\ Clock \in Nat
    BY DEF Clock, LagTyping
  <2> QED
    BY <2>1 DEF SeenRows
<1>2. probe' = [probe EXCEPT !.seen[p] = mine]
  BY DEF Look
<1> HIDE DEF mine
<1>3. probe' = [started |-> probe.started, parts |-> probe.parts, seen |-> [probe.seen EXCEPT ![p] = mine]]
  BY <1>2 DEF ProbeTyping
<1>4. ProbeTyping'
  BY <1>1, <1>3 DEF ProbeTyping
<1> QED
  BY <1>1, <1>3, <1>4 DEF SeesOf, mine

\* Reading the end of a log notes it beside the offset read before.
LEMMA ReadEndMeans ==
    ASSUME LagTyping, ProbeTyping, NEW p \in Partitions, ReadEnd(p)
    PROVE  /\ SeesOf(p, [next |-> probe.seen[p].next, observed |-> probe.seen[p].observed, end |-> Len(log[p])])
           /\ ProbeTyping'
<1> DEFINE s == probe.seen[p]
           mine == [next |-> s.next, observed |-> s.observed, end |-> Len(log[p])]
<1>1. s \in SeenRows
  BY DEF ProbeTyping
<1>2. mine \in SeenRows
  <2>1. Len(log[p]) \in Nat
    BY DEF LagTyping
  <2> QED
    BY <1>1, <2>1 DEF SeenRows
<1>3. [s EXCEPT !.end = Len(log[p])] = mine
  BY <1>1 DEF SeenRows
<1>4. probe' = [probe EXCEPT !.seen[p] = [s EXCEPT !.end = Len(log[p])]]
  BY DEF ReadEnd, ProbeTyping
<1>5. probe' = [started |-> probe.started, parts |-> probe.parts, seen |-> [probe.seen EXCEPT ![p] = mine]]
  BY <1>3, <1>4 DEF ProbeTyping
<1> HIDE DEF mine
<1>6. ProbeTyping'
  BY <1>2, <1>5 DEF ProbeTyping
<1> QED
  BY <1>2, <1>5, <1>6 DEF SeesOf, mine

\* Every step keeps the types of the probe.
LEMMA ProbeTypingStep ==
    ASSUME LagTyping, ProbeTyping, LagNext
    PROVE  ProbeTyping'
<1> USE DEF ProbeTyping
<1>1. CASE BeginProbe
  <2>1. probe' = [started |-> Clock, parts |-> topic, seen |-> [p \in Partitions |-> Unseen]]
    BY <1>1 DEF BeginProbe, NoProbe
  <2>2. Unseen \in SeenRows /\ Clock \in Nat
    BY DEF Unseen, Unread, SeenRows, Clock, LagTyping
  <2> QED
    BY <2>1, <2>2 DEF LagTyping
<1>2. CASE FailProbe \/ Regress \/ Update \/ Stop
  <2>1. probe' = NoProbe
    BY <1>2 DEF FailProbe, Regress, Update, Stop
  <2> QED
    BY <2>1 DEF NoProbe, Unseen, Unread, SeenRows
<1>3. CASE Start \/ Tick \/ SetBack
  BY <1>3 DEF Start, Tick, SetBack, monitorVars
<1>4. ASSUME NEW p \in Partitions, Look(p) PROVE ProbeTyping'
  BY <1>4, LookMeans
<1>5. ASSUME NEW p \in Partitions, ReadEnd(p) PROVE ProbeTyping'
  BY <1>5, ReadEndMeans
<1>6. ASSUME NEW p \in Partitions, Consume(p) \/ Produce(p) \/ AddPartition(p) PROVE ProbeTyping'
  BY <1>6 DEF Consume, Produce, AddPartition, monitorVars
<1> QED
  BY <1>1, <1>2, <1>3, <1>4, <1>5, <1>6 DEF LagNext

-----------------------------------------------------------------------------
(***************************************************************************)
(* What is within a number of records stays so                             *)
(***************************************************************************)
\* A partition's records later: the same, or one more, with the time it came at.
Longer(records, now, after) ==
    after \in Seq(Nat) /\ (after = records \/ after = Append(records, now))

\* What is ingested up to a time stays ingested as the log grows and the offset
\* moves on.
LEMMA WithinStays ==
    ASSUME NEW records \in Seq(Nat), NEW now \in Nat, NEW after, Longer(records, now, after),
           NEW later \in Nat, now <= later,
           NEW t \in Nat, NEW n \in Nat, NEW m \in Nat, n <= m,
           Within(records, now, t, n)
    PROVE  Within(after, later, t, m)
<1>1. t <= later /\ t <= now
  BY DEF Within
<1>2. \A i \in DOMAIN records : i \in Nat /\ (records[i] < t => i <= m)
  BY DEF Within
<1>3. CASE after = records
  BY <1>1, <1>2, <1>3 DEF Within
<1>4. CASE after = Append(records, now)
  <2>1. \A i \in DOMAIN after : after[i] = now \/ (i \in DOMAIN records /\ after[i] = records[i])
    BY <1>4
  <2> QED
    BY <1>1, <1>2, <2>1 DEF Within
<1> QED
  BY <1>3, <1>4 DEF Longer

\* Nothing comes before time 0.
LEMMA WithinAtZero ==
    ASSUME NEW records \in Seq(Nat), NEW now \in Nat, NEW n
    PROVE  Within(records, now, 0, n)
<1>1. \A i \in DOMAIN records : records[i] \in Nat
  OBVIOUS
<1> QED
  BY <1>1 DEF Within

\* The time a cover reaches and its fences are numbers.
LEMMA FencesTyped ==
    ASSUME NEW c \in Covers
    PROVE  /\ c.covered \in Nat
           /\ \A i \in DOMAIN c.pending : c.pending[i].at \in Nat /\ c.pending[i].end \in Nat
<1>1. c.covered \in Nat /\ c.pending \in Seq(Fences)
  BY DEF Covers
<1>2. \A i \in DOMAIN c.pending : c.pending[i] \in Fences
  BY <1>1
<1> QED
  BY <1>1, <1>2 DEF Fences

\* A cover that is true stays true as the log grows and the offset moves on.
LEMMA CoverStays ==
    ASSUME NEW c \in Covers,
           NEW records \in Seq(Nat), NEW now \in Nat, NEW after, Longer(records, now, after),
           NEW later \in Nat, now <= later,
           NEW n \in Nat, NEW m \in Nat, n <= m,
           CoverTrue(c, records, now, n)
    PROVE  CoverTrue(c, after, later, m)
<1>1. c.covered \in Nat /\ \A i \in DOMAIN c.pending : c.pending[i].at \in Nat /\ c.pending[i].end \in Nat
  BY FencesTyped
<1>2. Within(after, later, c.covered, m)
  BY <1>1, WithinStays DEF CoverTrue
<1>3. ASSUME NEW i \in DOMAIN c.pending PROVE Within(after, later, c.pending[i].at, c.pending[i].end)
  <2> DEFINE t == c.pending[i].at
             e == c.pending[i].end
  <2>1. t \in Nat /\ e \in Nat
    BY <1>1
  <2>2. Within(records, now, t, e)
    BY DEF CoverTrue
  <2> HIDE DEF t, e
  <2>3. e <= e
    BY <2>1
  <2>4. Within(after, later, t, e)
    BY <2>1, <2>2, <2>3, WithinStays
  <2> QED
    BY <2>4 DEF t, e
<1> QED
  BY <1>2, <1>3 DEF CoverTrue

\* A probe's observation makes the coverage later, not less true.
LEMMA CoverAdvances ==
    ASSUME NEW c \in Covers, NEW seen \in SeenRows, seen.end # Unread, NEW checked,
           NEW records \in Seq(Nat), NEW now \in Nat, NEW n \in Nat,
           CoverTrue(c, records, now, n),
           Within(records, now, seen.observed, seen.end),
           seen.next <= n
    PROVE  CoverTrue(Advanced(c, seen, checked), records, now, n)
<1> DEFINE after == Advanced(c, seen, checked)
<1>1. /\ after \in Covers
      /\ \/ after.covered = c.covered
         \/ \E f \in Fences : FenceAfter(c, seen, f) /\ f.end <= seen.next /\ after.covered = f.at
      /\ \A i \in DOMAIN after.pending : FenceAfter(c, seen, after.pending[i])
  BY AdvancedMeans
<1> HIDE DEF after
<1>2. ASSUME NEW f, FenceAfter(c, seen, f) PROVE Within(records, now, f.at, f.end)
  BY <1>2 DEF FenceAfter, CoverTrue
<1>3. Within(records, now, after.covered, n)
  <2>1. CASE after.covered = c.covered
    BY <2>1 DEF CoverTrue
  <2>2. CASE after.covered # c.covered
    <3>1. PICK f \in Fences : FenceAfter(c, seen, f) /\ f.end <= seen.next /\ after.covered = f.at
      BY <1>1, <2>2
    <3>2. Within(records, now, f.at, f.end)
      BY <1>2, <3>1
    <3>3. f.end \in Nat /\ seen.next \in Nat /\ f.end <= n
      BY <3>1 DEF Fences, SeenRows
    <3>4. \A i \in DOMAIN records : i \in Nat
      OBVIOUS
    <3> QED
      BY <3>1, <3>2, <3>3, <3>4 DEF Within
  <2> QED
    BY <2>1, <2>2
<1>4. \A i \in DOMAIN after.pending : Within(records, now, after.pending[i].at, after.pending[i].end)
  BY <1>1, <1>2
<1> QED
  BY <1>3, <1>4 DEF CoverTrue, after

\* Real time and checkpoints only move forward.
Grows ==
    /\ real <= real' /\ polled <= polled'
    /\ \A p \in Partitions : next[p] <= next'[p]
    /\ \A p \in Partitions : Longer(log[p], real, log'[p])
    /\ \A p \in Partitions : p \in topic \/ log'[p] = log[p]
    /\ topic \subseteq topic'

\* No step shortens a log, takes an offset back, or takes the time back.
LEMMA EveryStepGrows ==
    ASSUME LagTyping, LagTyping', polled <= real, LagNext
    PROVE  Grows
<1> USE DEF LagTyping, Grows, Longer, clockVars, kafkaVars, monitorVars
<1>1. CASE BeginProbe \/ FailProbe \/ Regress \/ Update
  BY <1>1 DEF BeginProbe, FailProbe, Regress, Update
<1>2. CASE Start \/ Stop \/ Tick \/ SetBack
  BY <1>2 DEF Start, Stop, Tick, SetBack
<1>3. ASSUME NEW p \in Partitions, Look(p) \/ ReadEnd(p) \/ AddPartition(p) PROVE Grows
  BY <1>3 DEF Look, ReadEnd, AddPartition
<1>4. ASSUME NEW p \in Partitions, Consume(p) PROVE Grows
  BY <1>4 DEF Consume
<1>5. ASSUME NEW p \in Partitions, Produce(p) PROVE Grows
  BY <1>5 DEF Produce
<1> QED
  BY <1>1, <1>2, <1>3, <1>4, <1>5 DEF LagNext

\* Every step keeps the topic no shorter than what was committed of it.
LEMMA TopicStep ==
    ASSUME LagTyping, Grows, TopicHoldsRecords
    PROVE  TopicHoldsRecords'
BY DEF LagTyping, Grows, TopicHoldsRecords

-----------------------------------------------------------------------------
(***************************************************************************)
(* Every step                                                              *)
(***************************************************************************)
\* A partition whose coverage is left alone, or forgotten.
LEMMA CoverKept ==
    ASSUME LagTyping, LagTyping', Grows, CoverageTrue, NEW p \in Partitions,
           \/ coverage'[p] = coverage[p]
           \/ coverage'[p].covered = 0 /\ coverage'[p].pending = <<>>
    PROVE  CoverTrue(coverage'[p], log'[p], real', next'[p])
<1>1. /\ log[p] \in Seq(Nat) /\ log'[p] \in Seq(Nat) /\ real \in Nat /\ real' \in Nat
      /\ next[p] \in Nat /\ next'[p] \in Nat /\ coverage[p] \in Covers
  BY DEF LagTyping
<1>2. real <= real' /\ next[p] <= next'[p] /\ Longer(log[p], real, log'[p])
  BY DEF Grows
<1>3. CASE coverage'[p] = coverage[p]
  <2>1. CoverTrue(coverage[p], log[p], real, next[p])
    BY DEF CoverageTrue
  <2> QED
    BY <1>1, <1>2, <1>3, <2>1, CoverStays
<1>4. CASE coverage'[p].covered = 0 /\ coverage'[p].pending = <<>>
  <2>1. Within(log'[p], real', 0, next'[p])
    BY <1>1, WithinAtZero
  <2> QED
    BY <1>4, <2>1 DEF CoverTrue
<1> QED
  BY <1>3, <1>4

\* Every step leaves what the covers claim true.
LEMMA CoverageStep ==
    ASSUME LagInv, LagTyping', Grows, LagNext
    PROVE  CoverageTrue'
<1> USE DEF LagInv
<1> SUFFICES ASSUME NEW p \in Partitions
             PROVE  CoverTrue(coverage'[p], log'[p], real', next'[p])
  BY DEF CoverageTrue
<1>1. CASE Update /\ p \in probe.parts
  <2>1. Seen(p) /\ coverage'[p] = Advanced(coverage[p], probe.seen[p], Clock)
    BY <1>1, UpdateMeans
  <2>2. UNCHANGED <<log, real, next>>
    BY <1>1 DEF Update, clockVars, kafkaVars
  <2>3. /\ probe.seen[p].next <= next[p]
        /\ Within(log[p], real, probe.seen[p].observed, probe.seen[p].end)
    BY <1>1, <2>1 DEF ProbeTrue
  <2>4. /\ probe.seen[p] \in SeenRows /\ probe.seen[p].end # Unread
        /\ coverage[p] \in Covers /\ log[p] \in Seq(Nat) /\ real \in Nat /\ next[p] \in Nat
    BY <2>1 DEF LagTyping, ProbeTyping, Seen
  <2>5. CoverTrue(coverage[p], log[p], real, next[p])
    BY DEF CoverageTrue
  <2>6. CoverTrue(Advanced(coverage[p], probe.seen[p], Clock), log[p], real, next[p])
    BY <2>3, <2>4, <2>5, CoverAdvances
  <2> QED
    BY <2>1, <2>2, <2>6
<1>2. CASE Update /\ p \notin probe.parts
  BY <1>2, UpdateMeans, CoverKept
<1>3. CASE Regress
  <2>1. coverage'[p] = Forgotten(coverage[p]) /\ coverage[p] \in Covers
    BY <1>3 DEF Regress, LagTyping
  <2> QED
    BY <2>1, ForgottenTyped, CoverKept
<1>4. CASE Stop
  <2>1. coverage'[p] = Uncovered
    BY <1>4 DEF Stop
  <2> QED
    BY <2>1, UncoveredTyped, CoverKept
<1>5. CASE UNCHANGED coverage
  BY <1>5, CoverKept
<1>6. Update \/ Regress \/ Stop \/ UNCHANGED coverage
  BY DEF LagNext, BeginProbe, FailProbe, Start, Tick, SetBack, Look, ReadEnd, Consume, Produce, AddPartition,
         monitorVars
<1> QED
  BY <1>1, <1>2, <1>3, <1>4, <1>5, <1>6

\* Every step leaves what the stored row claims true.
LEMMA RowStep ==
    ASSUME LagInv, LagTyping', Grows, LagNext, CoverageTrue'
    PROVE  RowTrue'
<1> USE DEF LagInv
<1>1. /\ row.checked \in Nat /\ row.covered \in Nat /\ polled \in Nat /\ polled' \in Nat /\ polled <= polled'
      /\ real \in Nat /\ real' \in Nat /\ real <= real'
      /\ \A p \in Partitions :
            /\ log[p] \in Seq(Nat) /\ log'[p] \in Seq(Nat) /\ Longer(log[p], real, log'[p])
            /\ next[p] \in Nat /\ next'[p] \in Nat /\ next[p] <= next'[p]
  BY DEF LagTyping, Rows, Grows
<1>2. CASE row' = row
  <2>1. row'.checked <= polled'
    BY <1>1, <1>2 DEF RowTrue
  <2>2. \A p \in Partitions : Within(log'[p], real', row.covered, next'[p])
    BY <1>1, WithinStays DEF RowTrue
  <2> QED
    BY <1>2, <2>1, <2>2 DEF RowTrue
<1>3. CASE row'.covered = 0 /\ row'.checked \in {0, probe.started}
  <2>1. row'.checked <= polled'
    BY <1>1, <1>3 DEF ProbeTrue, ProbeTyping
  <2>2. \A p \in Partitions : Within(log'[p], real', 0, next'[p])
    BY <1>1, WithinAtZero
  <2> QED
    BY <1>3, <2>1, <2>2 DEF RowTrue
<1>4. CASE Update /\ row' # row
  <2>1. /\ row' \in Rows /\ row'.checked = probe.started /\ row'.covered <= probe.started
        /\ \A p \in probe.parts : row'.covered <= coverage'[p].covered
    BY <1>4, UpdateMeans
  <2>2. UNCHANGED <<log, real, next, polled>> /\ probe # NoProbe
    BY <1>4 DEF Update, Complete, clockVars, kafkaVars
  <2>3. row'.covered \in Nat /\ probe.started \in Nat
    BY <2>1 DEF Rows, ProbeTyping
  <2>4. row'.checked <= polled' /\ row'.covered <= real
    BY <1>1, <2>1, <2>2, <2>3 DEF ProbeTrue
  <2>5. ASSUME NEW p \in Partitions PROVE Within(log[p], real, row'.covered, next[p])
    <3>1. CASE p \in probe.parts
      <4>1. coverage'[p] \in Covers /\ Within(log[p], real, coverage'[p].covered, next[p])
        BY <2>2 DEF CoverageTrue, CoverTrue, LagTyping
      <4>2. coverage'[p].covered \in Nat /\ row'.covered <= coverage'[p].covered
        BY <2>1, <3>1, <4>1 DEF Covers
      <4>3. \A i \in DOMAIN log[p] : log[p][i] \in Nat
        BY <1>1
      <4> QED
        BY <2>3, <2>4, <4>1, <4>2, <4>3 DEF Within
    <3>2. CASE p \notin probe.parts
      <4>1. \A i \in DOMAIN log[p] : probe.started <= log[p][i] /\ log[p][i] \in Nat
        BY <1>1, <2>2, <3>2 DEF ProbeTrue
      <4> QED
        BY <2>1, <2>3, <2>4, <4>1 DEF Within
    <3> QED
      BY <3>1, <3>2
  <2> QED
    BY <2>2, <2>4, <2>5 DEF RowTrue
<1>5. row' = row \/ (row'.covered = 0 /\ row'.checked \in {0, probe.started}) \/ (Update /\ row' # row)
  <2>1. CASE FailProbe \/ Regress
    BY <2>1, NoLagIsRow DEF FailProbe, Regress, Save
  <2>2. CASE Start \/ Stop
    BY <2>2, NoLagIsRow DEF Start, Stop, Save
  <2>3. CASE Update
    BY <2>3
  <2>4. CASE ~(FailProbe \/ Regress \/ Start \/ Stop \/ Update)
    BY <2>4 DEF LagNext, BeginProbe, Tick, SetBack, Look, ReadEnd, Consume, Produce, AddPartition
  <2> QED
    BY <2>1, <2>2, <2>3, <2>4
<1> QED
  BY <1>2, <1>3, <1>4, <1>5

\* What the probe under way has seen of a partition.
SeenTrue(seen, records, now, n) ==
    /\ seen.observed <= now
    /\ seen.next <= n
    /\ seen.end # Unread => Within(records, now, seen.observed, seen.end)

\* What a probe has seen stays true as the log grows and the offset moves on.
LEMMA SeenStays ==
    ASSUME NEW seen \in SeenRows,
           NEW records \in Seq(Nat), NEW now \in Nat, NEW after, Longer(records, now, after),
           NEW later \in Nat, now <= later,
           NEW n \in Nat, NEW m \in Nat, n <= m,
           SeenTrue(seen, records, now, n)
    PROVE  SeenTrue(seen, after, later, m)
<1>1. seen.observed \in Nat /\ seen.next \in Nat /\ seen.end \in Nat \cup {Unread}
  BY DEF SeenRows
<1>2. seen.observed <= later /\ seen.next <= m
  BY <1>1 DEF SeenTrue
<1>3. ASSUME seen.end # Unread PROVE Within(after, later, seen.observed, seen.end)
  <2>1. seen.end \in Nat /\ seen.end <= seen.end
    BY <1>1, <1>3
  <2>2. Within(records, now, seen.observed, seen.end)
    BY <1>3 DEF SeenTrue
  <2> QED
    BY <1>1, <2>1, <2>2, WithinStays
<1> QED
  BY <1>2, <1>3 DEF SeenTrue

\* A probe that starts is not ahead, and a partition it leaves out has no record older
\* than it.
LEMMA ProbeStep ==
    ASSUME LagInv, LagTyping', ProbeTyping', Grows, LagNext
    PROVE  ProbeTrue'
<1> USE DEF LagInv
<1>1. /\ polled \in Nat /\ polled' \in Nat /\ polled <= polled'
      /\ real \in Nat /\ real' \in Nat /\ real <= real'
      /\ probe.started \in Nat /\ probe.parts \subseteq Partitions
      /\ \A p \in Partitions :
            /\ probe.seen[p] \in SeenRows
            /\ log[p] \in Seq(Nat) /\ log'[p] \in Seq(Nat) /\ Longer(log[p], real, log'[p])
            /\ next[p] \in Nat /\ next'[p] \in Nat /\ next[p] <= next'[p]
  BY DEF LagTyping, ProbeTyping, Grows
<1>2. polled <= real /\ probe.started <= polled
  BY DEF ProbeTrue
<1>3. polled' <= real' /\ (polled' = polled \/ BeginProbe)
  <2>1. CASE BeginProbe
    BY <1>1, <2>1 DEF BeginProbe, clockVars
  <2>2. CASE ~BeginProbe
    <3>1. polled' = polled
      BY <2>2 DEF LagNext, FailProbe, Regress, Update, Start, Stop, Tick, SetBack, Look, ReadEnd, Consume,
                  Produce, AddPartition, monitorVars
    <3> QED
      BY <1>1, <1>2, <3>1
  <2> QED
    BY <2>1, <2>2
<1>4. \A p \in probe.parts : SeenTrue(probe.seen[p], log'[p], real', next'[p])
  <2> TAKE p \in probe.parts
  <2>1. SeenTrue(probe.seen[p], log[p], real, next[p])
    BY DEF ProbeTrue, SeenTrue, Seen
  <2> QED
    BY <1>1, <2>1, SeenStays
<1>5. probe # NoProbe =>
          \A p \in Partitions \ probe.parts : \A i \in DOMAIN log'[p] : probe.started <= log'[p][i]
  <2> SUFFICES ASSUME probe # NoProbe, NEW p \in Partitions \ probe.parts, NEW i \in DOMAIN log'[p]
               PROVE  probe.started <= log'[p][i]
    OBVIOUS
  <2>1. \A k \in DOMAIN log[p] : probe.started <= log[p][k]
    BY DEF ProbeTrue
  <2>2. log'[p][i] = real \/ (i \in DOMAIN log[p] /\ log'[p][i] = log[p][i])
    <3>1. log[p] \in Seq(Nat) /\ (log'[p] = log[p] \/ log'[p] = Append(log[p], real))
      BY <1>1 DEF Longer
    <3>2. CASE log'[p] = log[p]
      BY <3>2
    <3>3. CASE log'[p] = Append(log[p], real)
      BY <3>1, <3>3
    <3> QED
      BY <3>1, <3>2, <3>3
  <2> QED
    BY <1>1, <1>2, <2>1, <2>2
<1>6. CASE probe' = probe
  BY <1>1, <1>2, <1>3, <1>4, <1>5, <1>6 DEF ProbeTrue, SeenTrue, Seen
<1>7. CASE probe' = NoProbe
  BY <1>1, <1>3, <1>7, NoProbeTyped DEF ProbeTrue
<1>8. CASE BeginProbe
  <2>1. probe' = [started |-> Clock, parts |-> topic, seen |-> [p \in Partitions |-> Unseen]]
    BY <1>8 DEF BeginProbe, NoProbe
  <2>2. polled' = real /\ UNCHANGED <<real, log>>
    BY <1>8 DEF BeginProbe, clockVars, kafkaVars
  <2>3. probe'.started = Clock /\ probe'.parts = topic /\ Clock <= real
    BY <2>1 DEF Clock, LagTyping
  <2>4. \A p \in topic : p \in Partitions /\ probe'.seen[p] = Unseen
    BY <2>1 DEF LagTyping
  <2>5. \A p \in Partitions \ topic : log'[p] = <<>>
    BY <2>2 DEF TopicHoldsRecords
  <2>6. Unseen.observed = 0 /\ Unseen.next = 0 /\ Unseen.end = Unread
    BY DEF Unseen
  <2>7. \A p \in topic : probe'.seen[p].observed <= real' /\ probe'.seen[p].next <= next'[p] /\ ~Seen(p)'
    BY <1>1, <2>4, <2>6 DEF Seen
  <2>8. \A p \in Partitions \ topic : \A i \in DOMAIN log'[p] : probe'.started <= log'[p][i]
    BY <2>5
  <2> QED
    BY <1>3, <2>2, <2>3, <2>7, <2>8 DEF ProbeTrue
<1>9. ASSUME NEW p \in Partitions, NEW seen, p \in probe.parts, probe # NoProbe,
             SeesOf(p, seen), SeenTrue(seen, log'[p], real', next'[p])
      PROVE  ProbeTrue'
  <2>1. probe'.started = probe.started /\ probe'.parts = probe.parts
    BY <1>9 DEF SeesOf
  <2>2. \A q \in Partitions : probe'.seen[q] = IF q = p THEN seen ELSE probe.seen[q]
    BY <1>9 DEF SeesOf, ProbeTyping
  <2>3. \A q \in probe.parts : SeenTrue(probe'.seen[q], log'[q], real', next'[q])
    BY <1>1, <1>4, <1>9, <2>2
  <2> QED
    BY <1>1, <1>2, <1>3, <1>5, <1>9, <2>1, <2>3 DEF ProbeTrue, SeenTrue, Seen
<1>10. ASSUME NEW p \in Partitions, Look(p) PROVE ProbeTrue'
  <2> DEFINE mine == [next |-> next[p], observed |-> Clock, end |-> Unread]
  <2>1. p \in probe.parts /\ UNCHANGED <<real, next, log>>
    BY <1>10 DEF Look, clockVars, kafkaVars
  <2>2. SeesOf(p, mine)
    BY <1>10, LookMeans
  <2>3. Clock <= real
    BY DEF Clock, LagTyping
  <2>4. SeenTrue(mine, log'[p], real', next'[p])
    BY <1>1, <2>1, <2>3 DEF SeenTrue
  <2> HIDE DEF mine
  <2> QED
    BY <1>9, <2>1, <2>2, <2>4, NoProbeTyped
<1>11. ASSUME NEW p \in Partitions, ReadEnd(p) PROVE ProbeTrue'
  <2> DEFINE s == probe.seen[p]
             mine == [next |-> s.next, observed |-> s.observed, end |-> Len(log[p])]
  <2>1. p \in probe.parts /\ UNCHANGED <<real, next, log>>
    BY <1>11 DEF ReadEnd, clockVars, kafkaVars
  <2>2. SeesOf(p, mine)
    BY <1>11, ReadEndMeans
  <2>3. s.observed <= real /\ s.next <= next[p]
    BY <2>1 DEF ProbeTrue
  <2>4. Within(log[p], real, s.observed, Len(log[p]))
    <3>1. \A i \in DOMAIN log[p] : i <= Len(log[p])
      BY <1>1
    <3> QED
      BY <2>3, <3>1 DEF Within
  <2>5. SeenTrue(mine, log'[p], real', next'[p])
    BY <2>1, <2>3, <2>4 DEF SeenTrue
  <2> HIDE DEF mine
  <2> QED
    BY <1>9, <2>1, <2>2, <2>5, NoProbeTyped
<1> QED
  <2>1. CASE FailProbe \/ Regress \/ Update \/ Stop
    BY <1>7, <2>1 DEF FailProbe, Regress, Update, Stop
  <2>2. CASE Start \/ Tick \/ SetBack
    BY <1>6, <2>2 DEF Start, Tick, SetBack, monitorVars
  <2>3. CASE \E p \in Partitions : Consume(p) \/ Produce(p) \/ AddPartition(p)
    BY <1>6, <2>3 DEF Consume, Produce, AddPartition, monitorVars
  <2> QED
    BY <1>8, <1>10, <1>11, <2>1, <2>2, <2>3 DEF LagNext

-----------------------------------------------------------------------------
\* The monitor starts in order.
LEMMA LagInvInit == LagInit => LagInv
<1> SUFFICES ASSUME LagInit PROVE LagInv
  OBVIOUS
<1>1. LagTyping
  <2>1. <<>> \in Seq(Nat)
    OBVIOUS
  <2>2. NoLag \in Rows
    BY DEF NoLag, Rows
  <2> QED
    BY <2>1, <2>2, UncoveredTyped DEF LagInit, LagTyping, Clock
<1>2. ProbeTyping
  BY NoProbeTyped DEF LagInit
<1>3. TopicHoldsRecords
  BY DEF LagInit, TopicHoldsRecords
<1>4. \A p \in Partitions : log[p] \in Seq(Nat) /\ real \in Nat /\ log[p] = <<>>
  BY <1>1 DEF LagTyping, LagInit
<1>5. CoverageTrue
  <2>1. \A p \in Partitions : coverage[p] = Uncovered /\ Within(log[p], real, 0, next[p])
    BY <1>4, WithinAtZero DEF LagInit
  <2> QED
    BY <2>1, UncoveredTyped DEF CoverageTrue, CoverTrue
<1>6. ProbeTrue
  BY NoProbeTyped DEF LagInit, ProbeTrue
<1>7. RowTrue
  <2>1. row = NoLag /\ NoLag.covered = 0 /\ NoLag.checked = 0
    BY DEF LagInit, NoLag
  <2>2. \A p \in Partitions : Within(log[p], real, 0, next[p])
    BY <1>4, WithinAtZero
  <2> QED
    BY <2>1, <2>2 DEF LagInit, RowTrue
<1> QED
  BY <1>1, <1>2, <1>3, <1>5, <1>6, <1>7 DEF LagInv

\* Every step keeps the monitor's invariant.
LEMMA LagInvNext == LagInv /\ [LagNext]_lagVars => LagInv'
<1> SUFFICES ASSUME LagInv, [LagNext]_lagVars PROVE LagInv'
  OBVIOUS
<1>1. CASE LagNext
  <2>1. LagTyping' /\ ProbeTyping'
    BY <1>1, TypingStep, ProbeTypingStep DEF LagInv
  <2>2. Grows
    BY <1>1, <2>1, EveryStepGrows DEF LagInv, ProbeTrue
  <2>3. TopicHoldsRecords' /\ CoverageTrue' /\ ProbeTrue'
    BY <1>1, <2>1, <2>2, TopicStep, CoverageStep, ProbeStep DEF LagInv
  <2>4. RowTrue'
    BY <1>1, <2>1, <2>2, <2>3, RowStep
  <2> QED
    BY <2>1, <2>3, <2>4 DEF LagInv
<1>2. CASE UNCHANGED lagVars
  BY <1>2 DEF lagVars, clockVars, kafkaVars, monitorVars, LagInv, LagTyping, Clock, ProbeTyping,
              TopicHoldsRecords, CoverageTrue, ProbeTrue, Seen, RowTrue
<1> QED
  BY <1>1, <1>2

\* Every time the monitor has written down is a fact about the log.
THEOREM LagInvariant == LagSpec => []LagInv
BY LagInvInit, LagInvNext, PTL DEF LagSpec

\* What a row that lets requests through says.
LEMMA AcceptableMeans ==
    ASSUME LagTyping, Acceptable
    PROVE  Clock - row.checked < MaxAge /\ Clock - row.covered < MaxAge
BY MaxAgeAssumption DEF Acceptable, LagReason, LagTyping, Rows, Clock

\* No request is authorized while a record older than MaxAge, and what the clock was set
\* back, waits to be charged.
THEOREM StalenessIsBounded == LagSpec => []BoundedStaleness
<1>1. LagInv => BoundedStaleness
  <2> SUFFICES ASSUME LagInv, Acceptable, NEW p \in topic, NEW i \in DOMAIN log[p],
                      log[p][i] <= real - back - MaxAge
               PROVE  i <= next[p]
    BY DEF BoundedStaleness
  <2>1. Clock - row.covered < MaxAge
    BY AcceptableMeans DEF LagInv
  <2>2. p \in Partitions /\ log[p][i] \in Nat /\ real \in Nat /\ back \in Nat /\ row.covered \in Nat
    BY DEF LagInv, LagTyping, Rows
  <2>3. log[p][i] < row.covered
    BY <2>1, <2>2, MaxAgeAssumption DEF Clock
  <2> QED
    BY <2>2, <2>3 DEF LagInv, RowTrue, Within
<1> QED
  BY <1>1, LagInvariant, PTL

\* No request is authorized once probes have stopped for MaxAge, and what the clock was
\* set back.
THEOREM AlwaysFailsClosed == LagSpec => []FailsClosed
<1>1. LagInv => FailsClosed
  <2> SUFFICES ASSUME LagInv, Acceptable PROVE real - polled < MaxAge + back
    BY DEF FailsClosed
  <2>1. Clock - row.checked < MaxAge
    BY AcceptableMeans DEF LagInv
  <2>2. /\ row.checked <= polled
        /\ row.checked \in Nat /\ polled \in Nat /\ real \in Nat /\ back \in Nat
    BY DEF LagInv, LagTyping, Rows, RowTrue
  <2> QED
    BY <2>1, <2>2, MaxAgeAssumption DEF Clock
<1> QED
  BY <1>1, LagInvariant, PTL
-----------------------------------------------------------------------------
(***************************************************************************)
(* A clock set back costs one probe, and a topic read to its end lets      *)
(* requests through.  Both are about the probe under way: what it has      *)
(* looked at is not behind the coverage unless the clock was set back, and *)
(* it has a partition to look at whose pending fences it sees the end of.  *)
(***************************************************************************)
\* Nothing the monitor has written down is later than the clock shows, nor later than
\* what the probe has seen since, unless the clock was set back.
ClockTrusted ==
    ~suspect =>
        /\ \A p \in Partitions : coverage[p].observed <= Clock
        /\ \A p \in probe.parts : probe.seen[p] # Unseen =>
              /\ coverage[p].observed <= probe.seen[p].observed
              /\ probe.seen[p].observed <= Clock

\* A fence is within the log, and within what the probe saw of it.
FencesReached ==
    /\ \A p \in Partitions : \A i \in DOMAIN coverage[p].pending :
          coverage[p].pending[i].end <= Len(log[p])
    /\ \A p \in probe.parts : Seen(p) =>
          /\ probe.seen[p].end <= Len(log[p])
          /\ \A i \in DOMAIN coverage[p].pending : coverage[p].pending[i].end <= probe.seen[p].end

ProbeLooks == topic # {} /\ (probe # NoProbe => probe.parts # {} /\ probe.started >= 1)

MonitorInv == ClockTrusted /\ FencesReached /\ ProbeLooks

\* The monitor's clock is a number from 1 on.
LEMMA ClockTyped == LagTyping => Clock \in Nat /\ Clock >= 1
BY DEF LagTyping, Clock

\* The monitor's clock does not go back unless the wall clock is set back.
LEMMA ClockMoves ==
    ASSUME LagTyping, LagTyping', Grows
    PROVE  Clock' \in Nat /\ (back' = back => Clock <= Clock')
<1>1. real \in Nat /\ back \in Nat /\ Clock = real - back
  BY DEF LagTyping, Clock
<1>2. real <= real' /\ Clock' >= 1
  BY DEF LagTyping, Grows
<1>3. PICK r, b \in Nat : r = real' /\ b = back' /\ Clock' = r - b
  BY DEF LagTyping, Clock
<1>4. real <= r /\ r - b >= 1
  BY <1>2, <1>3
<1>5. r - b \in Nat /\ (b = back => real - back <= r - b)
  BY <1>1, <1>4
<1> QED
  BY <1>1, <1>3, <1>5

\* A partition the probe has not seen is told from one it has.
LEMMA UnseenMeans == /\ Unseen.observed = 0 /\ Unseen.next = 0 /\ Unseen.end = Unread
                     /\ \A p : Seen(p) => probe.seen[p] # Unseen
BY DEF Unseen, Seen

\* When a cover was observed is a number, and none once it is forgotten.
LEMMA CoverObserved ==
    ASSUME NEW c \in Covers
    PROVE  /\ c.observed \in Nat /\ c.pending \in Seq(Fences)
           /\ Forgotten(c).observed = 0 /\ Uncovered.observed = 0
BY DEF Covers, Forgotten, Uncovered

\* A step that ends the probe and forgets the coverage, or keeps it.
LEMMA MonitorForgets ==
    ASSUME LagInv, MonitorInv, LagTyping', probe' = NoProbe,
           UNCHANGED <<real, back, log, topic>>,
           suspect' = FALSE \/ suspect' = suspect,
           \/ UNCHANGED <<coverage, suspect>>
           \/ \A p \in Partitions : coverage'[p].observed = 0 /\ coverage'[p].pending = <<>>
    PROVE  MonitorInv'
<1>1. Clock' = Clock /\ Clock \in Nat
  BY DEF Clock, LagInv, LagTyping
<1> USE NoProbeTyped
<1>2. ClockTrusted'
  BY <1>1 DEF MonitorInv, ClockTrusted
<1>3. FencesReached'
  <2>1. \A p \in Partitions : \A i \in DOMAIN coverage'[p].pending :
           coverage'[p].pending[i].end <= Len(log[p])
    BY DEF MonitorInv, FencesReached
  <2> QED
    BY <2>1 DEF FencesReached
<1>4. ProbeLooks'
  BY DEF MonitorInv, ProbeLooks
<1> QED
  BY <1>2, <1>3, <1>4 DEF MonitorInv

\* A probe's end keeps what the monitor's memory says.
LEMMA MonitorUpdates ==
    ASSUME LagInv, MonitorInv, LagTyping', Update
    PROVE  MonitorInv'
<1>1. /\ probe' = NoProbe /\ UNCHANGED <<real, back, log, topic, suspect>>
      /\ \A p \in probe.parts : probe.seen[p].observed <= Clock
  BY DEF Update, Complete, clockVars, kafkaVars
<1>2. /\ \A p \in Partitions \ probe.parts : coverage'[p] = coverage[p]
      /\ \A p \in probe.parts : Seen(p) /\ coverage'[p] = Advanced(coverage[p], probe.seen[p], Clock)
  BY UpdateMeans DEF LagInv
<1>3. \A p \in probe.parts :
          /\ coverage'[p].observed = probe.seen[p].observed
          /\ \A i \in DOMAIN coverage'[p].pending : coverage'[p].pending[i].end <= Len(log[p])
  <2> TAKE p \in probe.parts
  <2>1. /\ coverage[p] \in Covers /\ probe.seen[p] \in SeenRows /\ probe.seen[p].end # Unread
        /\ coverage'[p] = Advanced(coverage[p], probe.seen[p], Clock)
    BY <1>2 DEF LagInv, LagTyping, ProbeTyping, Seen
  <2>2. \A i \in DOMAIN coverage'[p].pending : FenceAfter(coverage[p], probe.seen[p], coverage'[p].pending[i])
    BY <2>1, AdvancedMeans
  <2>3. /\ p \in Partitions /\ Seen(p) /\ probe.seen[p].end <= Len(log[p])
        /\ \A i \in DOMAIN coverage[p].pending : coverage[p].pending[i].end <= Len(log[p])
    BY <1>2 DEF LagInv, ProbeTyping, MonitorInv, FencesReached
  <2>4. \A i \in DOMAIN coverage'[p].pending : coverage'[p].pending[i].end <= Len(log[p])
    BY <2>2, <2>3 DEF FenceAfter
  <2>5. Advanced(coverage[p], probe.seen[p], Clock).observed = probe.seen[p].observed
    BY DEF Advanced
  <2> QED
    BY <2>1, <2>4, <2>5
<1>4. Clock' = Clock
  BY <1>1 DEF Clock
<1> USE NoProbeTyped
<1>5. ClockTrusted'
  BY <1>1, <1>2, <1>3, <1>4 DEF MonitorInv, ClockTrusted
<1>6. FencesReached'
  <2>1. \A p \in Partitions : \A i \in DOMAIN coverage'[p].pending :
           coverage'[p].pending[i].end <= Len(log[p])
    BY <1>2, <1>3 DEF MonitorInv, FencesReached
  <2> QED
    BY <1>1, <2>1 DEF FencesReached
<1>7. ProbeLooks'
  BY <1>1 DEF MonitorInv, ProbeLooks
<1> QED
  BY <1>5, <1>6, <1>7 DEF MonitorInv

\* The probe's two steps at a partition.
LEMMA MonitorSees ==
    ASSUME LagInv, MonitorInv, NEW p \in probe.parts, NEW seen, SeesOf(p, seen),
           UNCHANGED <<real, back, log, topic, coverage, suspect>>, probe # NoProbe,
           ~suspect => coverage[p].observed <= seen.observed /\ seen.observed <= Clock,
           seen.end # Unread => seen.end = Len(log[p])
    PROVE  MonitorInv'
<1>1. probe'.started = probe.started /\ probe'.parts = probe.parts /\ p \in Partitions
  BY DEF SeesOf, LagInv, ProbeTyping
<1>2. \A q \in probe.parts : probe'.seen[q] = IF q = p THEN seen ELSE probe.seen[q]
  BY DEF SeesOf, LagInv, ProbeTyping
<1>3. Clock' = Clock
  BY DEF Clock
<1>4. ClockTrusted'
  BY <1>1, <1>2, <1>3 DEF MonitorInv, ClockTrusted
<1>5. FencesReached'
  <2>1. ASSUME NEW q \in probe.parts, probe'.seen[q].end # Unread
        PROVE  /\ probe'.seen[q].end <= Len(log[q])
               /\ \A i \in DOMAIN coverage[q].pending : coverage[q].pending[i].end <= probe'.seen[q].end
    <3>1. CASE q = p
      <4>1. Len(log[p]) \in Nat
        BY <1>1 DEF LagInv, LagTyping
      <4> QED
        BY <1>1, <1>2, <2>1, <3>1, <4>1 DEF MonitorInv, FencesReached
    <3>2. CASE q # p
      BY <1>2, <2>1, <3>2 DEF MonitorInv, FencesReached, Seen
    <3> QED
      BY <3>1, <3>2
  <2> QED
    BY <1>1, <2>1 DEF MonitorInv, FencesReached, Seen
<1>6. ProbeLooks'
  BY <1>1, NoProbeTyped DEF MonitorInv, ProbeLooks
<1> QED
  BY <1>4, <1>5, <1>6 DEF MonitorInv

\* Everything else leaves the monitor alone: the clock goes on, or is set back, and the
\* log grows.
LEMMA MonitorLeft ==
    ASSUME LagInv, LagTyping', MonitorInv, Grows, UNCHANGED <<probe, coverage>>,
           suspect' \/ UNCHANGED <<back, suspect>>
    PROVE  MonitorInv'
<1>1. Clock' \in Nat /\ (back' = back => Clock <= Clock')
  BY ClockMoves DEF LagInv
<1>2. \A p \in Partitions : Len(log[p]) <= Len(log'[p]) /\ Len(log[p]) \in Nat /\ Len(log'[p]) \in Nat
  <2> TAKE p \in Partitions
  <2>1. log[p] \in Seq(Nat) /\ real \in Nat /\ (log'[p] = log[p] \/ log'[p] = Append(log[p], real))
    BY DEF Grows, Longer, LagInv, LagTyping
  <2> QED
    BY <2>1
<1>3. /\ Clock \in Nat /\ Clock' \in Nat
      /\ \A p \in Partitions : coverage[p].observed \in Nat /\ probe.seen[p].observed \in Nat
      /\ probe.parts \subseteq Partitions
  <2>1. Clock \in Nat
    BY ClockTyped DEF LagInv
  <2>3. \A p \in Partitions : coverage[p].observed \in Nat
    BY DEF LagInv, LagTyping, Covers
  <2>4. probe.parts \subseteq Partitions /\ \A p \in Partitions : probe.seen[p].observed \in Nat
    BY DEF LagInv, ProbeTyping, SeenRows
  <2> QED
    BY <1>1, <2>1, <2>3, <2>4
<1>4. ClockTrusted'
  BY <1>1, <1>3 DEF MonitorInv, ClockTrusted
<1>5. FencesReached'
  <2>1. \A p \in Partitions : \A i \in DOMAIN coverage[p].pending : coverage[p].pending[i].end \in Nat
    BY FencesTyped DEF LagInv, LagTyping
  <2>2. \A p \in Partitions : Seen(p) => probe.seen[p].end \in Nat
    BY DEF LagInv, ProbeTyping, SeenRows, Seen
  <2>3. \A p \in Partitions : \A i \in DOMAIN coverage[p].pending : coverage[p].pending[i].end <= Len(log'[p])
    BY <1>2, <2>1 DEF MonitorInv, FencesReached
  <2>4. \A p \in probe.parts : Seen(p) => probe.seen[p].end <= Len(log'[p])
    BY <1>2, <1>3, <2>2 DEF MonitorInv, FencesReached
  <2> QED
    BY <2>3, <2>4 DEF MonitorInv, FencesReached, Seen
<1>6. ProbeLooks'
  BY DEF Grows, MonitorInv, ProbeLooks
<1> QED
  BY <1>4, <1>5, <1>6 DEF MonitorInv

\* Every step keeps what the monitor's memory says.
LEMMA MonitorInvNext ==
    ASSUME LagInv, LagInv', MonitorInv, [LagNext]_lagVars
    PROVE  MonitorInv'
<1>1. LagTyping /\ ProbeTyping /\ LagTyping' /\ ProbeTyping' /\ Clock \in Nat /\ Clock >= 1
  BY ClockTyped DEF LagInv
<1>2. LagNext => Grows
  BY <1>1, EveryStepGrows DEF LagInv, ProbeTrue
<1>3. CASE BeginProbe
  <2>1. probe' = [started |-> Clock, parts |-> topic, seen |-> [p \in Partitions |-> Unseen]]
    BY <1>3 DEF BeginProbe, NoProbe
  <2>2. UNCHANGED <<real, back, log, topic, coverage, suspect>>
    BY <1>3 DEF BeginProbe, clockVars, kafkaVars
  <2>3. /\ probe'.parts = topic /\ probe'.started = Clock
        /\ \A p \in topic : p \in Partitions /\ probe'.seen[p] = Unseen
    BY <1>1, <2>1 DEF LagTyping
  <2>4. ClockTrusted' /\ ProbeLooks'
    BY <1>1, <2>2, <2>3 DEF MonitorInv, ClockTrusted, ProbeLooks, Clock
  <2>5. FencesReached'
    BY <2>2, <2>3, UnseenMeans DEF MonitorInv, FencesReached, Seen
  <2> QED
    BY <2>4, <2>5 DEF MonitorInv
<1>4. CASE FailProbe
  BY <1>1, <1>4, MonitorForgets DEF FailProbe, clockVars, kafkaVars
<1>5. CASE Regress
  <2>1. \A p \in Partitions : coverage'[p].observed = 0 /\ coverage'[p].pending = <<>>
    BY <1>1, <1>5, ForgottenTyped, CoverObserved DEF Regress, LagTyping
  <2> QED
    BY <1>1, <1>5, <2>1, MonitorForgets DEF Regress, clockVars, kafkaVars
<1>6. CASE Stop
  <2>1. \A p \in Partitions : coverage'[p].observed = 0 /\ coverage'[p].pending = <<>>
    BY <1>6 DEF Stop, Uncovered
  <2> QED
    BY <1>1, <1>6, <2>1, MonitorForgets DEF Stop, clockVars, kafkaVars
<1>7. CASE Update
  BY <1>1, <1>7, MonitorUpdates
<1>8. ASSUME NEW p \in Partitions, Look(p) PROVE MonitorInv'
  <2> DEFINE seen == [next |-> next[p], observed |-> Clock, end |-> Unread]
  <2>1. p \in probe.parts /\ UNCHANGED <<real, back, log, topic, coverage, suspect>>
    BY <1>8 DEF Look, clockVars, kafkaVars
  <2>2. SeesOf(p, seen)
    BY <1>1, <1>8, LookMeans
  <2>3. probe # NoProbe
    BY <2>1, NoProbeTyped
  <2>4. seen.end = Unread /\ seen.observed = Clock
    OBVIOUS
  <2>5. ~suspect => coverage[p].observed <= Clock /\ Clock <= Clock
    BY <1>1 DEF MonitorInv, ClockTrusted
  <2> HIDE DEF seen
  <2> QED
    BY <2>1, <2>2, <2>3, <2>4, <2>5, MonitorSees
<1>9. ASSUME NEW p \in Partitions, ReadEnd(p) PROVE MonitorInv'
  <2> DEFINE s == probe.seen[p]
             seen == [next |-> s.next, observed |-> s.observed, end |-> Len(log[p])]
  <2>1. p \in probe.parts /\ UNCHANGED <<real, back, log, topic, coverage, suspect>> /\ s # Unseen
    BY <1>9 DEF ReadEnd, clockVars, kafkaVars
  <2>2. SeesOf(p, seen)
    BY <1>1, <1>9, ReadEndMeans
  <2>3. probe # NoProbe
    BY <2>1, NoProbeTyped
  <2>4. seen.end = Len(log[p]) /\ seen.observed = s.observed
    OBVIOUS
  <2>5. ~suspect => coverage[p].observed <= s.observed /\ s.observed <= Clock
    BY <2>1 DEF MonitorInv, ClockTrusted
  <2> HIDE DEF seen
  <2> QED
    BY <2>1, <2>2, <2>3, <2>4, <2>5, MonitorSees
<1>10. CASE Start \/ Tick \/ SetBack
  BY <1>1, <1>2, <1>10, MonitorLeft DEF LagNext, Start, Tick, SetBack, monitorVars, clockVars
<1>11. ASSUME NEW p \in Partitions, Consume(p) \/ Produce(p) \/ AddPartition(p) PROVE MonitorInv'
  BY <1>1, <1>2, <1>11, MonitorLeft DEF LagNext, Consume, Produce, AddPartition, monitorVars, clockVars
<1>12. CASE UNCHANGED lagVars
  BY <1>12 DEF lagVars, clockVars, kafkaVars, monitorVars, MonitorInv, ClockTrusted, FencesReached,
               ProbeLooks, Clock, Seen
<1> QED
  BY <1>3, <1>4, <1>5, <1>6, <1>7, <1>8, <1>9, <1>10, <1>11, <1>12 DEF LagNext

\* Unless the clock was set back, what the monitor keeps is behind the clock and what
\* it has seen of the log.
THEOREM MonitorInvariant == LagSpec => []MonitorInv
<1>1. LagInit => MonitorInv
  <2> SUFFICES ASSUME LagInit PROVE MonitorInv
    OBVIOUS
  <2>1. \A p \in Partitions : coverage[p].observed = 0 /\ coverage[p].pending = <<>>
    BY DEF LagInit, Uncovered
  <2>2. topic # {} /\ probe = NoProbe /\ Clock = 1
    BY DEF LagInit, Clock
  <2> QED
    BY <2>1, <2>2, NoProbeTyped DEF MonitorInv, ClockTrusted, FencesReached, ProbeLooks
<1>2. LagInv /\ LagInv' /\ MonitorInv /\ [LagNext]_lagVars => MonitorInv'
  BY MonitorInvNext
<1> QED
  BY <1>1, <1>2, LagInvariant, PTL DEF LagSpec

\* A probe is held against the times of before only after the clock was set back, and
\* only the first time: Regress forgets them.
THEOREM ClockRegressesOnce == LagSpec => RegressOnce
<1>1. LagInv /\ MonitorInv => (Regress => suspect)
  <2> SUFFICES ASSUME LagInv, MonitorInv, Regress, ~suspect PROVE FALSE
    OBVIOUS
  <2>1. PICK p \in probe.parts : probe.seen[p].observed < coverage[p].observed
    BY DEF Regress, ClockRegressed
  <2>2. probe.seen[p] # Unseen
    BY UnseenMeans DEF Regress, Complete
  <2>3. coverage[p].observed <= probe.seen[p].observed
    BY <2>2 DEF MonitorInv, ClockTrusted
  <2>4. coverage[p].observed \in Nat /\ probe.seen[p].observed \in Nat
    BY DEF LagInv, LagTyping, ProbeTyping, Covers, SeenRows
  <2> QED
    BY <2>1, <2>3, <2>4
<1> QED
  BY <1>1, LagInvariant, MonitorInvariant, PTL DEF RegressOnce

\* A partition all of whose fences the checkpoint has reached is covered through the
\* last of them.
LEMMA AllReachedCovers ==
    ASSUME NEW fences \in Seq(Fences), Len(fences) > 0, NEW n \in Nat, NEW cutoff, NEW covered,
           \A i \in 1 .. Len(fences) : fences[i].end <= n
    PROVE  CoveredBy(fences, n, Consumed(fences, n, cutoff), covered) = fences[Len(fences)].at
<1> DEFINE size == Len(fences)
           S == {i \in 1 .. size : fences[i].end > n /\ fences[i].at > cutoff}
           reached == {i \in 1 .. size : fences[i].end <= n}
<1>1. size \in Nat /\ size >= 1 /\ \A i \in 1 .. size : fences[i].end \in Nat
  <2>1. \A i \in 1 .. size : fences[i] \in Fences
    OBVIOUS
  <2> QED
    BY <2>1 DEF Fences
<1>2. S = {} /\ reached = 1 .. size
  BY <1>1
<1>3. Consumed(fences, n, cutoff) = size
  <2>1. Consumed(fences, n, cutoff) = Min({size + 1}) - 1
    BY <1>2 DEF Consumed
  <2>2. Min({size + 1}) = size + 1
    <3>1. {size + 1} \in SUBSET Nat /\ size + 1 \in {size + 1}
      BY <1>1
    <3> HIDE DEF size
    <3> QED
      BY <3>1, MinExists
  <2> QED
    BY <1>1, <2>1, <2>2
<1>4. Max(1 .. size) = size
  <2> HIDE DEF size
  <2> QED
    BY <1>1 DEF Max
<1>5. CoveredBy(fences, n, size, covered) = IF reached = {} THEN covered ELSE fences[Max(reached)].at
  BY DEF CoveredBy
<1>6. reached # {} /\ Max(reached) = size
  <2>1. reached = 1 .. size /\ size \in 1 .. size
    BY <1>1, <1>2
  <2> HIDE DEF reached, size
  <2> QED
    BY <1>4, <2>1
<1> QED
  BY <1>3, <1>5, <1>6

\* A consumer seen at the end of its log is covered up to the time it was seen.
LEMMA CaughtUpCovers ==
    ASSUME NEW c \in Covers, NEW seen \in SeenRows, seen.end # Unread, NEW checked,
           seen.end <= seen.next,
           \A i \in DOMAIN c.pending : c.pending[i].end <= seen.end
    PROVE  Advanced(c, seen, checked).covered = seen.observed
<1> DEFINE mine == [end |-> seen.end, at |-> seen.observed]
           fences == Append(c.pending, mine)
<1>1. /\ mine \in Fences /\ c.pending \in Seq(Fences)
      /\ seen.end \in Nat /\ seen.next \in Nat
      /\ mine.end = seen.end /\ mine.at = seen.observed
  BY DEF Fences, SeenRows, Covers, Unread
<1>2. \A i \in DOMAIN c.pending : c.pending[i].end \in Nat /\ c.pending[i].end <= seen.next
  <2>1. \A i \in DOMAIN c.pending : c.pending[i].end \in Nat
    BY FencesTyped
  <2> QED
    BY <1>1, <2>1
<1>3. Advanced(c, seen, checked).covered =
          CoveredBy(fences, seen.next, Consumed(fences, seen.next, checked - MaxAge), c.covered)
  BY DEF Advanced
<1> HIDE DEF mine
<1>4. /\ fences \in Seq(Fences) /\ Len(fences) = Len(c.pending) + 1 /\ Len(c.pending) \in Nat
      /\ fences[Len(c.pending) + 1] = mine
      /\ \A i \in 1 .. Len(c.pending) : fences[i] = c.pending[i]
      /\ DOMAIN c.pending = 1 .. Len(c.pending)
  BY <1>1
<1> HIDE DEF fences
<1>5. \A i \in 1 .. Len(fences) : fences[i].end <= seen.next
  <2>1. \A i \in 1 .. Len(fences) : i = Len(c.pending) + 1 \/ i \in 1 .. Len(c.pending)
    BY <1>4
  <2> QED
    BY <1>1, <1>2, <1>4, <2>1
<1>6. Len(fences) > 0
  BY <1>4
<1> QED
  BY <1>1, <1>3, <1>4, <1>5, <1>6, AllReachedCovers

\* The row of a probe whose every partition is covered since the probe began.
LEMMA LagOfCovered ==
    ASSUME NEW cover \in [Partitions -> Covers], NEW parts \in SUBSET Partitions,
           NEW started \in Nat, NEW checked \in Nat, started >= 1, started <= checked,
           \A p \in parts : cover[p].covered >= started
    PROVE  Lag(cover, parts, started, checked) = [checked |-> started, covered |-> started, available |-> TRUE]
<1> DEFINE S == {cover[p].covered : p \in parts} \cup {checked}
<1>1. S \in SUBSET Nat /\ checked \in S /\ \A m \in S : m >= started
  BY DEF Covers
<1>2. Lag(cover, parts, started, checked)
        = [checked |-> started, covered |-> Min({Min(S), started}), available |-> Min(S) > 0]
  BY DEF Lag
<1> HIDE DEF S
<1>3. Min(S) \in Nat /\ Min(S) >= started
  BY <1>1, MinExists
<1>4. {Min(S), started} \in SUBSET Nat /\ started \in {Min(S), started}
  BY <1>3
<1>5. Min({Min(S), started}) \in {Min(S), started} /\ Min({Min(S), started}) <= started
  BY <1>4, MinExists
<1>6. Min({Min(S), started}) = started
  BY <1>3, <1>5
<1>7. Min(S) > 0
  BY <1>3
<1> QED
  BY <1>2, <1>6, <1>7

\* A quick probe of a topic read to its end lets requests through at once.
THEOREM QuietTopicLetsThrough == LagSpec => QuietTopicAccepted
<1>1. ASSUME LagInv, LagInv', MonitorInv, Update, CaughtUp, row' # row, Clock - probe.started < MaxAge
      PROVE  Acceptable'
  <2>1. /\ row' = Lag(coverage', probe.parts, probe.started, Clock)
        /\ \A p \in probe.parts : Seen(p) /\ probe.seen[p].observed <= Clock
        /\ probe # NoProbe /\ Clock' = Clock
    BY <1>1 DEF Update, Complete, Save, clockVars, Clock
  <2>2. /\ coverage' \in [Partitions -> Covers]
        /\ \A p \in probe.parts : coverage'[p] = Advanced(coverage[p], probe.seen[p], Clock)
    BY <1>1, UpdateMeans DEF LagInv
  <2>3. /\ probe.parts \in SUBSET Partitions /\ probe.parts # {}
        /\ probe.started \in Nat /\ probe.started >= 1 /\ Clock \in Nat
    <3>1. probe.parts # {} /\ probe.started >= 1
      BY <1>1, <2>1 DEF MonitorInv, ProbeLooks
    <3> QED
      BY <1>1, <3>1, ClockTyped DEF LagInv, ProbeTyping
  <2>4. \A p \in probe.parts : coverage'[p].covered = probe.seen[p].observed
    <3> TAKE p \in probe.parts
    <3>1. /\ coverage[p] \in Covers /\ probe.seen[p] \in SeenRows /\ probe.seen[p].end # Unread
      BY <1>1, <2>1, <2>3 DEF LagInv, LagTyping, ProbeTyping, Seen
    <3>2. \A i \in DOMAIN coverage[p].pending : coverage[p].pending[i].end <= probe.seen[p].end
      BY <1>1, <2>1 DEF MonitorInv, FencesReached
    <3>3. probe.seen[p].end <= probe.seen[p].next
      BY <1>1 DEF CaughtUp
    <3>4. Advanced(coverage[p], probe.seen[p], Clock).covered = probe.seen[p].observed
      BY <3>1, <3>2, <3>3, CaughtUpCovers
    <3> QED
      BY <2>2, <3>4
  <2>5. \A p \in probe.parts : coverage'[p].covered >= probe.started
    BY <1>1, <2>4 DEF CaughtUp
  <2>6. probe.started <= Clock
    <3>1. PICK p \in probe.parts : TRUE
      BY <2>3
    <3>2. probe.started <= probe.seen[p].observed /\ probe.seen[p].observed <= Clock
      BY <1>1, <2>1, <3>1 DEF CaughtUp
    <3>3. probe.seen[p].observed \in Nat
      BY <1>1, <2>3, <3>1 DEF LagInv, ProbeTyping, SeenRows
    <3> QED
      BY <2>3, <3>2, <3>3
  <2>7. row' = [checked |-> probe.started, covered |-> probe.started, available |-> TRUE]
    BY <2>1, <2>2, <2>3, <2>5, <2>6, LagOfCovered
  <2>8. LagReason(row', Clock) = ""
    BY <1>1, <2>3, <2>6, <2>7, MaxAgeAssumption DEF LagReason
  <2> QED
    BY <2>1, <2>8 DEF Acceptable
<1>2. LagInv /\ LagInv' /\ MonitorInv =>
        (Update /\ CaughtUp /\ row' # row /\ Clock - probe.started < MaxAge => Acceptable')
  BY <1>1
<1> QED
  BY <1>2, LagInvariant, MonitorInvariant, PTL DEF QuietTopicAccepted
=============================================================================
