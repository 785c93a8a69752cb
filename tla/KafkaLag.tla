------------------------------ MODULE KafkaLag ------------------------------
(***************************************************************************)
(* How far behind the accounting worker may be when an authorization is    *)
(* granted.  A monitor in the worker's process probes the broker: for      *)
(* every partition it reads the clock and the database checkpoint, then    *)
(* the broker's end offset (probe).  An end offset observed at time t is a *)
(* fence: once the checkpoint has reached it, everything produced before t *)
(* is accounted for (lagCoverage.update).  The result goes to the          *)
(* kafka_lag row of the database, which authorizations read, in this or    *)
(* in other processes (KafkaLag.reason).                                   *)
(* src/internal/kafka/listener.go, src/internal/store/auth.go.             *)
(*                                                                         *)
(* Producers, the worker and the clock run between any two steps of a      *)
(* probe; the process may die and restart; the wall clock may be set back; *)
(* partitions may be added.  Time is counted in ticks.  Kafka does not     *)
(* lose records here, nor partitions.                                      *)
(***************************************************************************)
EXTENDS Integers, Sequences, FiniteSetsExt

CONSTANTS
    Partitions,     \* partitions the topic may come to have
    MaxAge,         \* MaxKafkaLag
    MaxReal,        \* bound: when time stops
    MaxLog,         \* bound: records per partition
    MaxBack,        \* bound: how far the wall clock is set back, in all
    MaxCrashes      \* bound: how often the process goes down

ASSUME MaxAgeAssumption == MaxAge \in Nat \ {0}
ASSUME PartitionsAssumption == Partitions \subseteq Nat

VARIABLES
    real,       \* the time a clock nobody touches shows
    back,       \* how far the wall clock has been set back
    topic,      \* Kafka: the partitions there are
    log,        \* Kafka: the real time each record of a partition came
    next,       \* ingestion_checkpoints
    readers,    \* the partitions the worker reads: those it found at its start
    alive,      \* the process runs
    probe,      \* the probe under way: [started, parts, seen]
    polled,     \* the real time the last probe began
    coverage,   \* lagCoverage.partitions; Uncovered for one it does not hold
    row,        \* kafka_lag
    crashes,    \* how often the process has gone down
    suspect     \* history: the wall clock was set back after the last Regress

clockVars == <<real, back>>
kafkaVars == <<topic, log>>
monitorVars == <<probe, polled, coverage>>
lagVars == <<clockVars, kafkaVars, next, readers, alive, monitorVars, row, crashes, suspect>>

Clock == real - back

-----------------------------------------------------------------------------
\* What a probe has of a partition before it looks, and before the broker
\* tells the end offset.
Unread == -1
Unseen == [next |-> 0, observed |-> 0, end |-> Unread]

NoProbe == [started |-> 0, parts |-> {}, seen |-> [p \in Partitions |-> Unseen]]

\* partitionCoverage{} and KafkaLag{}
Uncovered == [next |-> 0, end |-> 0, observed |-> 0, covered |-> 0, pending |-> <<>>]
NoLag == [checked |-> 0, covered |-> 0, available |-> FALSE]

-----------------------------------------------------------------------------
(***************************************************************************)
(* Authorization's question                                                *)
(***************************************************************************)
LagReason(h, now) ==
    IF \/ ~h.available
       \/ h.checked <= 0
       \/ h.covered <= 0
       \/ h.checked > now
       \/ h.covered > h.checked
       \/ now - h.checked >= MaxAge
      THEN "kafka lag unavailable"
    ELSE IF now - h.covered >= MaxAge THEN "kafka lag exceeded"
    ELSE ""

Acceptable == LagReason(row, Clock) = ""

-----------------------------------------------------------------------------
(***************************************************************************)
(* lagCoverage.update                                                      *)
(***************************************************************************)
\* The pending fences the update is done with, from the oldest: those the
\* checkpoint has reached, and those too old to matter.
Consumed(fences, n, cutoff) ==
    Min({i \in 1 .. Len(fences) : fences[i].end > n /\ fences[i].at > cutoff}
          \cup {Len(fences) + 1}) - 1

\* Mutant of CoveredBy: nothing is covered until a fence is passed by a record.
CoveredBeyond(fences, n, consumed, covered) ==
    LET reached == {i \in 1 .. consumed : fences[i].end < n}
    IN  IF reached = {} THEN covered ELSE fences[Max(reached)].at

\* The time of the last of them that was reached, if one was.
CoveredBy(fences, n, consumed, covered) ==
    LET reached == {i \in 1 .. consumed : fences[i].end <= n}
    IN  IF reached = {} THEN covered ELSE fences[Max(reached)].at

\* Mutant of Advanced: a fence is given the time of the update.
AdvancedLate(c, seen, checked) ==
    LET fences == Append(c.pending, [end |-> seen.end, at |-> checked])
        consumed == Consumed(fences, seen.next, checked - MaxAge)
    IN  [next     |-> seen.next,
         end      |-> seen.end,
         observed |-> seen.observed,
         covered  |-> CoveredBy(fences, seen.next, consumed, c.covered),
         pending  |-> SubSeq(fences, consumed + 1, Len(fences))]

Advanced(c, seen, checked) ==
    LET fences == Append(c.pending, [end |-> seen.end, at |-> seen.observed])
        consumed == Consumed(fences, seen.next, checked - MaxAge)
    IN  [next     |-> seen.next,
         end      |-> seen.end,
         observed |-> seen.observed,
         covered  |-> CoveredBy(fences, seen.next, consumed, c.covered),
         pending  |-> SubSeq(fences, consumed + 1, Len(fences))]

\* Mutant of Forgotten: the wall clock of before has to be caught up with.
ForgottenEvidence(c) == [c EXCEPT !.covered = 0, !.pending = <<>>]

\* Live time evidence is dropped, offset baselines are kept.
Forgotten(c) == [c EXCEPT !.observed = 0, !.covered = 0, !.pending = <<>>]

\* Mutants of Lag: the partition that is ahead counts; the row is as fresh as
\* the end of the probe.
LagOfLatest(cover, parts, started, checked) ==
    LET through == Max({cover[p].covered : p \in parts})
    IN  [checked |-> started, covered |-> Min({through, started}), available |-> through > 0]

LagAtCheck(cover, parts, started, checked) ==
    LET through == Min({cover[p].covered : p \in parts} \cup {checked})
    IN  [checked |-> checked, covered |-> through, available |-> through > 0]

\* The parts are covered through the least of their times, and a probe covers
\* nothing after it started: a partition may have been added since.
Lag(cover, parts, started, checked) ==
    LET through == Min({cover[p].covered : p \in parts} \cup {checked})
    IN  [checked   |-> started,
         covered   |-> Min({through, started}),
         available |-> through > 0]

\* SetKafkaLag; when the database cannot be written the old row stays.
Save(h) == row' \in {h, row}

-----------------------------------------------------------------------------
(***************************************************************************)
(* The monitor: probes one after the other, at least a tick apart          *)
(***************************************************************************)
BeginProbe ==
    /\ alive
    /\ probe = NoProbe
    /\ polled < real
    /\ probe' = [NoProbe EXCEPT !.started = Clock, !.parts = topic]
    /\ polled' = real
    /\ UNCHANGED <<clockVars, kafkaVars, next, readers, alive, coverage, row, crashes, suspect>>

Seen(p) == probe.seen[p].end # Unread

\* The clock is read first, then the checkpoint.
Look(p) ==
    /\ p \in probe.parts
    /\ ~Seen(p)
    /\ probe.seen[p] = Unseen
    /\ \A q \in probe.parts : q < p => Seen(q)
    /\ probe' = [probe EXCEPT !.seen[p] = [next |-> next[p], observed |-> Clock, end |-> Unread]]
    /\ UNCHANGED <<clockVars, kafkaVars, next, readers, alive, polled, coverage, row, crashes, suspect>>

\* The broker answers.
ReadEnd(p) ==
    /\ p \in probe.parts
    /\ ~Seen(p)
    /\ probe.seen[p] # Unseen
    /\ probe' = [probe EXCEPT !.seen[p].end = Len(log[p])]
    /\ UNCHANGED <<clockVars, kafkaVars, next, readers, alive, polled, coverage, row, crashes, suspect>>

\* The probe did not get through, or its observations cannot be used: one is
\* later than now (the clock was set back meanwhile).
FailProbe ==
    /\ probe # NoProbe
    /\ Save([NoLag EXCEPT !.checked = probe.started])
    /\ probe' = NoProbe
    /\ UNCHANGED <<clockVars, kafkaVars, next, readers, alive, polled, coverage, crashes, suspect>>

Complete ==
    /\ probe # NoProbe
    /\ \A p \in probe.parts : Seen(p) /\ probe.seen[p].observed <= Clock

\* The wall clock is behind what an earlier probe saw.
ClockRegressed == \E p \in probe.parts : probe.seen[p].observed < coverage[p].observed

Regress ==
    /\ Complete
    /\ ClockRegressed
    /\ coverage' = [p \in Partitions |-> Forgotten(coverage[p])]
    /\ Save([NoLag EXCEPT !.checked = probe.started])
    /\ probe' = NoProbe
    /\ suspect' = FALSE
    /\ UNCHANGED <<clockVars, kafkaVars, next, readers, alive, polled, crashes>>

Update ==
    /\ Complete
    /\ ~ClockRegressed
    /\ coverage' = [p \in Partitions |->
          IF p \in probe.parts THEN Advanced(coverage[p], probe.seen[p], Clock)
          ELSE coverage[p]]
    /\ Save(Lag(coverage', probe.parts, probe.started, Clock))
    /\ probe' = NoProbe
    /\ UNCHANGED <<clockVars, kafkaVars, next, readers, alive, polled, crashes, suspect>>

-----------------------------------------------------------------------------
(***************************************************************************)
(* The process                                                             *)
(***************************************************************************)
\* Serve forgets the last run's evidence before anything else starts; the
\* worker finds its partitions once.
Start ==
    /\ ~alive
    /\ alive' = TRUE
    /\ readers' = topic
    /\ row' = NoLag
    /\ UNCHANGED <<clockVars, kafkaVars, next, monitorVars, crashes, suspect>>

\* A stop takes the evidence back if it still can, a crash does not.
Stop ==
    /\ alive
    /\ crashes < MaxCrashes
    /\ crashes' = crashes + 1
    /\ alive' = FALSE
    /\ readers' = {}
    /\ probe' = NoProbe
    /\ coverage' = [p \in Partitions |-> Uncovered]
    /\ Save(NoLag)
    /\ UNCHANGED <<clockVars, kafkaVars, next, polled, suspect>>

\* Store.Ingest commits a record.
Consume(p) ==
    /\ p \in readers
    /\ next[p] < Len(log[p])
    /\ next' = [next EXCEPT ![p] = @ + 1]
    /\ UNCHANGED <<clockVars, kafkaVars, readers, alive, monitorVars, row, crashes, suspect>>

-----------------------------------------------------------------------------
(***************************************************************************)
(* The surroundings                                                        *)
(***************************************************************************)
Tick ==
    /\ real < MaxReal
    /\ real' = real + 1
    /\ UNCHANGED <<back, kafkaVars, next, readers, alive, monitorVars, row, crashes, suspect>>

SetBack ==
    /\ back < MaxBack
    /\ Clock > 1
    /\ back' = back + 1
    /\ suspect' = TRUE
    /\ UNCHANGED <<real, kafkaVars, next, readers, alive, monitorVars, row, crashes>>

Produce(p) ==
    /\ p \in topic
    /\ Len(log[p]) < MaxLog
    /\ log' = [log EXCEPT ![p] = Append(@, real)]
    /\ UNCHANGED <<clockVars, topic, next, readers, alive, monitorVars, row, crashes, suspect>>

AddPartition(p) ==
    /\ p \notin topic
    /\ topic' = topic \cup {p}
    /\ UNCHANGED <<clockVars, log, next, readers, alive, monitorVars, row, crashes, suspect>>

-----------------------------------------------------------------------------
LagInit ==
    /\ real = 1
    /\ back = 0
    /\ topic \in {{p} : p \in Partitions}
    /\ log = [p \in Partitions |-> <<>>]
    /\ next = [p \in Partitions |-> 0]
    /\ readers = {}
    /\ alive = FALSE
    /\ probe = NoProbe
    /\ polled = 0
    /\ coverage = [p \in Partitions |-> Uncovered]
    /\ row = NoLag
    /\ crashes = 0
    /\ suspect = FALSE

LagNext ==
    \/ BeginProbe \/ FailProbe \/ Regress \/ Update
    \/ Start \/ Stop
    \/ Tick \/ SetBack
    \/ \E p \in Partitions : \/ Look(p) \/ ReadEnd(p)
                             \/ Consume(p)
                             \/ Produce(p) \/ AddPartition(p)

LagSpec == LagInit /\ [][LagNext]_lagVars

-----------------------------------------------------------------------------
(***************************************************************************)
(* Properties                                                              *)
(***************************************************************************)
\* No authorization is granted on stale accounting: whenever the row lets one
\* through, every record that came MaxAge ago or earlier (and what the clock
\* was set back) is charged, in every partition, the ones added since the worker
\* started too; through crashes, failed probes and failed writes.
BoundedStaleness ==
    Acceptable =>
        \A p \in topic : \A i \in DOMAIN log[p] :
            log[p][i] <= real - back - MaxAge => i <= next[p]

\* Without a monitor authorization stops: the row lets nothing through unless a
\* probe began less than MaxAge ago (and what the clock was set back).
FailsClosed == Acceptable => real - polled < MaxAge + back

\* A probe that finds every partition consumed up to its end, and no clock that
\* ran backwards, lets authorizations through again at once if it was quick
\* enough, whatever the fences left pending, the earlier failures and the
\* regressions before it.
CaughtUp ==
    \A p \in probe.parts : /\ probe.seen[p].end <= probe.seen[p].next
                           /\ probe.seen[p].observed >= probe.started

QuietTopicAccepted ==
    [][Update /\ CaughtUp /\ row' # row /\ Clock - probe.started < MaxAge
         => Acceptable']_lagVars

\* Setting the clock back, however far, costs one probe at most: the next one
\* that completes is not held against the times of before.
RegressOnce == [][Regress => suspect]_lagVars
=============================================================================
