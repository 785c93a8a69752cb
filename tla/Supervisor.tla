----------------------------- MODULE Supervisor -----------------------------
(***************************************************************************)
(* The life of clearinghouse processes on one data directory (Serve in     *)
(* src/internal/app/server.go): open the database and migrate it, take the *)
(* lock of each exclusive component, discard the last run's Kafka lag      *)
(* evidence, start the components, and end when the operator says so or    *)
(* when the first component ends: cancel the others, wait for all, release *)
(* the locks.                                                              *)
(*                                                                         *)
(* The operator may start a process beside another, stop one and kill one  *)
(* at any time, and changes the release only while none is up.             *)
(***************************************************************************)
EXTENDS Migrations, Sequences

CONSTANTS
    Config,         \* the components each process runs
    LockOrder,      \* lock files in the order they are taken
    LockOf,         \* the lock a component needs, or NoLock
    NoLock,
    Web, Lag,       \* the components that read and write the Kafka lag evidence
    MaxStarts       \* bound: starts of processes

Components == UNION {Config[p] : p \in Processes}
Locks == {LockOrder[i] : i \in DOMAIN LockOrder}

ASSUME ConfigAssumption == LockOf \in [Components -> Locks \cup {NoLock}]
ASSUME LockAssumption ==
    /\ NoLock \notin Locks
    /\ \A i, j \in DOMAIN LockOrder : LockOrder[i] = LockOrder[j] => i = j
    /\ \A c \in Components \cap {Lag} : LockOf[c] \in Locks
ASSUME MaxStartsAssumption == MaxStarts \in Nat

Outcomes == {"ok", "canceled", "failed"}

VARIABLES
    pc,         \* Serve: where each process is
    locks,      \* locks each process has taken
    alive,      \* components that run
    done,       \* channel of their outcomes
    canceled,   \* ctx is canceled
    result,     \* Serve: the error to return, "ok" for none
    stopped,    \* the operator asked this run to end
    run,        \* number of the run
    evidence,   \* kafka_lag: the run whose evidence is stored, 0 for none
    starts

processVars == <<pc, locks, alive, done, canceled, result, stopped, run>>
supervisorVars == <<migrationVars, processVars, evidence, starts>>

Needed(p) == {LockOf[c] : c \in Config[p]} \ {NoLock}

Held == UNION {locks[p] : p \in Processes}

Accounting(p) == Lag \in Config[p]

-----------------------------------------------------------------------------
(***************************************************************************)
(* Startup: any step may fail, for what is outside the model too (the      *)
(* disk, a port in use, a signal)                                          *)
(***************************************************************************)
At(p, here, next) == pc[p] = here /\ pc' = [pc EXCEPT ![p] = next]

\* The process is gone: its goroutines too, and its locks are free.
Exit(p, with) ==
    /\ pc' = [pc EXCEPT ![p] = "down"]
    /\ result' = [result EXCEPT ![p] = with]
    /\ locks' = [locks EXCEPT ![p] = {}]
    /\ alive' = [alive EXCEPT ![p] = {}]
    /\ done' = [done EXCEPT ![p] = <<>>]
    /\ mig' = [mig EXCEPT ![p] = "begin"]
    /\ plan' = [plan EXCEPT ![p] = {}]
    /\ UNCHANGED <<applied, schema, release, canceled, stopped, run, evidence, starts>>

Start(p) ==
    /\ At(p, "down", "migrate")
    /\ starts < MaxStarts
    /\ starts' = starts + 1
    /\ run' = [run EXCEPT ![p] = starts']
    /\ canceled' = [canceled EXCEPT ![p] = FALSE]
    /\ stopped' = [stopped EXCEPT ![p] = FALSE]
    /\ result' = [result EXCEPT ![p] = "ok"]
    /\ UNCHANGED <<migrationVars, locks, alive, done, evidence>>

Migrate(p) ==
    /\ pc[p] = "migrate"
    /\ Up(p)
    /\ UNCHANGED <<processVars, evidence, starts>>

Open(p) ==
    /\ At(p, "migrate", "lock")
    /\ Migrated(p)
    /\ UNCHANGED <<migrationVars, locks, alive, done, canceled, result, stopped, run, evidence, starts>>

\* The next lock of those it needs.
Wanted(p) ==
    LET rank(l) == CHOOSE i \in DOMAIN LockOrder : LockOrder[i] = l
    IN  CHOOSE l \in Needed(p) \ locks[p] : \A k \in Needed(p) \ locks[p] : rank(l) <= rank(k)

\* flock does not wait.
Lock(p) ==
    /\ pc[p] = "lock" /\ Needed(p) # locks[p]
    /\ \/ /\ Wanted(p) \notin Held
          /\ locks' = [locks EXCEPT ![p] = @ \cup {Wanted(p)}]
          /\ UNCHANGED <<migrationVars, pc, alive, done, canceled, result, stopped, run, evidence, starts>>
       \/ Wanted(p) \in Held /\ Exit(p, "failed")

\* Mutant of Discard: the evidence is kept.
DiscardNothing(p) ==
    /\ At(p, "lock", "start")
    /\ Needed(p) = locks[p]
    /\ UNCHANGED <<migrationVars, locks, alive, done, canceled, result, stopped, run, evidence, starts>>

\* SetKafkaLag, by a process that is to renew it.
Discard(p) ==
    /\ At(p, "lock", "start")
    /\ Needed(p) = locks[p]
    /\ evidence' = IF Accounting(p) THEN 0 ELSE evidence
    /\ UNCHANGED <<migrationVars, locks, alive, done, canceled, result, stopped, run, starts>>

\* The broker and the listeners are open: every component is started.
Launch(p) ==
    /\ At(p, "start", "serve")
    /\ alive' = [alive EXCEPT ![p] = Config[p]]
    /\ UNCHANGED <<migrationVars, locks, done, canceled, result, stopped, run, evidence, starts>>

StartupFails(p) == pc[p] \in {"migrate", "lock", "start"} /\ Exit(p, "failed")

Refuse(p) == pc[p] = "migrate" /\ mig[p] \in {"refused", "broken"} /\ Exit(p, "failed")

-----------------------------------------------------------------------------
(***************************************************************************)
(* Components                                                              *)
(***************************************************************************)
\* One ends and sends its outcome.  It does so by itself only with an error, and must
\* once its context is canceled.
End(p, c, outcome) ==
    /\ c \in alive[p]
    /\ outcome = "failed" \/ canceled[p]
    /\ alive' = [alive EXCEPT ![p] = @ \ {c}]
    /\ done' = [done EXCEPT ![p] = Append(@, outcome)]
    /\ UNCHANGED <<migrationVars, pc, locks, canceled, result, stopped, run, evidence, starts>>

\* MonitorLag stores what it found, the last time while it ends.
Observe(p) ==
    /\ Lag \in alive[p]
    /\ evidence' = run[p]
    /\ UNCHANGED <<migrationVars, processVars, starts>>

\* A signal.
Stop(p) ==
    /\ pc[p] = "serve"
    /\ stopped' = [stopped EXCEPT ![p] = TRUE]
    /\ canceled' = [canceled EXCEPT ![p] = TRUE]
    /\ UNCHANGED <<migrationVars, pc, locks, alive, done, result, run, evidence, starts>>

-----------------------------------------------------------------------------
(***************************************************************************)
(* Shutdown                                                                *)
(***************************************************************************)
\* The select of Serve, then cancel.
SelectStopped(p) ==
    /\ At(p, "serve", "drain")
    /\ stopped[p]
    /\ UNCHANGED <<migrationVars, locks, alive, done, canceled, result, stopped, run, evidence, starts>>

\* Mutant of SelectDone: the other components are waited for, but not told.
SelectDoneOnly(p) ==
    /\ At(p, "serve", "drain")
    /\ done[p] # <<>>
    /\ result' = [result EXCEPT ![p] = Head(done[p])]
    /\ done' = [done EXCEPT ![p] = Tail(@)]
    /\ UNCHANGED <<migrationVars, locks, alive, canceled, stopped, run, evidence, starts>>

SelectDone(p) ==
    /\ At(p, "serve", "drain")
    /\ done[p] # <<>>
    /\ result' = [result EXCEPT ![p] = Head(done[p])]
    /\ done' = [done EXCEPT ![p] = Tail(@)]
    /\ canceled' = [canceled EXCEPT ![p] = TRUE]
    /\ UNCHANGED <<migrationVars, locks, alive, stopped, run, evidence, starts>>

\* Mutant of Kept: the last outcome wins.
KeptLast(old, outcome) == outcome

\* The first error is kept.
Kept(old, outcome) == IF old = "ok" /\ outcome = "failed" THEN "failed" ELSE old

Drain(p) ==
    /\ pc[p] = "drain" /\ done[p] # <<>>
    /\ result' = [result EXCEPT ![p] = Kept(@, Head(done[p]))]
    /\ done' = [done EXCEPT ![p] = Tail(@)]
    /\ UNCHANGED <<migrationVars, pc, locks, alive, canceled, stopped, run, evidence, starts>>

\* Mutant of Drained: what has been received is enough.
DrainedSoFar(p) == done[p] = <<>>

Drained(p) == alive[p] = {} /\ done[p] = <<>>

\* Serve returns: its deferred calls release the locks.
Return(p) ==
    /\ At(p, "drain", "return")
    /\ Drained(p)
    /\ result' = [result EXCEPT ![p] = IF @ = "canceled" THEN "ok" ELSE @]
    /\ locks' = [locks EXCEPT ![p] = {}]
    /\ UNCHANGED <<migrationVars, alive, done, canceled, stopped, run, evidence, starts>>

\* The process is gone, and with it every goroutine that is left.
Gone(p) == pc[p] = "return" /\ Exit(p, result[p])

Kill(p) == pc[p] # "down" /\ Exit(p, "killed")

-----------------------------------------------------------------------------
\* What the operator does while every process is down.
Maintain ==
    /\ \A p \in Processes : pc[p] = "down"
    /\ Down \/ \E r \in Releases : Install(r)
    /\ UNCHANGED <<processVars, evidence, starts>>

SupervisorInit ==
    /\ MigrationsInit
    /\ pc = [p \in Processes |-> "down"]
    /\ locks = [p \in Processes |-> {}]
    /\ alive = [p \in Processes |-> {}]
    /\ done = [p \in Processes |-> <<>>]
    /\ canceled = [p \in Processes |-> FALSE]
    /\ result = [p \in Processes |-> "ok"]
    /\ stopped = [p \in Processes |-> FALSE]
    /\ run = [p \in Processes |-> 0]
    /\ evidence = 0 /\ starts = 0

Main(p) ==
    \/ Migrate(p) \/ Open(p) \/ Lock(p) \/ Discard(p) \/ Launch(p) \/ Refuse(p)
    \/ SelectStopped(p) \/ SelectDone(p) \/ Drain(p) \/ Return(p) \/ Gone(p)

SupervisorNext ==
    \/ \E p \in Processes :
          \/ Main(p) \/ StartupFails(p)
          \/ \E c \in Components, outcome \in Outcomes : End(p, c, outcome)
          \/ Observe(p)
          \/ Start(p) \/ Stop(p) \/ Kill(p)
    \/ Maintain

SupervisorSpec == SupervisorInit /\ [][SupervisorNext]_supervisorVars

\* The scheduler runs the main goroutine, and each component heeds its context.
LiveSupervisorSpec ==
    /\ SupervisorSpec
    /\ \A p \in Processes :
          /\ WF_supervisorVars(Main(p))
          /\ \A c \in Components :
                WF_supervisorVars(canceled[p] /\ \E outcome \in Outcomes : End(p, c, outcome))

-----------------------------------------------------------------------------
(***************************************************************************)
(* Properties                                                              *)
(***************************************************************************)
\* The components of a process run on the schema of its release, all of it and no more:
\* neither a process that migrates beside it nor one that is started after an upgrade or
\* a rollback changes that.
RunsOnItsSchema == \A p \in Processes : alive[p] # {} => schema = catalog

\* No two processes run an exclusive component at once, not even while one shuts down.
ComponentsExclusive ==
    \A p, q \in Processes : \A c \in alive[p], d \in alive[q] :
        LockOf[c] = LockOf[d] /\ LockOf[c] # NoLock => p = q

\* A webhook beside its own accounting never sees the Kafka lag evidence of another run:
\* of one that was killed, or of one that was still shutting down.
EvidenceIsOwn ==
    \A p \in Processes :
        Web \in alive[p] /\ Accounting(p) => evidence \in {0, run[p]}

\* A process that the operator did not stop returns an error, whatever its other
\* components return when the first one takes them down.
ErrorKept ==
    [][\A p \in Processes :
          pc[p] = "drain" /\ pc'[p] = "return" /\ ~stopped[p] => result'[p] = "failed"
      ]_supervisorVars

\* When one component has ended, the process ends, and its locks are free.
TearsDown ==
    \A p \in Processes :
        pc[p] = "serve" /\ alive[p] # Config[p] ~> pc[p] = "down" /\ locks[p] = {}
=============================================================================
