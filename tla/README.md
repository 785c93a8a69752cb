# A verification project for Clearinghouse Batteries

TLA+ modules that model the clearinghouse's accounting, the TLC configurations
that check them on small instances, and theorems about them whose proofs TLAPS
checks for every instance. Paths below are those of the repository; `store/` is
`internal/store/`, and so on.

The program takes the tickets a Livepeer remote signer signs, charges each one
to the allocation of the API key it was authorized under, tells signers through
a webhook whether a payment may be signed, and follows the escrow of the signing
address on the TicketBroker contract. Everything it decides is in one SQLite
database, and every write is an immediate transaction (`Store.Write`,
store/store.go), so operations on the database are atomic and totally ordered.
What can go wrong is therefore not a torn write but what happens *between*
transactions: in the memory of workers, at the brokers and nodes they read from,
in decisions taken on earlier reads, and in columns kept by hand beside what they
summarise.

1. [The system](#1-the-system)
2. [The modules](#2-the-modules)
3. [The runs](#3-the-runs)
4. [The proofs](#4-the-proofs)
5. [What is not modelled](#5-what-is-not-modelled)
6. [Plan](#6-plan)

## 1. The system

| Component | State | Operations | What makes it correct |
| --- | --- | --- | --- |
| **Budgets and ledger**: store/manage.go, store/store.go | `grants`, `grant_allocations`, `ledger_*`, `account_balances` | create and fund grants and allocations, set a status, revoke, charge usage | a grant's pool is never overdrawn; `allocated_units`, kept by hand, is what the ledger says; a status agrees with the balance; revoking and closing are final |
| **Metric summaries**: store/metrics.go, migration 003 with its backfill | `metric_counts`, `metric_amounts`, `metric_balances` | every write above, and every event and settlement below, moves them by the difference it makes; the migration computes them, its undoing drops them | they always equal a fresh aggregate of the tables, wherever in the database's life they began |
| **Usage ingestion**: store/ingest.go, kafka/listener.go | `usage_events`, `ingestion_checkpoints`; the worker's offsets and records in hand | open readers at the checkpoints, fetch, ingest one record per transaction; crash, restart | the audit trail is the consumed log; an event is charged once; a genuine ticket is charged whatever became of the allocation; everything is consumed in the end |
| **Ticket attribution**: `rematch` in store/ingest.go, store/settlements.go | `signing_authorizations`, `settlements.match_status` | rematch when a ticket or a redemption arrives, in either order, and across reorganisations | the attribution says what all tickets of the pair say; an ambiguous one never becomes certain again |
| **Authorization webhook**: store/auth.go, auth/http.go | `api_keys`, `payment_sessions` | read a snapshot and decide; open a session under the write lock; touch timestamps | a session is opened only when everything permits it at that moment; one state id, one session; withdrawn permissions are denied |
| **Kafka lag monitor**: `Lag` and `lagCoverage` in kafka/listener.go, `KafkaLag.reason` in store/auth.go, app/server.go | `kafka_lag` row; fences in memory | probe each partition, move coverage, publish, invalidate | an authorization is never granted when a record older than the limit is not yet charged; a dead monitor closes authorization; a quiet topic does not |
| **Chain listener**: chain/listener.go | the position of a step in memory | take an opening snapshot, compare the checkpoint with the chain, walk back, fetch headers and logs, apply | it books what the chain holds, whatever turns between two calls, and gives up only on a reorganisation it cannot undo |
| **Escrow and settlement ledger**: store/settlements.go | `ticket_broker_events`, `settlements`, `chain_blocks`, `escrow_snapshots` | bootstrap, apply a batch, rewind | the accounts of every followed signer hold what the contract holds at the checkpoint's block, and the summaries with them |
| **Management idempotency**: store/idempotency.go, app/management.go | `management_idempotency` | run, replay or refuse a call with a key | a call takes effect once and is answered the same way for ever |
| **Management API and pagination**: app/management.go, app/pagination.go, app/presentation.go | none but the cursor the client holds | routes, lists with cursors | a client that follows cursors gets every row once, though rows are inserted and re-attributed meanwhile |
| **Schema migrations**: migrations/ | the schema, its history | up, down, backfill of the summaries | processes that migrate at once apply each migration once; history and schema agree wherever one is killed |
| **Process supervision**: app/server.go, cmd/clearinghouse/main.go | locks; goroutines and the channel of their outcomes | open and migrate the database, take the locks, discard old evidence, start the components, stop them together | exclusive components run once; one failure stops all and keeps its error; no lock outlives its holder; nobody trusts another run's evidence |
| Service credentials, embedded broker, metrics registry, unit conversion, CLI, deployment | see `PROJECT.json` | | |

How they interact:

```
 signer --webhook--> Authorization --reads--> budgets, keys, sessions, kafka_lag
    |                     \--opens--> payment_sessions
    \--ticket--> Kafka --> ingestion worker --charges--> budgets, usage_events
                   |             \--rematch--> settlements
                   \--end offsets--> lag monitor --publishes--> kafka_lag
 operators --> management API (idempotency) --> budgets, keys, sessions
 TicketBroker --RPC--> chain listener --books--> escrow accounts, settlements
                                                       \--rematch--> attribution
```

Components share nothing but the database, with two exceptions: the lag monitor and
the ingestion worker run in one process and discover the topic's partitions
separately; and the components of one process end together, and exclude those of
another by file locks.

The behaviours that are hard to test, each with the line where it bites and the
properties aimed at it, are the `hazards` of `PROJECT.json`. In short:

- *read, then decide, then write*: the webhook decides on one read and opens the
  session in another transaction, and touches timestamps in a third;
- *two sources in any order*: tickets and redemptions; probes of partitions and the
  progress of the worker; management and usage that was already signed;
- *an outside world that moves between two calls*: the chain between the headers and
  the logs of a batch, the topic between a checkpoint and an end offset;
- *crashes and redelivery*: the worker, the monitor, a process that is killed with
  locks, evidence and a half-migrated database, clients that lost an answer;
- *values maintained by differences*: `allocated_units`, statuses, all summaries;
- *several processes on one database*: migrations, locks, the lag evidence.

## 2. The modules

An action is one transaction, one RPC or broker call, or one thing the outside world
does. A call that is refused returns an error and changes nothing, so it has no
step of its own unless the caller keeps something of it. Strings, names and hashes
are model values. Amounts are integers: the code uses `math/big`.

| Module | Models | State and actions |
| --- | --- | --- |
| `Budget` | grants, allocations, ledger | the columns of the tables; one action per management operation and `Charge` for an applied ticket. Ledger entries are append-only and are represented by the balances they add up to. Closing and reopening, "all", debts after a revocation, exhaustion are all there |
| `BudgetMetrics` | the summaries beside `Budget` | every action of `Budget` with the summaries it moves and by how much; `overdrawn` is the rows of `metric_balances` for allocations in debt. `Migrate` is migration 003 with its backfill, on whatever an earlier release (`Unsummarised`) has left, and `Rollback` its undoing |
| `ChargeOnce` | *abstract*: what ingestion promises | a set of bills, one per event id, and the spent amounts they add up to |
| `Ingestion` | the worker, extends `Budget` | the log of each partition, the worker's offsets and records in hand, the audit rows and checkpoints; `Outcome` is the classification of a record in the order of the code's checks; crash, restart, truncation by retention, management beside it |
| `Attribution` | `rematch` and the counts it moves | signed tickets, settlements and their states and matches; a ticket, a redemption, a reorganisation and its return in any order |
| `Pagination` | a client that lists settlements, beside `Attribution` | the rows in order of insertion, and the walk: filter, cursor, the page just returned, those before; `steady` is history, the rows that matched all along. One action per request, `Write` for every transaction of the others |
| `KafkaLag` | the monitor, the row and the reader's decision | real time and the wall clock apart; a probe in steps: clock, checkpoint and end offset of a partition; fences; publication that fails or not; crashes, added partitions, a clock set back |
| `Authorization` | the webhook, extends `Budget` | API keys, sessions, and per request the stage it has reached (`decide`, `create`, `touch`) and the time it took; management, usage, the clock and the lag evidence move in between |
| `TicketBroker` | *external*: the contract and the chain | a block is known by the payloads mined since genesis, so a branch, its contract state and its logs are functions of its hash; a redemption pays from the deposit and then from the reserve and logs the claim, the transfer and itself; what `getSenderInfo` returns |
| `EscrowLedger` | logs to events to books, as pure algorithms | `OrderedUnique`, `Correlated` (a redemption is paid what the logs before it say), then `Applied` and `Rewound` with the postings and the summaries of both tables: operators from books to books, an error being `ok = FALSE` |
| `EscrowChain` | the listener and the chain it follows | `pc` is the point of `Step` reached; every RPC call is a step, the chain may grow or turn before it, and the node may list logs in another order or twice |
| `Idempotency` | `writeIdempotent`, extends `Budget` | keys, stored responses, the client's last answer; any call may be handled again at any time |
| `Migrations` | `Up` and `Down` | the rows of the history and the schema apart, so that they could disagree; per process what it found missing (`plan`) and what it does |
| `Supervisor` | `Serve`, extends `Migrations` | `pc` is the point of `Serve`; the locks each process has, its components that run, the channel of outcomes, the error to return; the run whose lag evidence is stored. A signal, a kill at any point, an upgrade or a rollback while all are down |
| `...Proofs` (eight) | theorems | see section 4 |

`Ingestion`, `Authorization` and `Idempotency` extend `Budget` and interleave its
actions, so each is a composition with management and usage rather than a component
by itself. `EscrowChain` composes the listener with the chain and the books,
`Pagination` a client with attribution, `Supervisor` processes with their migrations.
Attribution is a function of tickets and settlements only: the tickets `Ingestion`
applies and the redemptions `EscrowChain` settles are its inputs.

Points where a model decides something the code leaves to others:

- **Kafka** keeps offsets dense and in order, may truncate from the front
  (`Ingestion`), and does not lose records it acknowledged (`KafkaLag`).
- **Signers** emit a ticket only for a session an authorization returned. Anything
  else may still appear in the topic.
- **The chain** may turn at any moment to any branch with at least as many blocks.
  A branch that leaves and returns *within one step* of the listener would pass both
  header checks with logs read elsewhere; `EscrowChain` assumes that it does not
  happen (`gone`). The code cannot notice it.
- **A reorganisation beneath the opening anchor or the lookback** ends the listener:
  that is the code's decision, and `GivesUpOnlyWhenDeep` says it happens in no other
  case.
- **Redemptions of signers nobody follows** are in the contract and not in the logs,
  which are asked for by sender (`eve` in `MCEscrowChain`).
- **Operators** stop everything before `migrate down` or another release, as
  README.md asks under "Database management"; otherwise `Supervisor` lets them do as they like.
- **Files of migrations** are numbered and a release knows a prefix of them; a
  checksum that differs is a refused start like any other.
- **Time** in `KafkaLag` and `Authorization` is in ticks, and the limits are one to
  three ticks long; only comparisons matter.
- **Errors of the database** can fail any management call (`Idempotency`) and any
  publication (`KafkaLag`); elsewhere a failed transaction is a stutter.

## 3. The runs

| Run | Module and bounds | What it shows |
| --- | --- | --- |
| `budget` | `MCBudget`, of `BudgetMetrics`: a dollar grant shared by two interchangeable allocations and an ether grant with one, amounts 0 to 2, two units to give and to spend each, migration 003 applied and undone at any time | the pool is never overdrawn; `allocated_units` = available + spent, also in debt; statuses agree with balances; revoking and closing are final; the summaries equal fresh aggregates after every operation and after every backfill |
| `ingestion` | `MCIngestion`: two interchangeable partitions, three appends out of five kinds of record, one crash, management meanwhile | the audit trail is the consumed log; what was signed is charged; the worker implements `ChargeOnce` |
| `ingestion_live` | `MCIngestionLive`: two partitions, two crashes, from an empty database | as long as retention spares what is unread, everything is consumed |
| `attribution` | `MCPagination`: three sessions of two allocations, two tickets, three settlements, pages of one or two | attribution is current in every order; the counts are right; ambiguity is final; a walk repeats no row and skips none |
| `kafka_lag` | `MCKafkaLag`: a second partition is added, one crash, four ticks | bounded staleness, and closed without a monitor |
| `kafka_lag_clock` | `MCKafkaLagBack`: two records, the clock set back two ticks in all | staleness is bounded when the clock regresses; a quiet topic is accepted; a regression costs one probe |
| `authorization` | `MCAuthorization`: two keys, one state id, two requests that race for it, three ticks | a session is opened only when permitted at that moment; only the request it belongs to is allowed |
| `authorization_open` | `MCAuthorizationOpen`: an open session and two requests that use it | a request that sees a withdrawal is denied; timestamps only move forward |
| `escrow_chain` | `MCEscrowChain`: two followed signers, one of them configured twice, and one that is not; four blocks, batches and lookback of two, two reorganisations, one failed call, a start with history before it | the books are the contract's; canonical events are the chain's; the summaries are those of the rows; no batch is refused for ever; giving up only when the reorganisation is deep |
| `escrow_chain_live` | `MCEscrowChainLive`: from the head, one confirmation, three reorganisations | the listener ends on the chain with everything confirmed, or has given up |
| `idempotency` | `MCIdempotency`: five calls, one of each operation, two keys, one grant with two allocations | calls with a key take effect once, keys name one call, retries agree |
| `lifecycle` | `MCSupervisor`: two processes that both monitor the lag, one with the webhook and one with the chain listener; three starts; releases that know one migration or three | the history is whole; components run on their release's schema; exclusive components run once; evidence is the run's own; the first error is kept; a failure takes the process down and frees its locks |

**Why the bounds are enough to be interesting.** Each is the smallest in which the
hazard happens and one more actor or unit than it needs:

- *Budget.* Two allocations of one grant, so that what one returns can be given to the
  other while usage of the first still arrives; a second grant, because summaries
  are kept per currency and must not mix. Amount 0 makes allocations that are born
  exhausted; usage of two after a revocation makes debts.
- *Ingestion.* Two partitions, so that the same event arrives on both; a payload with
  the first one's id and another fee; a ticket of a session nobody opened; a
  non-ticket that takes a ticket's id first. Three appends make a redelivery
  after a conflict; one crash at every point.
- *KafkaLag.* A limit of two ticks, so that evidence can be fresh, about to expire and
  expired; a partition that is added after the worker started; in the second run
  two records and a total of two ticks back, so that a second regression can
  precede recovery from the first.
- *Authorization.* Two requests with different keys are what races for one session;
  that more of them change nothing is proved (section 4).
- *Pagination.* Three rows and pages of one: a first, a middle and a last page, with
  a row inserted, one orphaned or one re-attributed between any two of them. More
  rows, pages and sessions are proved.
- *EscrowChain.* A batch of two over four blocks makes at least two batches; two
  reorganisations leave a branch and return to it, which is when the rows that were
  reversed are raised again and their idempotency keys would collide; in
  `escrow_chain_live` a third one reverses them again. A lookback of two is
  shorter than the chain, so history really is pruned. One block redeems four
  tickets: more than the deposit, more than what is left, of a signer nobody
  follows, and one that pays nothing, so that all shapes of payment logs adjoin.
- *Idempotency.* Each key is used for a call on the grant and one on its allocation.
- *Supervisor.* Two processes with a lock in common, of which each has another
  component besides; three starts let a process find what two others left;
  releases of one and three migrations make plans of several migrations, and
  upgrades and rollbacks over them.

Bounds are constants named `Max...`, and appear only in guards of the environment
(`MaxLog`, `MaxReorgs`, `MaxCrashes`, `MaxReal`, `MaxStarts`) or of amounts (`MaxFunding`,
`MaxUsage`); the proofs hold for every value of them. Symmetry is used for
interchangeable ids only, never in a run with a liveness property.

**Deadlock** is not checked where the system really may stop: when the bounds are
reached and all is done, when everything is revoked, or when the listener gave up.

**Fairness**, weak throughout.

- `ingestion_live` assumes that the worker is started again when it is down
  (SECURITY.md asks for a supervisor that restarts failures, and the example
  deployment restarts the service unless it is stopped), and that each reader
  fetches and ingests what it can: `readPartition` is a loop that only an error
  leaves. Nothing is assumed of producers, retention or management. Crashes are
  bounded, since a worker that crashes before every commit consumes nothing.
- `escrow_chain_live` assumes that the listener's loop goes on (`Run` calls `Step`
  for ever, with a delay) and that blocks are mined up to the bound.
  Reorganisations are bounded, since a chain that turns at every call is never read.
  The listener has a step in every state but "stopped", where a check that fails is a
  step too, so its fairness is written as "it stops or steps for ever".
- `lifecycle` assumes that the main goroutine of a process is scheduled, and that a
  component whose context is canceled ends, as all loops of the program check it.
  Nothing is assumed of components that are not canceled, of operators or of signals.

The other properties are safety properties and assume none.

**Properties that are less obvious than they look.**
`BoundedStaleness` relates the row an authorization reads to records the broker
holds and the worker has not seen, through fences, clock and crashes;
it is why the clock is read before the checkpoint and the checkpoint before the end
offset. `GenuineTicketsCharged` excepts a ticket whose event id
another payload used first: the code quarantines the later one, so that a producer's
duplicate id, not the order of management calls, is the only way for a signed ticket
not to be charged. `LedgerMirrorsContract` compares the books with a contract whose
redemptions pay less than their face value, though no log of a redemption says what
it paid: the amounts come from the logs that stand before it. `NothingSkipped` says
nothing of rows that were re-attributed in or out of the filter during the walk.
`ErrorKept` excepts a process the operator stopped: the outcome `Serve` receives first
may then be `context.Canceled`, which hides an error another component returns later.

Every property has a mutant: an alternative definition, kept beside the one it
replaces and marked as such, that a plausible mistake in the code would amount to
and under which TLC finds the property violated.

## 4. The proofs

TLAPS checks these for every value of the constants, so for any number of grants,
partitions, records, crashes, callers, keys, requests, sessions, settlements, blocks,
signers, processes and migrations. The only assumptions are those the modules state
about their constants, which TLC evaluates in the runs: the shape of amounts, records,
calls and requests, what belongs to what (`GrantOfAssumption`,
`KeyAllocationAssumption`, `TicketOfAssumption`, ...), that limits of pages and of age,
batches and lookbacks are positive, that there are finitely many redemptions to count,
that no lock comes twice in the order they are taken in and that the lag monitor has one.

| Run | Proved for every instance | Model-checked only |
| --- | --- | --- |
| `budget` | all | |
| `ingestion` | all | |
| `attribution` | all | |
| `kafka_lag`, `kafka_lag_clock` | all | |
| `authorization`, `authorization_open` | all | |
| `escrow_chain` | all | |
| `idempotency` | all | |
| `lifecycle` | all but | `TearsDown` |
| `ingestion_live`, `escrow_chain_live` | | liveness |

**`AccountingProofs`, for the budget.** `BudgetInvariant` proves `BudgetInv`, the conjunction of the
invariants the run checks with two that make it inductive: an absent row has
nothing in the ledger (otherwise creating it would inherit a balance), and what was
spent is not negative. The proof separates *moving money* from *who moves it*:
`PoolFundingPreserves` for funding source to pool, `PoolTransferPreserves` for pool
to allocation and back, with a sign, `ChargePreserves` for usage. Each operation
then only shows that it is one of these. The corollaries are `TypeCorrect`,
`PoolIsSafe`, `AllocatedUnitsCorrect`, `StatusCorrect`, and `FinalityHolds` for the
action property.

For the summaries, `MetricsImplementBudget` shows that each action of
`BudgetMetrics` is Budget's action beside it, and those of the migration stutter; the
budget's invariant therefore holds beside the summaries. `SummariesAreScans` is
inductive with the types of the three tables alone. A transfer or a charge changes the
balance of one account, so each sum over accounts changes by the difference at
that account (`SumWithout` for the sum, one row in or out of a set for the counts), which
is what the code adds; a change of status moves one row between two counts. The
migration's scans leave out absent rows and the property's do not: they agree
because an absent row has nothing in the ledger (`BudgetInv` again).

**`FoldProofs`.** What the community modules add up or fold is defined by recursion over
sets. The library's induction theorems take an operator as parameter, which
the provers cannot instantiate, so induction is stated with a *set* instead:
`FiniteInduction` says that a family of sets that holds the empty set and, with each of
its finite sets, those with one element more, holds all subsets of a finite
set; what is proved by induction is membership in a family. From it follow that a
fold over a finite set or a sequence is the last value of a *trace*, a chain of
steps that takes each element once (`FoldFunctionTrace`, `FoldSetTrace`,
`FoldLeftTrace`), and, with + for the operator, that a sum does not depend on the
order and is the sum over the rest and one value more (`SumEmpty`, `SumWithout`,
`SumSame`).

**`AccountingProofs`, for the worker.** The audit invariant is not inductive by itself: a
record in the worker's hands must be one the log has, and a running worker's offset must be
its checkpoint (`MemoryMatches`, in `IngestInv`). `AuditCorrect` follows. For
`IngestionImplementsChargeOnce`, the initial state maps to no bills, `Ingest` of an
applied record maps to one bill of an event that has none, since an applied row
holds its id and `Outcome` applies no record whose id is held, and every other step
stutters. `IngestionImplementsBudget` shows that the worker and its surroundings
take only Budget's steps on the ledger, so that everything proved of `Budget` holds
beside ingestion. For `GenuineCharged`, the session a genuine ticket in the log names
exists and stays (`LogAuthorized`), so that it is quarantined for its event id alone:
when it is consumed its id is held by some row (`GenuineHeld`), and the row of its own that
holds it is an applied one (`GenuineApplied`).

**`HttpProofs`, for idempotency.** The inductive invariant gives the rows of
`management_idempotency` their meaning: a row is filed under the grant of its call,
no two rows of a grant share a key, and a keyed call was committed once if it
has a row and never otherwise. From it follow `CallsExecuteOnce`, `KeysNameOneCall`
and `CommittedAnswersStand`; the last also needs that a stored call's allocation is
never deleted, which comes from `IdempotencyImplementsBudget` and
`TypeCorrect`.

**`HttpProofs`, for the webhook.** One fact makes the invariant inductive (`SnapshotStands`): the
read without the lock may be out of date in everything, except that a session it saw
still belongs to the key and has the binding it saw, because sessions never change
hands. A request can then only be allowed with its own session
(`AllowedHaveTheirSession`). `OpenedOnlyWhenPermitted` needs no more than the second read
under the lock; `WithdrawnAreDenied` follows a request from the read that saw the
withdrawal to its answer; `ActivityOnlyForward` needs that no time is in the future.
`AuthorizationKeepsBudget` shows that the webhook and what goes on beside it take only
Budget's steps on the ledger.

**`ServiceProofs`, for attribution and pages.** For attribution, the settlements of a pair say what its signers
say, by `RematchAttributes`, and those of other pairs are left alone; a redemption that has no
row yet must be known to have no attribution. The counts follow rows that move from
one bucket to another (`CountJoined`, `CountLeft`), through both places that adjust
them in one transaction. For the walk, two facts about the cursor are inductive: no row of
the pages so far is beyond it, and the rows counted as steady still match the
filter. `LastOfPage` and `PageIsPrefix` say what a page of at most `limit` rows is when
more match than fit. `PaginationKeepsAttribution` carries the theorems about
attribution to the composition.

**`KafkaLagProofs`.** Each time the monitor has written down, in the observations of
the probe under way, in pending fences, in the coverage or in the row, is a fact about
the log: *all that came before t is within the first n records, and t is not ahead of
real time* (`Within`). Records that come later cannot make it false, and the checkpoint
only grows, so it is preserved by every step of the outside world; a probe
observes the clock before the end offset, so it is established. `LagMeans` says that
the row's time is no later than any partition's, and a partition the probe
did not see has no record older than its start. `StalenessIsBounded` then compares
the row's time with the reader's clock, and what it was set back.
`ClockRegressesOnce` and `QuietTopicLetsThrough` rest on a second invariant
(`MonitorInvariant`): unless the clock is suspect, nothing the monitor has kept is ahead
of the clock or of what the probe has seen since; fences are within the log, and within
what the probe saw of it.

**`ServiceProofs`, for processes and migrations.** Four invariants, each inductive with the types: a process that may
run components has all its locks, and no lock is held twice; from the moment it
discards the evidence it alone writes it; what is applied is a prefix of the files,
and a process that has migrated misses none; an outcome that was not caused by
cancellation is an error. The lemma that matters is `NextIsDue`: the lowest
migration of a plan made long ago is either applied already or the one the
schema waits for, since others only ever apply the next one.

**`EscrowProofs`.** The books, with neither listener nor chain. `InOrder` says that each
summary is the sum or count of what it summarises, that every row has a
generation, and that each idempotency key in use names a generation its row has
reached (`KeysKnown`), so that the key of the next posting is new. There is a lemma for
each statement of a transaction (`Transfer`, `FromEscrow`, `ToEscrow`, the settlement's and
the event's, forth and back), and the folds over a batch or over the rows
above an ancestor are walked with the traces of `FoldProofs`: `AppliedKeepsOrder` and
`RewoundKeepsOrder`, the latter with the stronger result that a rewind never fails.
For the logs, `ContractIs` says that the recursive function that plays every branch of
the contract gives each branch its type, `AnswersAreOrdered` that sorting an answer gives
the branch's own order, however the node lists and repeats it, and `CorrelatedIs` what
events correlation makes of a list: one for each log, with its identity.

**`ReplayProofs`.** The books against the contract they are read from, still without the
listener. The contract is played forward by the calls of a block, the books by the events
correlated from the logs of those calls. What ties them is a *replay*: it starts from
the amounts the contract holds before a block, each event *suits* the amounts that the
ones before it leave (which is what `ApplyEscrowEvent` requires of the balances), and it
ends with what the contract holds after.

- `CallReplays`: a call adds to the replay the event that says what it moved. For a
  redemption this is where the claim and the transfer that stand before it
  are put together, whichever of them there are.
- `BlockTold` and `LogsTell` go on to blocks and to a stretch of a branch: its
  logs of followed signers lead from the contract's amounts before it to those after it.
  `LogsAccepted` says that nothing in such a list is out of place.
- Books *mirror* the contract at a block when every balance is the contract's amount less
  what it was before the opening snapshot (`Mirrors`). `FilledMirrors`: the opening
  entries mirror the snapshot. `AppliedMirrors`: a batch that follows is applied, with no
  statement failing, and mirrors its last block. `RewoundMirrors`: a rewind mirrors the
  ancestor, since each live row has its log's event (`RowsTell`), the rewind takes back
  the sum of what these moved (`SettlementsTake`, `EventsTake`), and that sum is what the
  replay from the ancestor had added (`TellsSums`).

**`ListenerProofs`.** Four invariants of the listener beside its chain, each resting on those
before.

- `EscrowInv`: the stored blocks are a stretch of one branch that ends at the
  checkpoint and reaches down to the lookback below the highest block ever scanned, or to
  the opening snapshot. A batch keeps this so because each header names the one before
  (`LinkedIsBranch`), though they are read at different times from a chain that moves;
  a rewind keeps it because the ancestor is one of the stored blocks. When the
  walk has no block left to try, the last one it tried has all those above it as descendants,
  so none of them is on the chain (`GiveUpIsDeep`).
- `LedgerInv`: the books are in order, everything in them belongs to a scanned block, and
  what was read but is not stored yet is events of the batch. `EscrowTypeIsOK` and
  `SummariesStayCurrent` follow.
- `CanonicalInv`: whatever a step has read, header or logs, is of the chain as it is now, or
  a block of it is known to have left the chain while the step runs. A block
  that left does not come back before the step ends (the assumption that hashes are as
  good as fresh), so when the last header is found on the chain again, none had
  left, and the logs read before were its own. `CanonicalIsTheChain` follows: after
  any number of reorganisations, refusals and crashes the canonical rows are exactly those
  of the checkpoint's branch above the opening snapshot.
- `MirrorInv`: the opening balances in memory are those that the senders held at the
  anchor, unless the anchor is known to have left the chain, and the books mirror the
  contract at the checkpoint. The snapshot is committed only when the anchor is found on the
  chain again, so it had not left (`BootstrapKeepsMirror`); a batch only when its last
  header is, so that what is applied is the logs of that stretch (`VerifiedMirrors`).
  `LedgerMirrorsTheContract` follows, and so does `BooksNeverRefuse`: a batch that passes the
  header checks is accepted by correlation and refused by no balance, no earlier row and no
  idempotency key, so the listener is never stuck on one.

**What stays with TLC.** Every safety property of the runs, invariant or action property, is a
theorem. Liveness (`EverythingConsumed`, `CatchesUp`, `TearsDown`) is not: the prover
does not handle fairness or ENABLED.

## 5. What is not modelled

- *Formats and wording*: JSON, addresses, decimal amounts, HTTP status codes, the
  shared secret and the bearer token. Decisions that precede any read of state are
  left out of `Authorization`.
- *The configuration of the chain listener* (`resolveConfig`), which is read once before
  the first step, and its metrics.
- *Summaries*: the backfill of the escrow and settlement summaries (that of the
  budget's is modelled), the counts of quarantined records, and the query plan of
  `metricExtreme`.
- *Reports*: `EscrowReport` and the settlement report only read. The former reads
  balances and checkpoint in separate statements, so that a batch may be applied
  in between; nothing is decided on it.
- *Lists other than settlements*, which have the same query and the same cursors over
  rows that are not re-attributed; routing, permissions and presentation.
- *Unit conversion*: exact conversion between decimals and integers, digit by digit.
- *Revoking an API key or a session* concerns authorization only and is in
  `Authorization`, not in `Budget`.
- *The ledger as entries*: a transaction's two entries are equal and opposite by
  construction in `Transfer`; the schema's triggers that refuse anything else are
  not modelled.
- *SQLite*: transactions are assumed to be atomic and isolated as `BEGIN IMMEDIATE`
  in WAL mode makes them. The webhook's first read sees one consistent snapshot.
- *Checksums of migrations*, and databases from before the history table.
- *Ports and the embedded broker*: startup steps of `Supervisor` that may fail. The
  broker's access rules are configuration of a third party's code.
- The metrics registry, service credentials, the command line and deployment carry no
  accounting state.

## 6. Plan

Done, the most important behaviour first: `Budget`, `Ingestion` with `ChargeOnce`,
`BudgetMetrics`, `Attribution`, `KafkaLag`, `Authorization`, `EscrowLedger` and
`EscrowChain`, `Idempotency`; then several signers and the correlation of payment logs
in `EscrowLedger`, the summaries of settlements and escrow, the backfill in
`BudgetMetrics`, `Pagination`, `Migrations` and `Supervisor`; and the proofs of section 4.

What would add most next:

1. `Clearinghouse`: `Authorization`, `Ingestion` and `KafkaLag` over one budget: how
   much can be signed between two charges.
2. The backfill of the escrow and settlement summaries, against `EscrowLedger`.
3. `Units`: decimal to minor units and back, over bounded inputs.
