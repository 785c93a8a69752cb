----------------------------- MODULE EscrowChain -----------------------------
(***************************************************************************)
(* The chain listener (src/internal/chain/listener.go, Run and Step) that  *)
(* follows the chain's escrow events, beside a chain that grows and        *)
(* reorganises between any two of its RPC calls.                           *)
(*                                                                         *)
(* A Step asks the node one thing at a time: every action of the listener  *)
(* is one RPC answer with what the code makes of it up to the next call,   *)
(* the database transaction it leads to included (nothing else writes the  *)
(* chain tables).  All a Step knows is local: any error, timeout or crash  *)
(* ends it and leaves what it committed.                                   *)
(*                                                                         *)
(* Block hashes are as good as fresh: a block that leaves the chain while  *)
(* a Step runs does not come back before the Step ends.                    *)
(***************************************************************************)
EXTENDS EscrowLedger

CONSTANTS
    Start,          \* Config.Start: first block to scan, or Latest
    Latest,         \* Start is not configured: begin at the head
    Confirmations, BatchSize, Lookback,
    Mined,          \* the chain when the listener first runs
    MaxReorgs,      \* bound: reorganisations
    MaxFailures     \* bound: Steps ended by an RPC error, a timeout or a crash

ASSUME ConfigAssumption ==
    /\ Confirmations \in Nat /\ BatchSize \in Nat \ {0} /\ Lookback \in Nat \ {0}
    /\ Latest \notin Nat /\ Start \in (Nat \ {0}) \cup {Latest}
ASSUME MinedAssumption == Mined \in Hashes /\ Len(Mined) > 0
ASSUME BoundsAssumption == MaxReorgs \in Nat /\ MaxFailures \in Nat

VARIABLES
    chain,      \* the node's canonical chain, by the hash of its head
    gone,       \* hashes that left the chain while this Step runs
    reorgs, failures,
    checkpoint, \* ingestion_checkpoints: [next, hash]; next is 0 without a row
    blocks,     \* chain_blocks: hash by number
    snapshot,   \* escrow_snapshots: [hash, splits], the anchor and each sender's escrow
    books,      \* events, settlements and ledger
    pc,         \* Step: what it asks next
    head,       \* Step: number of the latest block, as first read
    anchor,     \* Step: hash the opening snapshot is taken at
    opening,    \* Step: the escrows read for the opening snapshot, in Opening order
    candidate,  \* Step: number of the stored block compared with the chain
    fetched,    \* Step: headers read, hash by number
    logs,       \* Step: the events correlated from the logs read
    highest     \* history: the last block that was ever scanned

database == <<checkpoint, blocks, snapshot, books, highest>>
node == <<chain, reorgs>>
local == <<head, anchor, opening, candidate, fetched, logs>>
escrowVars == <<node, gone, failures, database, pc, local>>

-----------------------------------------------------------------------------
OnChain(hash) == Len(hash) <= Len(chain) /\ hash = Ancestor(chain, Len(hash))

\* The senders of the opening snapshot, each once.
KeptOnce(kept, s) == IF Contains(kept, s) THEN kept ELSE Append(kept, s)

Opening == FoldLeft(KeptOnce, <<>>, Senders)

\* The first block of a new checkpoint.
First == IF Start = Latest THEN head ELSE Start

MaxOf(S) == CHOOSE n \in S : \A m \in S : m <= n

\* The blocks this Step scans.
Final == checkpoint.next + Lesser(BatchSize - 1, head - Confirmations - checkpoint.next)
Batch == checkpoint.next .. Final

Linked ==
    \A n \in Batch :
        Front(fetched[n]) = IF n = checkpoint.next THEN checkpoint.hash ELSE fetched[n - 1]

\* The logs asked of the node; it leaves out blocks it does not have.
FilteredLogs == Logs(chain, checkpoint.next, Final)

\* How it may answer: in another order, and some of them twice.
Answers == {FilteredLogs, Reverse(FilteredLogs), Reverse(FilteredLogs) \o FilteredLogs}

InFetchedBlocks(ids) == \A i \in DOMAIN ids : ids[i].block = fetched[Len(ids[i].block)]

\* The books with the batch's events in, and whether the transaction commits.
Outcome == Applied(books, logs)

\* Mutant of Verified: the last header is not read again.
VerifiedBefore == TRUE

Verified == OnChain(fetched[Final])

-----------------------------------------------------------------------------
EndStep(next) ==
    /\ pc' = next
    /\ gone' = {}
    /\ head' = 0 /\ anchor' = <<>> /\ opening' = <<>>
    /\ candidate' = 0 /\ fetched' = <<>> /\ logs' = <<>>

Ask(next) == pc' = next /\ UNCHANGED <<gone, node, failures>>

(***************************************************************************)
(* A new checkpoint: the opening snapshot                                  *)
(***************************************************************************)
\* Checkpoint and latestHeader.
BeginStep ==
    /\ pc = "idle"
    /\ head' = Len(chain)
    /\ Ask(IF checkpoint.next = 0 THEN "anchor" ELSE "compare")
    /\ UNCHANGED <<database, anchor, opening, candidate, fetched, logs>>

ReadAnchor ==
    /\ pc = "anchor"
    /\ First - 1 <= Len(chain)
    /\ anchor' = Ancestor(chain, First - 1)
    /\ Ask("snapshot")
    /\ UNCHANGED <<database, head, opening, candidate, fetched, logs>>

\* getSenderInfo of the next sender at the anchor's number, on whatever chain there
\* is now.
ReadSenderInfo ==
    /\ pc = "snapshot"
    /\ Len(anchor) <= Len(chain)
    /\ LET sender == Opening[Len(opening) + 1]
           e == Contract[Ancestor(chain, Len(anchor))].escrow[sender]
       IN  opening' = Append(opening, [sender |-> sender, deposit |-> e.deposit,
                                       reserve |-> e.reserve])
    /\ Ask(IF Len(opening') = Len(Opening) THEN "anchored" ELSE "snapshot")
    /\ UNCHANGED <<database, head, anchor, candidate, fetched, logs>>

AnchorVerified == OnChain(anchor)

\* The anchor's header is read again, then BootstrapChain.
Bootstrap ==
    /\ pc = "anchored"
    /\ AnchorVerified
    /\ blocks' = [n \in {Len(anchor)} |-> anchor]
    /\ snapshot' = [hash |-> anchor, splits |-> opening]
    /\ books' = FoldLeft(Opened, books, opening)
    /\ checkpoint' = [next |-> Len(anchor) + 1, hash |-> anchor]
    /\ highest' = Len(anchor)
    /\ Ask("compare")
    /\ UNCHANGED local

-----------------------------------------------------------------------------
(***************************************************************************)
(* Is the checkpoint still on the chain, and if not, what stored block is? *)
(***************************************************************************)
\* Mutant of Confirmed: the newest confirmed block waits for another.
ConfirmedLater == head - Confirmations > checkpoint.next

Confirmed == head - Confirmations >= checkpoint.next

Compare ==
    /\ pc = "compare"
    /\ checkpoint.next - 1 <= Len(chain)
    /\ OnChain(checkpoint.hash)
    /\ UNCHANGED <<database, node, failures>>
    /\ IF Confirmed
         THEN pc' = "headers" /\ UNCHANGED <<gone, local>>
         ELSE EndStep("idle")

FindOrphaned ==
    /\ pc = "compare"
    /\ checkpoint.next - 1 <= Len(chain)
    /\ ~OnChain(checkpoint.hash)
    /\ candidate' = MaxOf(DOMAIN blocks)
    /\ Ask("walk")
    /\ UNCHANGED <<database, head, anchor, opening, fetched, logs>>

\* Stored blocks to try after the candidate.
Older == {n \in DOMAIN blocks : n < candidate /\ checkpoint.next - 1 - n <= Lookback}

TryOlder ==
    /\ pc = "walk"
    /\ candidate <= Len(chain)
    /\ ~OnChain(blocks[candidate])
    /\ Older # {}
    /\ candidate' = MaxOf(Older)
    /\ Ask("walk")
    /\ UNCHANGED <<database, head, anchor, opening, fetched, logs>>

\* fatalError: Run returns.
GiveUp ==
    /\ pc = "walk"
    /\ candidate <= Len(chain)
    /\ ~OnChain(blocks[candidate])
    /\ Older = {}
    /\ EndStep("stopped")
    /\ UNCHANGED <<database, node, failures>>

\* Mutant of Rewind: the ancestor is scanned again.
RewindToAncestor ==
    /\ pc = "walk"
    /\ candidate <= Len(chain)
    /\ OnChain(blocks[candidate])
    /\ candidate >= Len(snapshot.hash)
    /\ books' = Rewound(books, candidate)
    /\ blocks' = [n \in {m \in DOMAIN blocks : m <= candidate} |-> blocks[n]]
    /\ checkpoint' = [next |-> candidate, hash |-> blocks[candidate]]
    /\ EndStep("idle")
    /\ UNCHANGED <<node, failures, snapshot, highest>>

Rewind ==
    /\ pc = "walk"
    /\ candidate <= Len(chain)
    /\ OnChain(blocks[candidate])
    /\ candidate >= Len(snapshot.hash)
    /\ books' = Rewound(books, candidate)
    /\ blocks' = [n \in {m \in DOMAIN blocks : m <= candidate} |-> blocks[n]]
    /\ checkpoint' = [next |-> candidate + 1, hash |-> blocks[candidate]]
    /\ EndStep("idle")
    /\ UNCHANGED <<node, failures, snapshot, highest>>

-----------------------------------------------------------------------------
(***************************************************************************)
(* A batch of confirmed blocks                                             *)
(***************************************************************************)
\* The headers are read in parallel.
FetchHeader(n) ==
    /\ pc = "headers"
    /\ n \in Batch \ DOMAIN fetched
    /\ n <= Len(chain)
    /\ fetched' = [m \in DOMAIN fetched \cup {n} |-> IF m = n THEN Ancestor(chain, n) ELSE fetched[m]]
    /\ Ask("headers")
    /\ UNCHANGED <<database, head, anchor, opening, candidate, logs>>

FilterLogs ==
    /\ pc = "headers"
    /\ Batch \subseteq DOMAIN fetched
    /\ Linked
    /\ \E answer \in Answers :
          LET ids == OrderedUnique(answer)
          IN  /\ InFetchedBlocks(ids)
              /\ Accepted(Correlated(ids))
              /\ logs' = Correlated(ids).events
    /\ Ask("recheck")
    /\ UNCHANGED <<database, head, anchor, opening, candidate, fetched>>

\* Mutant of Retained: one block fewer.
RetainedFewer(n) == n > Final - Lookback

Retained(n) == n >= Final - Lookback

\* The last header is read again, then ApplyChain.
ApplyChain ==
    /\ pc = "recheck"
    /\ Verified
    /\ Outcome.ok
    /\ books' = Outcome
    /\ blocks' = [n \in {m \in DOMAIN fetched \cup DOMAIN blocks : Retained(m)} |->
                    IF n \in DOMAIN fetched THEN fetched[n] ELSE blocks[n]]
    /\ checkpoint' = [next |-> Final + 1, hash |-> fetched[Final]]
    /\ highest' = Greater(highest, Final)
    /\ EndStep("idle")
    /\ UNCHANGED <<node, failures, snapshot>>

-----------------------------------------------------------------------------
(***************************************************************************)
(* A Step that ends with an error, and is tried again after the poll       *)
(* interval: a header that is missing, or a check that fails.              *)
(***************************************************************************)
Refused ==
    \/ pc = "anchor" /\ First - 1 > Len(chain)
    \/ pc = "snapshot" /\ Len(anchor) > Len(chain)
    \/ pc = "anchored" /\ ~AnchorVerified
    \/ pc = "compare" /\ checkpoint.next - 1 > Len(chain)
    \/ pc = "walk" /\ candidate > Len(chain)
    \/ pc = "headers" /\ \E n \in Batch \ DOMAIN fetched : n > Len(chain)
    \/ /\ pc = "headers" /\ Batch \subseteq DOMAIN fetched
       /\ \/ ~Linked
          \/ \E answer \in Answers :
                ~(InFetchedBlocks(OrderedUnique(answer)) /\ Accepted(Correlated(OrderedUnique(answer))))
    \/ pc = "recheck" /\ ~(Verified /\ Outcome.ok)

Refuse ==
    /\ Refused
    /\ EndStep("idle")
    /\ UNCHANGED <<database, node, failures>>

\* The node or the database fails, the Step times out, or the process crashes.
Fail ==
    /\ pc \notin {"idle", "stopped"}
    /\ failures < MaxFailures
    /\ failures' = failures + 1
    /\ EndStep("idle")
    /\ UNCHANGED <<database, node>>

-----------------------------------------------------------------------------
(***************************************************************************)
(* The chain                                                               *)
(***************************************************************************)
Mine(payload) ==
    /\ Len(chain) < MaxHeight
    /\ Append(chain, payload) \notin gone
    /\ chain' = Append(chain, payload)
    /\ UNCHANGED <<gone, reorgs, failures, database, pc, local>>

\* The blocks above n make room for another.
Reorganise(n, payload) ==
    LET fork == Append(Ancestor(chain, n), payload)
    IN  /\ reorgs < MaxReorgs
        /\ n < Len(chain)
        /\ payload # chain[n + 1]
        /\ fork \notin gone
        /\ chain' = fork
        /\ reorgs' = reorgs + 1
        /\ gone' = IF pc \in {"idle", "stopped"} THEN {} ELSE gone \cup {Ancestor(chain, n + 1)}
        /\ UNCHANGED <<failures, database, pc, local>>

-----------------------------------------------------------------------------
EscrowInit ==
    /\ chain = Mined
    /\ gone = {}
    /\ reorgs = 0 /\ failures = 0
    /\ checkpoint = [next |-> 0, hash |-> <<>>]
    /\ blocks = <<>>
    /\ snapshot = [hash |-> <<>>, splits |-> <<>>]
    /\ books = EmptyBooks
    /\ pc = "idle"
    /\ head = 0 /\ anchor = <<>> /\ opening = <<>>
    /\ candidate = 0 /\ fetched = <<>> /\ logs = <<>>
    /\ highest = 0

Listener ==
    \/ BeginStep
    \/ ReadAnchor \/ ReadSenderInfo \/ Bootstrap
    \/ Compare \/ FindOrphaned \/ TryOlder \/ GiveUp \/ Rewind
    \/ \E n \in Batch : FetchHeader(n)
    \/ FilterLogs \/ ApplyChain
    \/ Refuse

EscrowNext ==
    \/ Listener
    \/ Fail
    \/ \E payload \in Payloads :
          \/ Mine(payload)
          \/ \E n \in 0 .. MaxHeight : Reorganise(n, payload)

EscrowSpec == EscrowInit /\ [][EscrowNext]_escrowVars

\* The listener polls for ever and the chain goes on.  In every state but "stopped" the
\* listener has a step to take (a check that fails is a step, Refuse), so this is the
\* weak fairness of Listener, said without ENABLED, which is slow to evaluate.
LiveEscrowSpec ==
    /\ EscrowSpec
    /\ []<>(pc = "stopped") \/ []<><<Listener>>_escrowVars
    /\ WF_escrowVars(\E payload \in Payloads : Mine(payload))

-----------------------------------------------------------------------------
(***************************************************************************)
(* Properties                                                              *)
(***************************************************************************)
\* The stored blocks are consecutive ancestors of the checkpoint, the last of
\* them the checkpoint itself, and everything stored belongs to a scanned block.
EscrowTypeOK ==
    /\ chain \in Hashes
    /\ pc \in {"idle", "anchor", "snapshot", "anchored", "compare", "walk", "headers",
               "recheck", "stopped"}
    /\ reorgs \in 0 .. MaxReorgs /\ failures \in 0 .. MaxFailures
    /\ books.ok
    /\ \A table \in {books.events, books.settlements} :
          \A id \in DOMAIN table :
              table[id].live \in BOOLEAN /\ table[id].generation \in Nat /\ Len(id.block) <= highest
    /\ IF checkpoint.next = 0
         THEN books = EmptyBooks /\ blocks = <<>>
         ELSE /\ checkpoint.next = Len(checkpoint.hash) + 1
              /\ \E n \in Len(snapshot.hash) .. Len(checkpoint.hash) :
                    DOMAIN blocks = n .. Len(checkpoint.hash)
              /\ \A n \in DOMAIN blocks : blocks[n] = Ancestor(checkpoint.hash, n)

\* Each followed signer's escrow accounts hold what the contract held at the
\* checkpoint's block, and its settled spend is what its redemptions on that chain
\* since the snapshot paid: whatever was posted, reversed and posted again on the
\* way there, and though a redemption's own log does not say what was paid.
LedgerMirrorsContract ==
    checkpoint.next > 0 =>
        \A s \in Followed :
            LET contract == Contract[checkpoint.hash].escrow[s]
            IN  /\ books.ledger[s].deposit = contract.deposit
                /\ books.ledger[s].reserve = contract.reserve
                /\ books.ledger[s].spend = contract.paid - Contract[snapshot.hash].escrow[s].paid

\* The canonical events are those of the checkpoint's chain since the snapshot,
\* none missed and none left over from an abandoned branch; the settled
\* redemptions are the redemptions among them.
CanonicalIsChain ==
    checkpoint.next > 0 =>
        LET ids == ToSet(Logs(checkpoint.hash, Len(snapshot.hash) + 1, Len(checkpoint.hash)))
        IN  /\ Live(books.events) = ids
            /\ Live(books.settlements) = {id \in ids : LogOf(id).kind = "winning_ticket_redeemed"}

\* A batch whose blocks and logs are those of the chain is never refused, in whatever
\* order the node lists the logs: the payments always belong to the redemptions
\* they stand before, no idempotency key is taken and no balance disagrees, so the
\* listener is not stuck on a batch it would refuse for ever.
NeverRefusedByBooks ==
    /\ pc = "headers" /\ Batch \subseteq DOMAIN fetched =>
          \A answer \in Answers : Accepted(Correlated(OrderedUnique(answer)))
    /\ pc = "recheck" /\ Verified => Outcome.ok

\* What /metrics shows of settlements and escrow, which only ever changes by
\* differences, is what the rows and the balances add up to, through every reorg.
SummariesAreCurrent ==
    LET rows     == books.settlements
        settled  == Live(rows)
        face     == [id \in settled |-> rows[id].event.amount]
        paid     == [id \in settled |-> Paid(rows[id].event)]
        summary  == books.summary
    IN  /\ summary.rows.settled = Cardinality(settled)
        /\ summary.rows.orphaned = Cardinality(DOMAIN rows \ settled)
        /\ summary.face = SumFunction(face)
        /\ summary.paid = SumFunction(paid)
        /\ summary.shortfall = summary.face - summary.paid
        /\ summary.underpaid = Cardinality({id \in settled : paid[id] < face[id]})
        /\ checkpoint.next > 0 =>
              \A b \in Buckets :
                  LET balance == [s \in Followed |-> books.ledger[s][b]]
                  IN  /\ summary.held[b] = SumFunction(balance)
                      /\ summary.unfunded[b] = Cardinality({s \in Followed : balance[s] = 0})

\* The listener gives up only when no block from the lookback below the highest
\* block it ever scanned (or from the opening snapshot) up to its checkpoint is on
\* the chain.
GivesUpOnlyWhenDeep ==
    [][pc # "stopped" /\ pc' = "stopped" =>
         \A n \in Greater(Len(snapshot.hash), highest - Lookback) .. Len(checkpoint.hash) :
            ~OnChain(Ancestor(checkpoint.hash, n))]_escrowVars

\* Unless it gave up, the listener ends on the chain, with all that is confirmed.
CatchesUp ==
    <>[](\/ pc = "stopped"
         \/ /\ checkpoint.next > Len(chain) - Confirmations
            /\ OnChain(checkpoint.hash))
=============================================================================
