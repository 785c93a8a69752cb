---------------------------- MODULE EscrowLedger ----------------------------
(***************************************************************************)
(* What the chain listener makes of raw logs (orderedUniqueLogs, Decode    *)
(* and correlateRedemptions in src/internal/chain/listener.go), and what   *)
(* the accounting database makes of the events                             *)
(* (src/internal/store/settlements.go): the rows of ticket_broker_events   *)
(* and settlements, the double-entry postings for them, and the summaries  *)
(* of both that /metrics shows, for one chain and contract.                *)
(*                                                                         *)
(* The books are a record; the operators below are the statements of a     *)
(* transaction, in order.  ok tells whether one has failed, which rolls    *)
(* the transaction back.                                                   *)
(***************************************************************************)
EXTENDS TicketBroker, FiniteSetsExt

CONSTANT Senders    \* Config.Senders: the signers whose escrow is followed

ASSUME SendersAssumption == Senders \in Seq(Signers) /\ Senders # <<>>

Followed == ToSet(Senders)

-----------------------------------------------------------------------------
(***************************************************************************)
(* From logs to events                                                     *)
(***************************************************************************)
\* The logs of a block that name a followed signer, and those of the blocks first ..
\* last of the chain with that head.
Asked(kept, id) == IF LogOf(id).sender \in Followed THEN Append(kept, id) ELSE kept

FollowedLogs == Tabulated([hash \in Hashes |-> FoldLeft(Asked, <<>>, LogIds(hash))])

Logs(hash, first, last) ==
    FoldLeft(\o, <<>>, [i \in 1 .. Lesser(last, Len(hash)) - first + 1 |->
                           FollowedLogs[Ancestor(hash, first + i - 1)]])

Precedes(p, q) ==
    \/ Len(p.block) < Len(q.block)
    \/ Len(p.block) = Len(q.block) /\ p.index < q.index

\* Sorted, each once: an identity that comes again is dropped.
OrderedUnique(ids) ==
    LET all == ToSet(ids)
        place == [id \in all |-> Cardinality({other \in all : Precedes(other, id)}) + 1]
    IN  [n \in 1 .. Cardinality(all) |-> CHOOSE id \in all : place[id] = n]

Decode(id) ==
    LET log == LogOf(id)
    IN  [id |-> id, kind |-> log.kind, tx |-> log.tx, sender |-> log.sender,
         recipient |-> log.recipient, amount |-> log.amount, deposit |-> log.deposit,
         reserve |-> log.reserve]

NoEvent == [kind |-> "none"]

SamePayment(l, r) ==
    l.id.block = r.id.block /\ l.tx = r.tx /\ l.sender = r.sender /\ l.recipient = r.recipient

\* Mutant of CorrelateRedemption: the claim is kept for the next redemption.
CorrelateKeepingClaim(c, event) ==
    LET paid    == IF c.transfer = NoEvent THEN 0 ELSE c.transfer.amount
        claimed == IF c.claim = NoEvent THEN 0 ELSE c.claim.amount
    IN  [claim    |-> c.claim,
         transfer |-> NoEvent,
         events   |-> Append(c.events, [event EXCEPT !.deposit = paid - claimed,
                                                     !.reserve = claimed]),
         ok       |-> c.ok /\ claimed <= paid /\ paid <= event.amount]

\* A redemption was paid what the transfer before it says, as much of it from the
\* reserve as the claim before that says.
CorrelateRedemption(c, event) ==
    LET paid    == IF c.transfer = NoEvent THEN 0 ELSE c.transfer.amount
        claimed == IF c.claim = NoEvent THEN 0 ELSE c.claim.amount
    IN  [claim    |-> NoEvent,
         transfer |-> NoEvent,
         events   |-> Append(c.events, [event EXCEPT !.deposit = paid - claimed,
                                                     !.reserve = claimed]),
         ok       |-> /\ c.ok
                      /\ c.claim # NoEvent => c.transfer # NoEvent /\ SamePayment(c.claim, event)
                      /\ c.transfer # NoEvent => SamePayment(c.transfer, event)
                      /\ claimed <= paid /\ paid <= event.amount]

Correlate(c, event) ==
    LET pending == c.claim # NoEvent \/ c.transfer # NoEvent
        stored  == [c EXCEPT !.events = Append(@, event)]
    IN  CASE event.kind = "reserve_claimed" ->
               [stored EXCEPT !.claim = event, !.ok = @ /\ ~pending]
          [] event.kind = "winning_ticket_transfer" ->
               [stored EXCEPT !.transfer = event,
                              !.ok = /\ @ /\ c.transfer = NoEvent
                                     /\ c.claim # NoEvent => SamePayment(c.claim, event)]
          [] event.kind = "winning_ticket_redeemed" -> CorrelateRedemption(c, event)
          [] OTHER -> [stored EXCEPT !.ok = @ /\ ~pending]

Correlated(ids) ==
    FoldLeft(Correlate,
             [claim |-> NoEvent, transfer |-> NoEvent, events |-> <<>>, ok |-> TRUE],
             [i \in DOMAIN ids |-> Decode(ids[i])])

\* All of it is accepted: nothing is out of place and no payment is left over.
Accepted(c) == c.ok /\ c.claim = NoEvent /\ c.transfer = NoEvent

-----------------------------------------------------------------------------
(***************************************************************************)
(* Rows and summaries                                                      *)
(***************************************************************************)
\* Row of an event or a settlement, by the log's identity: live is status
\* "canonical" or "settled", otherwise "orphaned".
Live(table) == {id \in DOMAIN table : table[id].live}

\* Mutant of Raised: brought back in the same generation.
RaisedSame(table, event) ==
    LET id == event.id
        row == [live |-> TRUE, event |-> event,
                generation |-> IF id \in DOMAIN table THEN table[id].generation ELSE 0]
    IN  [other \in DOMAIN table \cup {id} |-> IF other = id THEN row ELSE table[other]]

\* Insert the row, or bring it back as the next generation.
Raised(table, event) ==
    LET id == event.id
        row == [live |-> TRUE, event |-> event,
                generation |-> IF id \in DOMAIN table THEN table[id].generation + 1 ELSE 0]
    IN  [other \in DOMAIN table \cup {id} |-> IF other = id THEN row ELSE table[other]]

Orphaned(table, id) == [table EXCEPT ![id].live = FALSE]

\* The identity is new, or its row says the same.
SameData(table, event) == event.id \in DOMAIN table => table[event.id].event = event

Units(b) == IF b THEN 1 ELSE 0

Paid(event) == event.deposit + event.reserve

Statuses == {"settled", "orphaned"}

\* updateSettlementMetrics: the status changes from old (or from no row) to next.
Counted(summary, old, next, event) ==
    LET sign == Units(next = "settled") - Units(old = "settled")
        shortfall == event.amount - Paid(event)
    IN  [summary EXCEPT !.rows = [status \in Statuses |->
                                    @[status] + Units(status = next) - Units(status = old)],
                        !.face = @ + sign * event.amount,
                        !.paid = @ + sign * Paid(event),
                        !.shortfall = @ + sign * shortfall,
                        !.underpaid = @ + sign * Units(shortfall > 0)]

Buckets == {"deposit", "reserve"}

\* updateBalanceMetrics, of the escrow accounts.
Held(summary, account, old, next) ==
    IF account \notin Buckets THEN summary
    ELSE [summary EXCEPT !.held[account] = @ + next - old,
                         !.unfunded[account] = @ + Units(next = 0) - Units(old = 0)]

-----------------------------------------------------------------------------
(***************************************************************************)
(* Postings.  ledger, by sender: treasury_cash, escrow_deposit,            *)
(* escrow_reserve and treasury_settled_spend.  keys:                       *)
(* ledger_transactions.idempotency_key.                                    *)
(***************************************************************************)
Accounts == {"cash"} \cup Buckets \cup {"spend"}

EmptyBooks ==
    [events |-> <<>>, settlements |-> <<>>, keys |-> {}, ok |-> TRUE,
     ledger |-> [s \in Followed |-> [account \in Accounts |-> 0]],
     summary |-> [rows |-> [status \in Statuses |-> 0],
                  face |-> 0, paid |-> 0, shortfall |-> 0, underpaid |-> 0,
                  held |-> [b \in Buckets |-> 0], unfunded |-> [b \in Buckets |-> 0]]]

\* Keys are unique: posting under one that is taken fails.  Nothing moves nothing.
Transfer(books, key, sender, from, to, units) ==
    LET balance == books.ledger[sender]
    IN  IF units = 0 THEN books
        ELSE [books EXCEPT
                !.ledger[sender] = [balance EXCEPT ![from] = @ - units, ![to] = @ + units],
                !.summary = Held(Held(@, from, balance[from], balance[from] - units),
                                 to, balance[to], balance[to] + units),
                !.ok = @ /\ key \notin books.keys,
                !.keys = @ \cup {key}]

\* The key of a posting for that generation of a row; for both buckets, with each.
Key(of, id, generation) == [of |-> of, id |-> id, generation |-> generation, bucket |-> ""]

\* Both buckets of the split, from or to another account.
FromEscrow(books, key, split, to) ==
    Transfer(Transfer(books, [key EXCEPT !.bucket = "deposit"],
                      split.sender, "deposit", to, split.deposit),
             [key EXCEPT !.bucket = "reserve"], split.sender, "reserve", to, split.reserve)
ToEscrow(books, key, split, from) ==
    Transfer(Transfer(books, [key EXCEPT !.bucket = "deposit"],
                      split.sender, from, "deposit", split.deposit),
             [key EXCEPT !.bucket = "reserve"], split.sender, from, "reserve", split.reserve)

\* The account that deposit_funded or reserve_funded fills.
Bucket(event) == IF event.kind = "deposit_funded" THEN "deposit" ELSE "reserve"

Funding == {"deposit_funded", "reserve_funded"}

\* BootstrapChain, for one sender: its empty accounts are registered, then filled.
Opened(books, split) ==
    ToEscrow([books EXCEPT !.summary.unfunded = [b \in Buckets |-> @[b] + 1]],
             Key("snapshot", split.sender, 0), split, "cash")

\* requireExactBalance, of both accounts.
ExactBalance(books, event) ==
    LET balance == books.ledger[event.sender]
    IN  event.deposit = balance.deposit /\ event.reserve = balance.reserve

\* The deposit pays all it can, the reserve has what it pays.
SplitMatches(books, event) ==
    LET balance == books.ledger[event.sender]
    IN  /\ event.deposit = Lesser(event.amount, balance.deposit)
        /\ event.reserve <= balance.reserve

ApplySettlement(books, event) ==
    LET raised == Raised(books.settlements, event)
        old    == IF event.id \in DOMAIN books.settlements THEN "orphaned" ELSE "none"
        stored == [books EXCEPT
                     !.settlements = raised,
                     !.summary = Counted(@, old, "settled", event),
                     !.ok = /\ @ /\ Paid(event) <= event.amount
                            /\ SameData(books.settlements, event)
                            /\ SplitMatches(books, event)]
    IN  IF event.id \in Live(books.settlements)
          THEN [books EXCEPT !.ok = @ /\ SameData(books.settlements, event)]
          ELSE FromEscrow(stored, Key("settle", event.id, raised[event.id].generation), event, "spend")

ApplyEscrowEvent(books, event) ==
    LET raised == Raised(books.events, event)
        same   == [books EXCEPT !.ok = @ /\ SameData(books.events, event)]
        stored == [same EXCEPT !.events = raised]
        key    == Key("event", event.id, raised[event.id].generation)
    IN  CASE event.kind = "winning_ticket_redeemed" ->
               ApplySettlement(IF event.id \in Live(books.events) THEN same ELSE stored, event)
          [] event.kind # "winning_ticket_redeemed" /\ event.id \in Live(books.events) -> same
          [] event.kind \in Funding /\ event.id \notin Live(books.events) ->
               Transfer(stored, key, event.sender, "cash", Bucket(event), event.amount)
          [] event.kind = "withdrawal" /\ event.id \notin Live(books.events) ->
               FromEscrow([stored EXCEPT !.ok = @ /\ ExactBalance(books, event)],
                          key, event, "cash")
          [] OTHER -> stored

\* The events of ApplyChain.
Applied(books, events) == FoldLeft(ApplyEscrowEvent, books, events)

-----------------------------------------------------------------------------
(***************************************************************************)
(* Rewind: first the settlements, then the events above the ancestor.      *)
(***************************************************************************)
\* Mutant of ReverseSettlement: the summaries keep counting it.
ReverseSettlementUncounted(id, books) ==
    LET row == books.settlements[id]
    IN  ToEscrow([books EXCEPT !.settlements = Orphaned(@, id)],
                 Key("orphan:settle", id, row.generation), row.event, "spend")

ReverseSettlement(id, books) ==
    LET row == books.settlements[id]
    IN  ToEscrow([books EXCEPT !.settlements = Orphaned(@, id),
                               !.summary = Counted(@, "settled", "orphaned", row.event)],
                 Key("orphan:settle", id, row.generation), row.event, "spend")

ReverseEvent(id, books) ==
    LET row      == books.events[id]
        event    == row.event
        orphaned == [books EXCEPT !.events = Orphaned(@, id)]
        key      == Key("orphan:event", id, row.generation)
    IN  CASE event.kind \in Funding ->
               Transfer(orphaned, key, event.sender, Bucket(event), "cash", event.amount)
          [] event.kind = "withdrawal" -> ToEscrow(orphaned, key, event, "cash")
          [] OTHER -> orphaned

Above(table, number) == {id \in Live(table) : Len(id.block) > number}

\* Mutant of Rewound: settlements keep their payment.
RewoundEvents(books, number) ==
    FoldSet(ReverseEvent, books, Above(books.events, number))

Rewound(books, number) ==
    FoldSet(ReverseEvent,
            FoldSet(ReverseSettlement, books, Above(books.settlements, number)),
            Above(books.events, number))
=============================================================================
