---------------------------- MODULE TicketBroker ----------------------------
(***************************************************************************)
(* What the chain says of the signers' escrow, external to the program.    *)
(*                                                                         *)
(* A block's payload stands for the TicketBroker calls in it.  Its hash    *)
(* commits to it and to all its ancestors, so the sequence of payloads     *)
(* from genesis to it stands for the hash, and the parent's hash is its    *)
(* front.  Genesis is block 0, with the empty hash.                        *)
(***************************************************************************)
EXTENDS Integers, SequencesExt

CONSTANTS
    Signers,    \* accounts of the contract
    Payloads,   \* what a block can hold
    Calls,      \* the calls in it, in order: [kind, tx, sender, recipient, amount, claimable]
    MaxHeight   \* bound: number of the last block

Kinds == {"deposit", "reserve", "redeem", "withdraw"}

ASSUME CallsAssumption ==
    Calls \in [Payloads -> Seq([kind: Kinds, tx: Nat, sender: Signers, recipient: STRING,
                               amount: Nat, claimable: Nat])]
ASSUME MaxHeightAssumption == MaxHeight \in Nat

Hashes == UNION {[1 .. n -> Payloads] : n \in 0 .. MaxHeight}

Lesser(m, n) == IF m <= n THEN m ELSE n
Greater(m, n) == IF m <= n THEN n ELSE m

\* The function f itself: TLC computes all its values once.
Tabulated(f) == CHOOSE g \in {f} : g = f

Ancestor(hash, n) == SubSeq(hash, 1, n)

-----------------------------------------------------------------------------
(***************************************************************************)
(* What a call moves in or out of the deposit and the reserve of escrow e. *)
(* A redemption takes the face value from the deposit, and from the        *)
(* reserve as much of what is missing as its recipient may still claim.  A *)
(* withdrawal takes it all.                                                *)
(***************************************************************************)
Split(e, call) ==
    LET fromDeposit == Lesser(call.amount, e.deposit)
    IN  CASE call.kind = "deposit"  -> [deposit |-> call.amount, reserve |-> 0]
          [] call.kind = "reserve"  -> [deposit |-> 0, reserve |-> call.amount]
          [] call.kind = "withdraw" -> [deposit |-> e.deposit, reserve |-> e.reserve]
          [] call.kind = "redeem"   ->
               [deposit |-> fromDeposit,
                reserve |-> Lesser(e.reserve, Lesser(call.claimable, call.amount - fromDeposit))]

\* With nothing in escrow the contract reverts what would take from it.
Reverts(e, call) == call.kind \in {"redeem", "withdraw"} /\ e.deposit + e.reserve = 0

\* The logs of a call.  A redemption logs the claim and the payment, if there is
\* one, before itself; it does not say how much was paid.
Emitted(e, call) ==
    LET split == Split(e, call)
        Log(kind, amount, deposit, reserve) ==
            [kind |-> kind, tx |-> call.tx, sender |-> call.sender, recipient |-> call.recipient,
             amount |-> amount, deposit |-> deposit, reserve |-> reserve]
        Positive(log) == IF log.amount > 0 THEN <<log>> ELSE <<>>
    IN  CASE call.kind = "deposit"  -> <<Log("deposit_funded", call.amount, 0, 0)>>
          [] call.kind = "reserve"  -> <<Log("reserve_funded", call.amount, 0, 0)>>
          [] call.kind = "withdraw" -> <<Log("withdrawal", 0, split.deposit, split.reserve)>>
          [] call.kind = "redeem"   ->
               Positive(Log("reserve_claimed", split.reserve, 0, 0))
                 \o Positive(Log("winning_ticket_transfer", split.deposit + split.reserve, 0, 0))
                 \o <<Log("winning_ticket_redeemed", call.amount, 0, 0)>>

Call(contract, call) ==
    LET e     == contract.escrow[call.sender]
        split == Split(e, call)
        sign  == IF call.kind \in {"deposit", "reserve"} THEN 1 ELSE -1
        after == [deposit |-> e.deposit + sign * split.deposit,
                  reserve |-> e.reserve + sign * split.reserve,
                  paid    |-> IF call.kind = "redeem" THEN e.paid + split.deposit + split.reserve
                                                      ELSE e.paid]
    IN  IF Reverts(e, call) THEN contract
        ELSE [escrow |-> [contract.escrow EXCEPT ![call.sender] = after],
              logs   |-> contract.logs \o Emitted(e, call)]

Block(contract, payload) == FoldLeft(Call, [contract EXCEPT !.logs = <<>>], Calls[payload])

\* After the block with each hash: every escrow, what its redemptions have paid, and
\* the logs of that block.
Contract == Tabulated([hash \in Hashes |->
    FoldLeft(Block,
             [escrow |-> [s \in Signers |-> [deposit |-> 0, reserve |-> 0, paid |-> 0]],
              logs   |-> <<>>],
             hash)])

\* A log's identity: its block's hash and its place in the block.
LogIds(hash) == [i \in DOMAIN Contract[hash].logs |-> [block |-> hash, index |-> i]]

LogOf(id) == Contract[id.block].logs[id.index]
=============================================================================
