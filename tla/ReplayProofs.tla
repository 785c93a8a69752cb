---------------------------- MODULE ReplayProofs ----------------------------
(***************************************************************************)
(* The books against the contract they are read from, for any signers,     *)
(* payloads and branches.                                                  *)
(*                                                                         *)
(* Both are played forward: the contract by the calls of a block, the      *)
(* books by the events correlated from the logs of those calls.  A         *)
(* "replay" ties them together.  It starts from the amounts that the       *)
(* contract holds before some block, each event suits the amounts before   *)
(* it (what ApplyEscrowEvent requires), and it ends with the amounts that  *)
(* the contract holds after another (LogsTell).                            *)
(*                                                                         *)
(* Books mirror the contract at a block when each balance is the           *)
(* contract's amount, less what it was before the opening snapshot.  Then  *)
(* the batch that follows is applied and not refused, and mirrors where    *)
(* its replay ends (AppliedMirrors); a rewind mirrors the ancestor         *)
(* (RewoundMirrors); and the opening entries mirror the snapshot           *)
(* (FilledMirrors).                                                        *)
(***************************************************************************)
EXTENDS EscrowProofs

-----------------------------------------------------------------------------
(***************************************************************************)
(* What an event moves in the ledger, and its reversal moves back          *)
(***************************************************************************)
LedgerShape(b) ==
    /\ b = [events |-> b.events, settlements |-> b.settlements, keys |-> b.keys, ok |-> b.ok,
            ledger |-> b.ledger, summary |-> b.summary]
    /\ b.ledger \in [Followed -> [Accounts -> Int]]

\* Balance by balance: delta[f][a] is added.
Shifts(b, r, delta) ==
    \A f \in Followed : \A a \in Accounts : r.ledger[f][a] = b.ledger[f][a] + delta[f][a]

MoveOf(sender, from, to, units) ==
    [f \in Followed |-> [a \in Accounts |->
        IF f # sender THEN 0 ELSE IF a = from THEN 0 - units ELSE IF a = to THEN units ELSE 0]]

\* What the split takes out of the escrow and puts into the account.
DrawnOf(split, account) ==
    [f \in Followed |-> [a \in Accounts |->
        IF f # split.sender THEN 0
        ELSE IF a = "deposit" THEN 0 - split.deposit
        ELSE IF a = "reserve" THEN 0 - split.reserve
        ELSE IF a = account THEN split.deposit + split.reserve ELSE 0]]

Opposite(delta) == [f \in Followed |-> [a \in Accounts |-> 0 - delta[f][a]]]

Still == [f \in Followed |-> [a \in Accounts |-> 0]]

EffectOf(e) ==
    IF e.kind \in Funding THEN MoveOf(e.sender, "cash", Bucket(e), e.amount)
    ELSE IF e.kind = "withdrawal" THEN DrawnOf(e, "cash")
    ELSE IF e.kind = "winning_ticket_redeemed" THEN DrawnOf(e, "spend")
    ELSE Still

\* A transfer moves its units from one balance to the other and no other.
LEMMA TransferShifts ==
    ASSUME NEW b, LedgerShape(b), NEW key, NEW sender \in Followed,
           NEW from \in Accounts, NEW to \in Accounts, from # to, NEW units \in Int,
           NEW r, r = Transfer(b, key, sender, from, to, units)
    PROVE  LedgerShape(r) /\ Shifts(b, r, MoveOf(sender, from, to, units))
<1>1. CASE units = 0
  <2>1. r = b
    BY <1>1 DEF Transfer
  <2> QED
    BY <1>1, <2>1 DEF LedgerShape, Shifts, MoveOf
<1>2. CASE units # 0
  <2>l. PICK l \in [Followed -> [Accounts -> Int]] : l = b.ledger
    BY DEF LedgerShape
  <2>x. PICK row \in [Accounts -> Int] : row = l[sender]
    OBVIOUS
  <2>u. PICK u \in Int : u = row[from] - units
    BY <2>x
  <2>v. PICK v \in Int : v = row[to] + units
    BY <2>x
  <2>n. PICK next : next = [row EXCEPT ![from] = u, ![to] = v]
    OBVIOUS
  <2>1. /\ r.ledger = [l EXCEPT ![sender] = next]
        /\ r = [events |-> r.events, settlements |-> r.settlements, keys |-> r.keys, ok |-> r.ok,
                ledger |-> r.ledger, summary |-> r.summary]
    BY <1>2, <2>l, <2>x, <2>u, <2>v, <2>n DEF Transfer, LedgerShape
  <2>2. \A a \in Accounts : next[a] = l[sender][a] + (IF a = from THEN 0 - units ELSE IF a = to THEN units ELSE 0)
    <3> TAKE a \in Accounts
    <3>y. PICK y \in Int : y = row[a]
      BY <2>x
    <3>1. next[a] = IF a = to THEN v ELSE IF a = from THEN u ELSE y
      BY <2>n, <2>x, <3>y
    <3> QED
      BY <2>x, <2>u, <2>v, <3>y, <3>1
  <2>3. r.ledger \in [Followed -> [Accounts -> Int]]
    <3>1. next \in [Accounts -> Int]
      BY <2>n, <2>x
    <3> QED
      BY <2>1, <3>1
  <2>4. Shifts(b, r, MoveOf(sender, from, to, units))
    BY <2>l, <2>1, <2>2 DEF Shifts, MoveOf
  <2> QED
    BY <2>1, <2>3, <2>4 DEF LedgerShape
<1> QED
  BY <1>1, <1>2

\* A withdrawal or a payment takes its two amounts out of the buckets; taking it back
\* puts them there again.
LEMMA EscrowShifts ==
    ASSUME NEW b, LedgerShape(b), NEW key, NEW account \in {"cash", "spend"},
           NEW split, split.sender \in Followed, split.deposit \in Int, split.reserve \in Int,
           NEW r
    PROVE  /\ r = FromEscrow(b, key, split, account) =>
                 LedgerShape(r) /\ Shifts(b, r, DrawnOf(split, account))
           /\ r = ToEscrow(b, key, split, account) =>
                 LedgerShape(r) /\ Shifts(b, r, Opposite(DrawnOf(split, account)))
<1>k. PICK dkey : dkey = [key EXCEPT !.bucket = "deposit"]
  OBVIOUS
<1>l. PICK rkey : rkey = [key EXCEPT !.bucket = "reserve"]
  OBVIOUS
<1>s. PICK sender \in Followed : sender = split.sender
  OBVIOUS
<1>d. PICK d \in Int : d = split.deposit
  OBVIOUS
<1>r. PICK v \in Int : v = split.reserve
  OBVIOUS
<1>a. PICK da \in Accounts : da = "deposit"
  BY DEF Accounts, Buckets
<1>b. PICK ra \in Accounts : ra = "reserve"
  BY DEF Accounts, Buckets
<1>c. account \in Accounts /\ account # da /\ account # ra /\ da # ra
  BY <1>a, <1>b DEF Accounts
<1>i. \A f \in Followed : \A a \in Accounts : b.ledger[f][a] \in Int
  BY DEF LedgerShape
<1>1. ASSUME r = FromEscrow(b, key, split, account)
      PROVE  LedgerShape(r) /\ Shifts(b, r, DrawnOf(split, account))
  <2>m. PICK m : m = Transfer(b, dkey, sender, da, account, d)
    OBVIOUS
  <2>1. r = Transfer(m, rkey, sender, ra, account, v)
    BY <1>1, <1>k, <1>l, <1>s, <1>d, <1>r, <1>a, <1>b, <2>m DEF FromEscrow
  <2>2. LedgerShape(m) /\ Shifts(b, m, MoveOf(sender, da, account, d))
    BY <1>c, <2>m, TransferShifts
  <2>3. LedgerShape(r) /\ Shifts(m, r, MoveOf(sender, ra, account, v))
    BY <1>c, <2>1, <2>2, TransferShifts
  <2>4. ASSUME NEW f \in Followed, NEW a \in Accounts
        PROVE  r.ledger[f][a] = b.ledger[f][a] + DrawnOf(split, account)[f][a]
    <3>x. PICK x \in Int : x = b.ledger[f][a]
      BY <1>i
    <3>1. m.ledger[f][a] = x + (IF f # sender THEN 0 ELSE IF a = da THEN 0 - d ELSE IF a = account THEN d ELSE 0)
      BY <2>2, <3>x DEF Shifts, MoveOf
    <3>y. PICK y \in Int : y = m.ledger[f][a]
      BY <2>2 DEF LedgerShape
    <3>2. r.ledger[f][a] = y + (IF f # sender THEN 0 ELSE IF a = ra THEN 0 - v ELSE IF a = account THEN v ELSE 0)
      BY <2>3, <3>y DEF Shifts, MoveOf
    <3>3. DrawnOf(split, account)[f][a]
             = IF f # sender THEN 0 ELSE IF a = da THEN 0 - d ELSE IF a = ra THEN 0 - v
               ELSE IF a = account THEN d + v ELSE 0
      BY <1>s, <1>d, <1>r, <1>a, <1>b DEF DrawnOf
    <3> QED
      BY <1>c, <3>x, <3>y, <3>1, <3>2, <3>3
  <2> QED
    BY <2>3, <2>4 DEF Shifts
<1>2. ASSUME r = ToEscrow(b, key, split, account)
      PROVE  LedgerShape(r) /\ Shifts(b, r, Opposite(DrawnOf(split, account)))
  <2>m. PICK m : m = Transfer(b, dkey, sender, account, da, d)
    OBVIOUS
  <2>1. r = Transfer(m, rkey, sender, account, ra, v)
    BY <1>2, <1>k, <1>l, <1>s, <1>d, <1>r, <1>a, <1>b, <2>m DEF ToEscrow
  <2>2. LedgerShape(m) /\ Shifts(b, m, MoveOf(sender, account, da, d))
    BY <1>c, <2>m, TransferShifts
  <2>3. LedgerShape(r) /\ Shifts(m, r, MoveOf(sender, account, ra, v))
    BY <1>c, <2>1, <2>2, TransferShifts
  <2>4. ASSUME NEW f \in Followed, NEW a \in Accounts
        PROVE  r.ledger[f][a] = b.ledger[f][a] + Opposite(DrawnOf(split, account))[f][a]
    <3>x. PICK x \in Int : x = b.ledger[f][a]
      BY <1>i
    <3>1. m.ledger[f][a] = x + (IF f # sender THEN 0 ELSE IF a = account THEN 0 - d ELSE IF a = da THEN d ELSE 0)
      BY <2>2, <3>x DEF Shifts, MoveOf
    <3>y. PICK y \in Int : y = m.ledger[f][a]
      BY <2>2 DEF LedgerShape
    <3>2. r.ledger[f][a] = y + (IF f # sender THEN 0 ELSE IF a = account THEN 0 - v ELSE IF a = ra THEN v ELSE 0)
      BY <2>3, <3>y DEF Shifts, MoveOf
    <3>3. DrawnOf(split, account)[f][a]
             = IF f # sender THEN 0 ELSE IF a = da THEN 0 - d ELSE IF a = ra THEN 0 - v
               ELSE IF a = account THEN d + v ELSE 0
      BY <1>s, <1>d, <1>r, <1>a, <1>b DEF DrawnOf
    <3>4. Opposite(DrawnOf(split, account))[f][a] = 0 - DrawnOf(split, account)[f][a]
      BY DEF Opposite
    <3> QED
      BY <1>c, <3>x, <3>y, <3>1, <3>2, <3>3, <3>4
  <2> QED
    BY <2>3, <2>4 DEF Shifts
<1> QED
  BY <1>1, <1>2

\* Applying an event whose rows are not live moves what it says.
LEMMA ApplyShifts ==
    ASSUME NEW b, LedgerShape(b), NEW e \in Events, e.id \notin Live(b.events),
           e.kind = "winning_ticket_redeemed" => e.id \notin Live(b.settlements),
           NEW r, r = ApplyEscrowEvent(b, e)
    PROVE  LedgerShape(r) /\ Shifts(b, r, EffectOf(e))
<1>1. e.sender \in Followed /\ e.deposit \in Int /\ e.reserve \in Int /\ e.amount \in Int
  BY DEF Events
<1>k. PICK key : key = Key("event", e.id, Raised(b.events, e)[e.id].generation)
  OBVIOUS
<1>s. PICK m : m = [[b EXCEPT !.ok = @ /\ SameData(b.events, e)] EXCEPT !.events = Raised(b.events, e)]
  OBVIOUS
<1>2. LedgerShape(m) /\ m.ledger = b.ledger /\ m.settlements = b.settlements
  BY <1>s DEF LedgerShape
<1>a. /\ e.kind = "winning_ticket_redeemed" => r = ApplySettlement(m, e)
      /\ e.kind \in Funding =>
            r = Transfer(m, key, e.sender, "cash", Bucket(e), e.amount)
      /\ e.kind = "withdrawal" =>
            r = FromEscrow([m EXCEPT !.ok = @ /\ ExactBalance(b, e)], key, e, "cash")
      /\ e.kind \notin Funding \cup {"winning_ticket_redeemed", "withdrawal"} => r = m
  BY <1>k, <1>s DEF ApplyEscrowEvent, Funding
<1>3. CASE e.kind = "winning_ticket_redeemed"
  <2>1. r = ApplySettlement(m, e)
    BY <1>3, <1>a
  <2>k. PICK skey : skey = Key("settle", e.id, Raised(m.settlements, e)[e.id].generation)
    OBVIOUS
  <2>n. PICK n : r = FromEscrow(n, skey, e, "spend") /\ LedgerShape(n) /\ n.ledger = m.ledger
    <3>1. e.id \notin Live(m.settlements)
      BY <1>2, <1>3
    <3>n. PICK n : n = [m EXCEPT
                     !.settlements = Raised(m.settlements, e),
                     !.summary = Counted(@, IF e.id \in DOMAIN m.settlements THEN "orphaned" ELSE "none", "settled", e),
                     !.ok = /\ @ /\ Paid(e) <= e.amount
                            /\ SameData(m.settlements, e)
                            /\ SplitMatches(m, e)]
      OBVIOUS
    <3>2. LedgerShape(n) /\ n.ledger = m.ledger
      BY <1>2, <3>n DEF LedgerShape
    <3>3. r = FromEscrow(n, skey, e, "spend")
      BY <2>1, <2>k, <3>1, <3>n DEF ApplySettlement
    <3> QED
      BY <3>2, <3>3
  <2>2. LedgerShape(r) /\ Shifts(n, r, DrawnOf(e, "spend"))
    BY <1>1, <2>n, EscrowShifts
  <2>3. EffectOf(e) = DrawnOf(e, "spend")
    BY <1>3 DEF EffectOf, Funding
  <2> QED
    BY <1>2, <2>2, <2>3, <2>n DEF Shifts
<1>4. CASE e.kind \in Funding
  <2>b. PICK bucket \in Accounts : bucket = Bucket(e) /\ bucket # "cash"
    BY DEF Bucket, Accounts, Buckets
  <2>c. PICK cash \in Accounts : cash = "cash"
    BY DEF Accounts
  <2>s. PICK sender \in Followed : sender = e.sender
    BY <1>1
  <2>u. PICK units \in Int : units = e.amount
    BY <1>1
  <2>1. r = Transfer(m, key, sender, cash, bucket, units)
    BY <1>4, <1>a, <2>b, <2>c, <2>s, <2>u
  <2>2. LedgerShape(r) /\ Shifts(m, r, MoveOf(sender, cash, bucket, units))
    BY <1>2, <2>1, <2>b, <2>c, TransferShifts
  <2>3. EffectOf(e) = MoveOf(sender, cash, bucket, units)
    BY <1>4, <2>b, <2>c, <2>s, <2>u DEF EffectOf
  <2> QED
    BY <1>2, <2>2, <2>3 DEF Shifts
<1>5. CASE e.kind = "withdrawal"
  <2>n. PICK n : n = [m EXCEPT !.ok = @ /\ ExactBalance(b, e)]
    OBVIOUS
  <2>1. r = FromEscrow(n, key, e, "cash")
    BY <1>5, <1>a, <2>n DEF Funding
  <2>2. LedgerShape(n) /\ n.ledger = m.ledger
    BY <1>2, <2>n DEF LedgerShape
  <2>3. LedgerShape(r) /\ Shifts(n, r, DrawnOf(e, "cash"))
    BY <1>1, <2>1, <2>2, EscrowShifts
  <2>4. EffectOf(e) = DrawnOf(e, "cash")
    BY <1>5 DEF EffectOf, Funding
  <2> QED
    BY <1>2, <2>2, <2>3, <2>4 DEF Shifts
<1>6. CASE e.kind \notin Funding \cup {"withdrawal", "winning_ticket_redeemed"}
  <2>1. r = m
    BY <1>6, <1>a
  <2>2. EffectOf(e) = Still
    BY <1>6 DEF EffectOf
  <2> QED
    BY <1>2, <2>1, <2>2 DEF Shifts, Still, LedgerShape
<1> QED
  BY <1>3, <1>4, <1>5, <1>6

\* What reversing the settlement of a redemption gives back.
LEMMA ReverseSettlementShifts ==
    ASSUME NEW b, LedgerShape(b), NEW id, NEW e \in Events, e = b.settlements[id].event,
           e.kind = "winning_ticket_redeemed", NEW r, r = ReverseSettlement(id, b)
    PROVE  LedgerShape(r) /\ Shifts(b, r, Opposite(EffectOf(e)))
<1>1. e.sender \in Followed /\ e.deposit \in Int /\ e.reserve \in Int
  BY DEF Events
<1>k. PICK key : key = Key("orphan:settle", id, b.settlements[id].generation)
  OBVIOUS
<1>m. PICK m : m = [b EXCEPT !.settlements = Orphaned(@, id),
                             !.summary = Counted(@, "settled", "orphaned", e)]
  OBVIOUS
<1>2. LedgerShape(m) /\ m.ledger = b.ledger
  BY <1>m DEF LedgerShape
<1>3. r = ToEscrow(m, key, e, "spend")
  BY <1>k, <1>m DEF ReverseSettlement
<1>4. LedgerShape(r) /\ Shifts(m, r, Opposite(DrawnOf(e, "spend")))
  BY <1>1, <1>2, <1>3, EscrowShifts
<1>5. EffectOf(e) = DrawnOf(e, "spend")
  BY DEF EffectOf, Funding
<1> QED
  BY <1>2, <1>4, <1>5 DEF Shifts

\* Reversing an event gives back what it moved, except that the amounts of a redemption
\* are given back with its settlement.
LEMMA ReverseEventShifts ==
    ASSUME NEW b, LedgerShape(b), NEW id, NEW e \in Events, e = b.events[id].event,
           NEW r, r = ReverseEvent(id, b)
    PROVE  /\ LedgerShape(r)
           /\ e.kind # "winning_ticket_redeemed" => Shifts(b, r, Opposite(EffectOf(e)))
           /\ e.kind = "winning_ticket_redeemed" => r.ledger = b.ledger
<1>1. e.sender \in Followed /\ e.deposit \in Int /\ e.reserve \in Int /\ e.amount \in Int
  BY DEF Events
<1>k. PICK key : key = Key("orphan:event", id, b.events[id].generation)
  OBVIOUS
<1>m. PICK m : m = [b EXCEPT !.events = Orphaned(@, id)]
  OBVIOUS
<1>2. LedgerShape(m) /\ m.ledger = b.ledger
  BY <1>m DEF LedgerShape
<1>a. r = CASE e.kind \in Funding -> Transfer(m, key, e.sender, Bucket(e), "cash", e.amount)
            [] e.kind = "withdrawal" -> ToEscrow(m, key, e, "cash")
            [] OTHER -> m
  BY <1>k, <1>m DEF ReverseEvent
<1>3. CASE e.kind \in Funding
  <2>b. PICK bucket \in Accounts : bucket = Bucket(e) /\ bucket # "cash"
    BY DEF Bucket, Accounts, Buckets
  <2>c. PICK cash \in Accounts : cash = "cash"
    BY DEF Accounts
  <2>s. PICK sender \in Followed : sender = e.sender
    BY <1>1
  <2>u. PICK units \in Int : units = e.amount
    BY <1>1
  <2>1. r = Transfer(m, key, sender, bucket, cash, units)
    <3>1. r = Transfer(m, key, e.sender, Bucket(e), "cash", e.amount)
      BY <1>3, <1>a DEF Funding
    <3> QED
      BY <2>b, <2>c, <2>s, <2>u, <3>1
  <2>2. LedgerShape(r) /\ Shifts(m, r, MoveOf(sender, bucket, cash, units))
    BY <1>2, <2>1, <2>b, <2>c, TransferShifts
  <2>3. EffectOf(e) = MoveOf(sender, cash, bucket, units)
    BY <1>3, <2>b, <2>c, <2>s, <2>u DEF EffectOf
  <2>4. \A f \in Followed : \A a \in Accounts :
           MoveOf(sender, bucket, cash, units)[f][a] = Opposite(EffectOf(e))[f][a]
    BY <2>3, <2>b, <2>c DEF MoveOf, Opposite
  <2>5. e.kind # "winning_ticket_redeemed"
    BY <1>3 DEF Funding
  <2> QED
    BY <1>2, <2>2, <2>4, <2>5 DEF Shifts
<1>4. CASE e.kind = "withdrawal"
  <2>1. r = ToEscrow(m, key, e, "cash")
    BY <1>4, <1>a DEF Funding
  <2>2. LedgerShape(r) /\ Shifts(m, r, Opposite(DrawnOf(e, "cash")))
    BY <1>1, <1>2, <2>1, EscrowShifts
  <2>3. EffectOf(e) = DrawnOf(e, "cash") /\ e.kind # "winning_ticket_redeemed"
    BY <1>4 DEF EffectOf, Funding
  <2> QED
    BY <1>2, <2>2, <2>3 DEF Shifts
<1>5. CASE e.kind \notin Funding \cup {"withdrawal"}
  <2>1. r = m
    BY <1>5, <1>a
  <2>2. e.kind # "winning_ticket_redeemed" => EffectOf(e) = Still
    BY <1>5 DEF EffectOf
  <2>3. e.kind # "winning_ticket_redeemed" => \A f \in Followed : \A a \in Accounts : Opposite(EffectOf(e))[f][a] = 0
    BY <2>2 DEF Opposite, Still
  <2>4. \A f \in Followed : \A a \in Accounts : r.ledger[f][a] = b.ledger[f][a] /\ r.ledger[f][a] \in Int
    BY <1>2, <2>1 DEF LedgerShape
  <2> QED
    BY <1>2, <2>1, <2>3, <2>4 DEF Shifts
<1> QED
  BY <1>3, <1>4, <1>5

-----------------------------------------------------------------------------
(***************************************************************************)
(* Events replayed on what the senders hold and have paid                  *)
(***************************************************************************)
Escrowed == Buckets \cup {"spend"}

AmountsOf(c) ==
    [f \in Followed |-> [a \in Escrowed |->
        IF a = "deposit" THEN c.escrow[f].deposit
        ELSE IF a = "reserve" THEN c.escrow[f].reserve ELSE c.escrow[f].paid]]

After(m, e) == [f \in Followed |-> [a \in Escrowed |-> m[f][a] + EffectOf(e)[f][a]]]

\* What requireExactBalance and the checks of a settlement ask of the balances.
Suits(e, m) ==
    /\ e.kind = "withdrawal" =>
          e.deposit = m[e.sender]["deposit"] /\ e.reserve = m[e.sender]["reserve"]
    /\ e.kind = "winning_ticket_redeemed" =>
          /\ Paid(e) <= e.amount
          /\ e.deposit = Lesser(e.amount, m[e.sender]["deposit"])
          /\ e.reserve <= m[e.sender]["reserve"]

ReplayTrace(t, m, events, n) ==
    /\ t[0] = m
    /\ \A i \in 1 .. n : t[i] = After(t[i - 1], events[i]) /\ Suits(events[i], t[i - 1])

\* Each event suits what those before it leave, and r is what they all leave.
Replay(m, events, r) == \E t : ReplayTrace(t, m, events, Len(events)) /\ t[Len(events)] = r

\* No event changes nothing.
LEMMA ReplayNothing == \A m : Replay(m, <<>>, m)
<1> TAKE m
<1>1. Len(<<>>) = 0
  BY EmptySeq
<1> DEFINE t == [i \in {0} |-> m]
<1>2. ReplayTrace(t, m, <<>>, 0)
  BY DEF ReplayTrace
<1> QED
  BY <1>1, <1>2 DEF Replay

\* One event more.
LEMMA ReplayOne ==
    ASSUME NEW m, NEW events \in Seq(Events), NEW r, Replay(m, events, r), NEW e \in Events,
           Suits(e, r), NEW s, s = After(r, e), NEW longer, longer = Append(events, e)
    PROVE  longer \in Seq(Events) /\ Replay(m, longer, s)
<1>n. PICK n \in Nat : n = Len(events)
  OBVIOUS
<1>t. PICK t : ReplayTrace(t, m, events, n) /\ t[n] = r
  BY <1>n DEF Replay
<1>1. longer \in Seq(Events) /\ Len(longer) = n + 1 /\ longer[n + 1] = e
      /\ \A i \in 1 .. n : longer[i] = events[i]
  BY <1>n, AppendProperties
<1>k. PICK k \in Nat : k = n + 1
  OBVIOUS
<1>u. PICK u : u = [i \in 0 .. k |-> IF i = k THEN s ELSE t[i]]
  OBVIOUS
<1>2. \A i \in 0 .. n : u[i] = t[i]
  BY <1>u, <1>k
<1>3. u[k] = s /\ u[0] = m
  BY <1>u, <1>k, <1>t DEF ReplayTrace
<1>4. ASSUME NEW i \in 1 .. k
      PROVE  u[i] = After(u[i - 1], longer[i]) /\ Suits(longer[i], u[i - 1])
  <2>1. CASE i = k
    <3>1. i - 1 = n /\ u[n] = r
      BY <1>k, <1>t, <1>2, <2>1
    <3> QED
      BY <1>1, <1>k, <1>3, <2>1, <3>1
  <2>2. CASE i # k
    <3>1. i \in 1 .. n /\ i \in 0 .. n /\ i - 1 \in 0 .. n
      BY <1>k, <2>2
    <3>2. u[i] = t[i] /\ u[i - 1] = t[i - 1] /\ longer[i] = events[i]
      BY <1>1, <1>2, <3>1
    <3> QED
      BY <1>t, <3>1, <3>2 DEF ReplayTrace
  <2> QED
    BY <2>1, <2>2
<1>5. ReplayTrace(u, m, longer, k)
  BY <1>3, <1>4 DEF ReplayTrace
<1>6. Len(longer) = k
  BY <1>1, <1>k
<1> QED
  BY <1>1, <1>3, <1>5, <1>6 DEF Replay

\* A replay after a replay.
LEMMA ReplayJoined ==
    ASSUME NEW m, NEW x \in Seq(Events), NEW r, Replay(m, x, r),
           NEW y \in Seq(Events), NEW s, Replay(r, y, s), NEW z, z = x \o y
    PROVE  z \in Seq(Events) /\ Replay(m, z, s)
<1>n. PICK n \in Nat : n = Len(x)
  OBVIOUS
<1>k. PICK k \in Nat : k = Len(y)
  OBVIOUS
<1>t. PICK t : ReplayTrace(t, m, x, n) /\ t[n] = r
  BY <1>n DEF Replay
<1>u. PICK u : ReplayTrace(u, r, y, k) /\ u[k] = s
  BY <1>k DEF Replay
<1>l. PICK l \in Nat : l = n + k
  OBVIOUS
<1>1. z \in Seq(Events) /\ Len(z) = l
      /\ \A i \in 1 .. l : z[i] = IF i <= n THEN x[i] ELSE y[i - n]
  BY <1>n, <1>k, <1>l, ConcatProperties
<1>v. PICK v : v = [i \in 0 .. l |-> IF i <= n THEN t[i] ELSE u[i - n]]
  OBVIOUS
<1>2. \A i \in 0 .. n : v[i] = t[i]
  BY <1>v, <1>l
<1>3. \A i \in 0 .. k : v[n + i] = u[i]
  <2> TAKE i \in 0 .. k
  <2>j. PICK j \in Nat : j = n + i /\ j - n = i /\ j \in 0 .. l
    BY <1>l
  <2>1. CASE i = 0
    <3>1. v[n] = t[n] /\ u[0] = r /\ j = n
      BY <1>2, <1>u, <2>j, <2>1 DEF ReplayTrace
    <3> QED
      BY <1>t, <2>1, <2>j, <3>1
  <2>2. CASE i # 0
    BY <1>v, <2>j, <2>2
  <2> QED
    BY <2>1, <2>2
<1>4. ASSUME NEW i \in 1 .. l
      PROVE  v[i] = After(v[i - 1], z[i]) /\ Suits(z[i], v[i - 1])
  <2>1. CASE i <= n
    <3>1. i \in 1 .. n /\ i \in 0 .. n /\ i - 1 \in 0 .. n
      BY <2>1
    <3>2. v[i] = t[i] /\ v[i - 1] = t[i - 1] /\ z[i] = x[i]
      BY <1>1, <1>2, <2>1, <3>1
    <3> QED
      BY <1>t, <3>1, <3>2 DEF ReplayTrace
  <2>2. CASE ~(i <= n)
    <3>j. PICK j \in 1 .. k : j = i - n /\ n + j = i /\ n + (j - 1) = i - 1 /\ j \in 0 .. k /\ j - 1 \in 0 .. k
      BY <1>l, <2>2
    <3>1. v[n + j] = u[j] /\ v[n + (j - 1)] = u[j - 1]
      BY <1>3, <3>j
    <3>2. v[i] = u[j] /\ v[i - 1] = u[j - 1] /\ z[i] = y[j]
      BY <1>1, <2>2, <3>j, <3>1
    <3> QED
      BY <1>u, <3>j, <3>2 DEF ReplayTrace
  <2> QED
    BY <2>1, <2>2
<1>5. v[0] = m /\ v[l] = s
  <2>1. v[0] = t[0] /\ v[n + k] = u[k]
    BY <1>2, <1>3
  <2> QED
    BY <1>t, <1>u, <1>l, <2>1 DEF ReplayTrace
<1>6. ReplayTrace(v, m, z, l)
  BY <1>4, <1>5 DEF ReplayTrace
<1> QED
  BY <1>1, <1>5, <1>6 DEF Replay

-----------------------------------------------------------------------------
(***************************************************************************)
(* Correlation of the logs of a call                                       *)
(***************************************************************************)
Awaiting(events, claim, transfer) ==
    [claim |-> claim, transfer |-> transfer, events |-> events, ok |-> TRUE]

Clean(events) == Awaiting(events, NoEvent, NoEvent)

\* No event is taken for the absence of one.
LEMMA EventIsSome == \A e \in Events : e # NoEvent
BY DEF Events, EventKinds, Funding, NoEvent

\* Fundings and withdrawals stand for themselves.
LEMMA CorrelatePlain ==
    ASSUME NEW E, NEW e, e.kind \in Funding \cup {"withdrawal"}
    PROVE  Correlate(Clean(E), e) = Clean(Append(E, e))
BY DEF Correlate, Clean, Awaiting, Funding

\* A claim waits for its redemption.
LEMMA CorrelateClaim ==
    ASSUME NEW E, NEW e, e.kind = "reserve_claimed"
    PROVE  Correlate(Clean(E), e) = Awaiting(Append(E, e), e, NoEvent)
BY DEF Correlate, Clean, Awaiting

\* A transfer waits for its redemption, beside the claim it goes with.
LEMMA CorrelateTransfer ==
    ASSUME NEW E, NEW e, e.kind = "winning_ticket_transfer",
           NEW claim, claim # NoEvent => SamePayment(claim, e)
    PROVE  Correlate(Awaiting(E, claim, NoEvent), e) = Awaiting(Append(E, e), claim, e)
BY DEF Correlate, Awaiting

AmountOf(e) == IF e = NoEvent THEN 0 ELSE e.amount

\* d is redemption e with what was paid for it, as the claim and the transfer say.
PaidAs(e, claim, transfer, d) ==
    /\ claim # NoEvent => transfer # NoEvent /\ SamePayment(claim, e)
    /\ transfer # NoEvent => SamePayment(transfer, e)
    /\ AmountOf(claim) <= AmountOf(transfer) /\ AmountOf(transfer) <= e.amount
    /\ d = [e EXCEPT !.deposit = AmountOf(transfer) - AmountOf(claim), !.reserve = AmountOf(claim)]

\* The redemption takes what waits for it.
LEMMA CorrelateRedeemed ==
    ASSUME NEW E, NEW e, e.kind = "winning_ticket_redeemed", NEW claim, NEW transfer,
           NEW d, PaidAs(e, claim, transfer, d)
    PROVE  Correlate(Awaiting(E, claim, transfer), e) = Clean(Append(E, d))
<1>1. Correlate(Awaiting(E, claim, transfer), e) = CorrelateRedemption(Awaiting(E, claim, transfer), e)
  BY DEF Correlate
<1> QED
  BY <1>1 DEF CorrelateRedemption, Awaiting, Clean, AmountOf, PaidAs

-----------------------------------------------------------------------------
(***************************************************************************)
(* What a call does, and the event that says so                            *)
(***************************************************************************)

\* What is followed signs.
LEMMA FollowedAreSigners == Followed \subseteq Signers
<1>1. PICK list \in Seq(Signers) : list = Senders
  BY SendersAssumption
<1>2. PICK n \in Nat : n = Len(list)
  OBVIOUS
<1>3. ToSet(list) \subseteq Signers
  BY <1>2, ToSetOfSeq
<1> QED
  BY <1>1, <1>3 DEF Followed

EventFor(id, log) ==
    [id |-> id, kind |-> log.kind, tx |-> log.tx, sender |-> log.sender,
     recipient |-> log.recipient, amount |-> log.amount, deposit |-> log.deposit,
     reserve |-> log.reserve]

\* The log of a followed signer makes an event.
LEMMA EventForIsEvent ==
    ASSUME NEW id \in Ids, NEW log \in LogRecords, log.sender \in Followed, NEW e, e = EventFor(id, log)
    PROVE  e \in Events
BY DEF EventFor, Events, LogRecords

CallMoved(c, call, e, split, d) ==
    /\ e \in Escrows
    /\ d.logs = c.logs \o Emitted(e, call)
    /\ \A s \in Signers \ {call.sender} : d.escrow[s] = c.escrow[s]
    /\ call.kind \in {"deposit", "reserve"} =>
          d.escrow[call.sender] = [deposit |-> e.deposit + split.deposit,
                                   reserve |-> e.reserve + split.reserve, paid |-> e.paid]
    /\ call.kind = "withdraw" =>
          d.escrow[call.sender] = [deposit |-> e.deposit - split.deposit,
                                   reserve |-> e.reserve - split.reserve, paid |-> e.paid]
    /\ call.kind = "redeem" =>
          d.escrow[call.sender] = [deposit |-> e.deposit - split.deposit,
                                   reserve |-> e.reserve - split.reserve,
                                   paid |-> e.paid + split.deposit + split.reserve]

\* What a call that is not refused does to its sender, and to no other.
LEMMA CallMoves ==
    ASSUME NEW c \in Contracts, NEW call \in CallRecords, NEW e, e = c.escrow[call.sender],
           NEW split, split = Split(e, call), ~Reverts(e, call), NEW d, d = Call(c, call)
    PROVE  CallMoved(c, call, e, split, d)
<1>1. call.sender \in Signers /\ c.escrow \in [Signers -> Escrows]
  BY DEF CallRecords, Contracts
<1>2. e \in Escrows /\ e.deposit \in Nat /\ e.reserve \in Nat /\ e.paid \in Nat
  BY <1>1 DEF Escrows
<1>d. PICK sd \in Nat : sd = split.deposit
  BY <1>2, SplitIs
<1>r. PICK sr \in Nat : sr = split.reserve
  BY <1>2, SplitIs
<1>s. PICK sign \in Int : sign = IF call.kind \in {"deposit", "reserve"} THEN 1 ELSE -1
  OBVIOUS
<1>a. PICK after : after = [deposit |-> e.deposit + sign * sd, reserve |-> e.reserve + sign * sr,
                            paid |-> IF call.kind = "redeem" THEN e.paid + sd + sr ELSE e.paid]
  OBVIOUS
<1>3. d.escrow = [c.escrow EXCEPT ![call.sender] = after] /\ d.logs = c.logs \o Emitted(e, call)
  BY <1>d, <1>r, <1>s, <1>a DEF Call
<1>4. d.escrow[call.sender] = after /\ \A s \in Signers \ {call.sender} : d.escrow[s] = c.escrow[s]
  BY <1>1, <1>3
<1>5. sign = 1 => e.deposit + sign * sd = e.deposit + sd /\ e.reserve + sign * sr = e.reserve + sr
  BY <1>2
<1>6. sign = -1 => e.deposit + sign * sd = e.deposit - sd /\ e.reserve + sign * sr = e.reserve - sr
  BY <1>2
<1> QED
  BY <1>2, <1>d, <1>r, <1>s, <1>a, <1>3, <1>4, <1>5, <1>6 DEF CallMoved

\* What a call that is not refused leaves the senders with.
LEMMA AfterIsAmounts ==
    ASSUME NEW c, NEW d, NEW e,
           \A f \in Followed : \A a \in Escrowed :
              AmountsOf(d)[f][a] = AmountsOf(c)[f][a] + EffectOf(e)[f][a]
    PROVE  After(AmountsOf(c), e) = AmountsOf(d)
<1>1. \A f \in Followed : [a \in Escrowed |-> AmountsOf(c)[f][a] + EffectOf(e)[f][a]] = AmountsOf(d)[f]
  <2> TAKE f \in Followed
  <2>1. AmountsOf(d)[f] = [a \in Escrowed |-> AmountsOf(d)[f][a]]
    BY DEF AmountsOf
  <2> QED
    BY <2>1
<1>2. AmountsOf(d) = [f \in Followed |-> AmountsOf(d)[f]]
  BY DEF AmountsOf
<1> QED
  BY <1>1, <1>2 DEF After

\* The amounts, one by one.
LEMMA AmountsAre ==
    ASSUME NEW c, NEW f \in Followed
    PROVE  /\ AmountsOf(c)[f]["deposit"] = c.escrow[f].deposit
           /\ AmountsOf(c)[f]["reserve"] = c.escrow[f].reserve
           /\ AmountsOf(c)[f]["spend"] = c.escrow[f].paid
BY DEF AmountsOf, Escrowed, Buckets

\* Balance by balance.
LEMMA AmountsMove ==
    ASSUME NEW c \in Contracts, NEW d, NEW sender \in Followed,
           \A s \in Signers \ {sender} : d.escrow[s] = c.escrow[s],
           NEW dd \in Int, d.escrow[sender].deposit = c.escrow[sender].deposit + dd,
           NEW dr \in Int, d.escrow[sender].reserve = c.escrow[sender].reserve + dr,
           NEW dp \in Int, d.escrow[sender].paid = c.escrow[sender].paid + dp,
           NEW e, \A f \in Followed : \A a \in Escrowed :
              EffectOf(e)[f][a] = IF f # sender THEN 0 ELSE IF a = "deposit" THEN dd
                                  ELSE IF a = "reserve" THEN dr ELSE dp
    PROVE  After(AmountsOf(c), e) = AmountsOf(d)
<1>1. ASSUME NEW f \in Followed, NEW a \in Escrowed
      PROVE  AmountsOf(d)[f][a] = AmountsOf(c)[f][a] + EffectOf(e)[f][a]
  <2>e. PICK x \in Escrows : x = c.escrow[f]
    BY FollowedAreSigners DEF Contracts
  <2>1. x.deposit \in Int /\ x.reserve \in Int /\ x.paid \in Int
    BY DEF Escrows
  <2>2. a \in {"deposit", "reserve", "spend"}
    BY DEF Escrowed, Buckets
  <2>3. CASE f = sender
    BY <2>e, <2>1, <2>2, <2>3, AmountsAre
  <2>4. CASE f # sender
    <3>1. d.escrow[f] = x /\ EffectOf(e)[f][a] = 0
      BY <2>e, <2>4, FollowedAreSigners
    <3> QED
      BY <2>e, <2>1, <2>2, <3>1, AmountsAre
  <2> QED
    BY <2>3, <2>4
<1> QED
  BY <1>1, AfterIsAmounts

\* The event that a funding, a withdrawal or a redemption leaves, once its payment is known.
LEMMA CallEffect ==
    ASSUME NEW c \in Contracts, NEW call \in CallRecords, call.sender \in Followed,
           NEW x, x = c.escrow[call.sender],
           NEW split, split = Split(x, call), ~Reverts(x, call), NEW d, d = Call(c, call),
           NEW e \in Events, e.sender = call.sender,
           \/ /\ call.kind = "deposit" /\ e.kind = "deposit_funded" /\ e.amount = call.amount
           \/ /\ call.kind = "reserve" /\ e.kind = "reserve_funded" /\ e.amount = call.amount
           \/ /\ call.kind = "withdraw" /\ e.kind = "withdrawal"
              /\ e.deposit = split.deposit /\ e.reserve = split.reserve
           \/ /\ call.kind = "redeem" /\ e.kind = "winning_ticket_redeemed"
              /\ e.amount = call.amount
              /\ e.deposit = split.deposit /\ e.reserve = split.reserve
    PROVE  After(AmountsOf(c), e) = AmountsOf(d) /\ Suits(e, AmountsOf(c))
<1>s. PICK sender \in Followed : sender = call.sender
  OBVIOUS
<1>m. CallMoved(c, call, x, split, d)
  BY CallMoves
<1>1. x \in Escrows /\ x.deposit \in Nat /\ x.reserve \in Nat /\ x.paid \in Nat
  BY <1>m DEF CallMoved, Escrows
<1>2. \A s \in Signers \ {sender} : d.escrow[s] = c.escrow[s]
  BY <1>m, <1>s DEF CallMoved
<1>d. PICK sd \in Nat : sd = split.deposit
  BY <1>1, SplitIs
<1>r. PICK sr \in Nat : sr = split.reserve
  BY <1>1, SplitIs
<1>u. PICK u \in Nat : u = call.amount
  BY DEF CallRecords
<1>3. AmountsOf(c)[sender]["deposit"] = x.deposit /\ AmountsOf(c)[sender]["reserve"] = x.reserve
  BY <1>s, AmountsAre
<1>4. \A a \in Escrowed : a \in {"deposit", "reserve", "spend"}
  BY DEF Escrowed, Buckets
<1>5. \A a \in Escrowed : a \in Accounts
  BY DEF Escrowed, Accounts
<1>f. CASE call.kind \in {"deposit", "reserve"}
  <2>1. split = IF call.kind = "deposit" THEN [deposit |-> u, reserve |-> 0] ELSE [deposit |-> 0, reserve |-> u]
    BY <1>f, <1>u DEF Split
  <2>2. e.kind \in Funding /\ e.amount = u /\ e.sender = sender
        /\ e.kind = IF call.kind = "deposit" THEN "deposit_funded" ELSE "reserve_funded"
    BY <1>f, <1>s, <1>u DEF Funding
  <2>b. PICK bucket : bucket = Bucket(e) /\ bucket = IF call.kind = "deposit" THEN "deposit" ELSE "reserve"
    BY <1>f, <2>2 DEF Bucket
  <2>3. EffectOf(e) = MoveOf(sender, "cash", bucket, u)
    BY <2>2, <2>b DEF EffectOf
  <2>4. \A f \in Followed : \A a \in Escrowed :
           EffectOf(e)[f][a] = IF f # sender THEN 0 ELSE IF a = "deposit" THEN sd
                               ELSE IF a = "reserve" THEN sr ELSE 0
    BY <1>4, <1>5, <1>d, <1>r, <2>1, <2>b, <2>3 DEF MoveOf
  <2>5. /\ d.escrow[sender].deposit = c.escrow[sender].deposit + sd
        /\ d.escrow[sender].reserve = c.escrow[sender].reserve + sr
        /\ d.escrow[sender].paid = c.escrow[sender].paid + 0
    BY <1>f, <1>s, <1>1, <1>d, <1>r, <1>m DEF CallMoved
  <2>6. After(AmountsOf(c), e) = AmountsOf(d)
    BY <1>2, <2>4, <2>5, AmountsMove
  <2>7. Suits(e, AmountsOf(c))
    BY <2>2 DEF Suits, Funding
  <2> QED
    BY <2>6, <2>7
<1>w. CASE call.kind = "withdraw"
  <2>1. split = [deposit |-> x.deposit, reserve |-> x.reserve]
    BY <1>w DEF Split
  <2>2. e.kind = "withdrawal" /\ e.deposit = sd /\ e.reserve = sr /\ e.sender = sender
    BY <1>w, <1>s, <1>d, <1>r
  <2>3. EffectOf(e) = DrawnOf(e, "cash")
    BY <2>2 DEF EffectOf, Funding
  <2>z. PICK dd \in Int : dd = 0 - sd
    OBVIOUS
  <2>y. PICK dr \in Int : dr = 0 - sr
    OBVIOUS
  <2>4. \A f \in Followed : \A a \in Escrowed :
           EffectOf(e)[f][a] = IF f # sender THEN 0 ELSE IF a = "deposit" THEN dd
                               ELSE IF a = "reserve" THEN dr ELSE 0
    BY <1>4, <1>5, <2>2, <2>3, <2>z, <2>y DEF DrawnOf
  <2>5. /\ d.escrow[sender].deposit = c.escrow[sender].deposit + dd
        /\ d.escrow[sender].reserve = c.escrow[sender].reserve + dr
        /\ d.escrow[sender].paid = c.escrow[sender].paid + 0
    <3>1. d.escrow[sender] = [deposit |-> x.deposit - sd, reserve |-> x.reserve - sr, paid |-> x.paid]
      BY <1>w, <1>s, <1>d, <1>r, <1>m DEF CallMoved
    <3> QED
      BY <1>s, <1>1, <2>z, <2>y, <3>1
  <2>6. After(AmountsOf(c), e) = AmountsOf(d)
    BY <1>2, <2>4, <2>5, AmountsMove
  <2>7. Suits(e, AmountsOf(c))
    BY <1>3, <1>d, <1>r, <2>1, <2>2 DEF Suits
  <2> QED
    BY <2>6, <2>7
<1>e. CASE call.kind = "redeem"
  <2>1. split.deposit = Lesser(u, x.deposit)
    BY <1>e, <1>u DEF Split
  <2>2. e.kind = "winning_ticket_redeemed" /\ e.deposit = sd /\ e.reserve = sr /\ e.sender = sender /\ e.amount = u
    BY <1>e, <1>s, <1>d, <1>r, <1>u
  <2>3. EffectOf(e) = DrawnOf(e, "spend")
    BY <2>2 DEF EffectOf, Funding
  <2>z. PICK dd \in Int : dd = 0 - sd
    OBVIOUS
  <2>y. PICK dr \in Int : dr = 0 - sr
    OBVIOUS
  <2>p. PICK dp \in Int : dp = sd + sr
    OBVIOUS
  <2>4. \A f \in Followed : \A a \in Escrowed :
           EffectOf(e)[f][a] = IF f # sender THEN 0 ELSE IF a = "deposit" THEN dd
                               ELSE IF a = "reserve" THEN dr ELSE dp
    BY <1>4, <1>5, <2>2, <2>3, <2>z, <2>y, <2>p DEF DrawnOf
  <2>5. /\ d.escrow[sender].deposit = c.escrow[sender].deposit + dd
        /\ d.escrow[sender].reserve = c.escrow[sender].reserve + dr
        /\ d.escrow[sender].paid = c.escrow[sender].paid + dp
    <3>1. d.escrow[sender] = [deposit |-> x.deposit - sd, reserve |-> x.reserve - sr, paid |-> x.paid + sd + sr]
      BY <1>e, <1>s, <1>d, <1>r, <1>m DEF CallMoved
    <3> QED
      BY <1>s, <1>1, <2>z, <2>y, <2>p, <3>1
  <2>6. After(AmountsOf(c), e) = AmountsOf(d)
    BY <1>2, <2>4, <2>5, AmountsMove
  <2>7. sr <= x.reserve /\ sd + sr <= u
    BY <1>e, <1>1, <1>d, <1>r, <1>u, SplitIs
  <2>8. Suits(e, AmountsOf(c))
    BY <1>3, <1>d, <1>r, <2>1, <2>2, <2>7 DEF Suits, Paid
  <2> QED
    BY <2>6, <2>8
<1> QED
  BY <1>f, <1>w, <1>e

\* A log that goes with a payment moves nothing.
LEMMA StillReplays ==
    ASSUME NEW m, NEW c \in Contracts, NEW E \in Seq(Events), Replay(m, E, AmountsOf(c)),
           NEW e \in Events, e.kind \in {"reserve_claimed", "winning_ticket_transfer"},
           NEW F, F = Append(E, e)
    PROVE  F \in Seq(Events) /\ Replay(m, F, AmountsOf(c))
<1>1. EffectOf(e) = Still
  BY DEF EffectOf, Funding
<1>2. Suits(e, AmountsOf(c))
  BY DEF Suits
<1>3. ASSUME NEW f \in Followed, NEW a \in Escrowed
      PROVE  AmountsOf(c)[f][a] = AmountsOf(c)[f][a] + EffectOf(e)[f][a]
  <2>1. EffectOf(e)[f][a] = 0
    BY <1>1 DEF Still, Escrowed, Accounts
  <2>x. PICK x \in Escrows : x = c.escrow[f]
    BY FollowedAreSigners DEF Contracts
  <2>2. AmountsOf(c)[f][a] \in Int
    BY <2>x DEF AmountsOf, Escrows
  <2> QED
    BY <2>1, <2>2
<1>4. After(AmountsOf(c), e) = AmountsOf(c)
  BY <1>3, AfterIsAmounts
<1>5. PICK r : r = AmountsOf(c)
  OBVIOUS
<1> QED
  BY <1>2, <1>4, <1>5, ReplayOne

-----------------------------------------------------------------------------
(***************************************************************************)
(* What a call logs                                                        *)
(***************************************************************************)

\* The logs of a call, laid one after the other.
LEMMA UpToThree ==
    ASSUME NEW S, NEW a \in S, NEW b \in S, NEW c \in S
    PROVE  /\ Len(<<>> \o <<>> \o <<c>>) = 1 /\ (<<>> \o <<>> \o <<c>>)[1] = c
           /\ Len(<<>> \o <<b>> \o <<c>>) = 2
           /\ (<<>> \o <<b>> \o <<c>>)[1] = b /\ (<<>> \o <<b>> \o <<c>>)[2] = c
           /\ Len(<<a>> \o <<b>> \o <<c>>) = 3
           /\ (<<a>> \o <<b>> \o <<c>>)[1] = a /\ (<<a>> \o <<b>> \o <<c>>)[2] = b
           /\ (<<a>> \o <<b>> \o <<c>>)[3] = c
<1>n. PICK none \in Seq(S) : none = <<>>
  BY EmptySeq
<1>o. \A w \in S : <<w>> \in Seq(S) /\ Len(<<w>>) = 1 /\ <<w>>[1] = w
  OBVIOUS
<1>a. PICK x \in Seq(S) : x = <<a>> /\ Len(x) = 1 /\ x[1] = a
  BY <1>o
<1>b. PICK y \in Seq(S) : y = <<b>> /\ Len(y) = 1 /\ y[1] = b
  BY <1>o
<1>c. PICK z \in Seq(S) : z = <<c>> /\ Len(z) = 1 /\ z[1] = c
  BY <1>o
<1>1. none \o none = none /\ none \o z = z /\ none \o y = y
  BY <1>n, ConcatEmptySeq
<1>2. Len(y \o z) = 2 /\ (y \o z)[1] = b /\ (y \o z)[2] = c
  BY <1>b, <1>c, ConcatProperties
<1>p. PICK p : p = x \o y
  OBVIOUS
<1>4. p \in Seq(S) /\ Len(p) = 2 /\ p[1] = a /\ p[2] = b
  BY <1>a, <1>b, <1>p, ConcatProperties
<1>3. Len(p \o z) = 3 /\ (p \o z)[1] = a /\ (p \o z)[2] = b /\ (p \o z)[3] = c
  <2>1. Len(p \o z) = Len(p) + Len(z)
        /\ \A i \in 1 .. Len(p) + Len(z) : (p \o z)[i] = IF i <= Len(p) THEN p[i] ELSE z[i - Len(p)]
    BY <1>4, ConcatProperties
  <2> QED
    BY <1>c, <1>4, <2>1
<1> QED
  BY <1>n, <1>a, <1>b, <1>c, <1>1, <1>2, <1>p, <1>3

ClaimLog(call, split) == LogFor(call, "reserve_claimed", split.reserve, 0, 0)

TransferLog(call, split) == LogFor(call, "winning_ticket_transfer", split.deposit + split.reserve, 0, 0)

RedeemedLog(call) == LogFor(call, "winning_ticket_redeemed", call.amount, 0, 0)

\* What a redemption logs: alone, with its payment, or with the claim before that.
RedeemLogs(logs, call, split) ==
    \/ /\ split.deposit = 0 /\ split.reserve = 0
       /\ Len(logs) = 1 /\ logs[1] = RedeemedLog(call)
    \/ /\ split.deposit > 0 /\ split.reserve = 0
       /\ Len(logs) = 2
       /\ logs[1] = TransferLog(call, split) /\ logs[2] = RedeemedLog(call)
    \/ /\ split.reserve > 0
       /\ Len(logs) = 3
       /\ logs[1] = ClaimLog(call, split) /\ logs[2] = TransferLog(call, split)
       /\ logs[3] = RedeemedLog(call)

\* Emitted, for a redemption.
LEMMA RedeemEmits ==
    ASSUME NEW e \in Escrows, NEW call \in CallRecords, call.kind = "redeem",
           NEW split, split = Split(e, call), NEW logs, logs = Emitted(e, call)
    PROVE  RedeemLogs(logs, call, split)
<1>a. PICK a : a = ClaimLog(call, split)
  OBVIOUS
<1>b. PICK b : b = TransferLog(call, split)
  OBVIOUS
<1>c. PICK c : c = RedeemedLog(call)
  OBVIOUS
<1>1. logs = Positive(a) \o Positive(b) \o <<c>>
  BY <1>a, <1>b, <1>c, EmittedIs DEF ClaimLog, TransferLog, RedeemedLog
<1>2. split.deposit \in Nat /\ split.reserve \in Nat
  BY SplitIs
<1>3. a.amount = split.reserve /\ b.amount = split.deposit + split.reserve
  BY <1>a, <1>b DEF ClaimLog, TransferLog, LogFor
<1>s. PICK S : S = {a, b, c}
  OBVIOUS
<1>4. a \in S /\ b \in S /\ c \in S
  BY <1>s
<1>5. CASE split.deposit = 0 /\ split.reserve = 0
  <2>1. logs = <<>> \o <<>> \o <<c>>
    BY <1>1, <1>3, <1>5 DEF Positive
  <2> QED
    BY <1>c, <1>4, <1>5, <2>1, UpToThree DEF RedeemLogs
<1>6. CASE split.deposit > 0 /\ split.reserve = 0
  <2>1. logs = <<>> \o <<b>> \o <<c>>
    BY <1>1, <1>2, <1>3, <1>6 DEF Positive
  <2> QED
    BY <1>b, <1>c, <1>4, <1>6, <2>1, UpToThree DEF RedeemLogs
<1>7. CASE split.reserve > 0
  <2>1. logs = <<a>> \o <<b>> \o <<c>>
    BY <1>1, <1>2, <1>3, <1>7 DEF Positive
  <2> QED
    BY <1>a, <1>b, <1>c, <1>4, <1>7, <2>1, UpToThree DEF RedeemLogs
<1> QED
  BY <1>2, <1>5, <1>6, <1>7

\* The other calls log once.
OtherLogs(logs, call, split) ==
    /\ Len(logs) = 1
    /\ \/ call.kind = "deposit" /\ logs[1] = LogFor(call, "deposit_funded", call.amount, 0, 0)
       \/ call.kind = "reserve" /\ logs[1] = LogFor(call, "reserve_funded", call.amount, 0, 0)
       \/ /\ call.kind = "withdraw"
          /\ logs[1] = LogFor(call, "withdrawal", 0, split.deposit, split.reserve)

\* Emitted, for the other calls.
LEMMA OtherEmits ==
    ASSUME NEW e \in Escrows, NEW call \in CallRecords, call.kind # "redeem",
           NEW split, split = Split(e, call), NEW logs, logs = Emitted(e, call)
    PROVE  OtherLogs(logs, call, split)
<1>1. call.kind \in {"deposit", "reserve", "withdraw"}
  BY DEF CallRecords, Kinds
<1>2. CASE call.kind = "deposit"
  <2>1. logs = <<LogFor(call, "deposit_funded", call.amount, 0, 0)>>
    BY <1>2, EmittedIs
  <2> QED
    BY <1>2, <2>1 DEF OtherLogs
<1>3. CASE call.kind = "reserve"
  <2>1. logs = <<LogFor(call, "reserve_funded", call.amount, 0, 0)>>
    BY <1>3, EmittedIs
  <2> QED
    BY <1>3, <2>1 DEF OtherLogs
<1>4. CASE call.kind = "withdraw"
  <2>1. logs = <<LogFor(call, "withdrawal", 0, split.deposit, split.reserve)>>
    BY <1>4, EmittedIs
  <2> QED
    BY <1>4, <2>1 DEF OtherLogs
<1> QED
  BY <1>1, <1>2, <1>3, <1>4

\* Every log of a call names its sender.
LEMMA EmittedNames ==
    ASSUME NEW e \in Escrows, NEW call \in CallRecords, NEW logs, logs = Emitted(e, call)
    PROVE  /\ Len(logs) \in 1 .. 3 /\ logs \in Seq(LogRecords)
           /\ \A k \in 1 .. Len(logs) : logs[k].sender = call.sender
<1>s. PICK split : split = Split(e, call)
  OBVIOUS
<1>0. logs \in Seq(LogRecords)
  BY EmittedAreLogs
<1>1. CASE call.kind = "redeem"
  <2>1. RedeemLogs(logs, call, split)
    BY <1>1, <1>s, RedeemEmits
  <2>2. /\ ClaimLog(call, split).sender = call.sender /\ TransferLog(call, split).sender = call.sender
        /\ RedeemedLog(call).sender = call.sender
    BY DEF ClaimLog, TransferLog, RedeemedLog, LogFor
  <2> QED
    BY <1>0, <2>1, <2>2 DEF RedeemLogs
<1>2. CASE call.kind # "redeem"
  <2>1. Len(logs) = 1 /\ logs[1].sender = call.sender
    <3>1. OtherLogs(logs, call, split)
      BY <1>2, <1>s, OtherEmits
    <3> QED
      BY <3>1 DEF OtherLogs, LogFor
  <2> QED
    BY <1>0, <2>1
<1> QED
  BY <1>1, <1>2

CorrelateTrace(v, ids, logs, n) ==
    \A k \in 1 .. n : v[k] = Correlate(v[k - 1], EventFor(ids[k], logs[k]))

\* The logs of a redemption, correlated after a clean beginning, are events that lead to
\* what the redemption leaves.
LEMMA RedeemReplays ==
    ASSUME NEW c \in Contracts, NEW call \in CallRecords, call.sender \in Followed,
           call.kind = "redeem", NEW x, x = c.escrow[call.sender],
           NEW split, split = Split(x, call), ~Reverts(x, call), NEW d, d = Call(c, call),
           NEW logs, logs = Emitted(x, call), NEW n, n = Len(logs), NEW h \in Hashes,
           NEW ids, \A k \in 1 .. n : ids[k] \in Ids /\ ids[k].block = h,
           NEW v, NEW E \in Seq(Events), v[0] = Clean(E), CorrelateTrace(v, ids, logs, n),
           NEW m, Replay(m, E, AmountsOf(c))
    PROVE  \E F \in Seq(Events) : v[n] = Clean(F) /\ Replay(m, F, AmountsOf(d))
<1>1. /\ RedeemLogs(logs, call, split) /\ x \in Escrows
      /\ logs \in Seq(LogRecords) /\ n \in 1 .. 3 /\ \A k \in 1 .. n : logs[k].sender = call.sender
  <2>1. x \in Escrows
    BY CallMoves DEF CallMoved
  <2> QED
    BY <2>1, RedeemEmits, EmittedNames
<1>n. n \in 1 .. 3
  BY <1>1
<1>2. split.deposit \in Nat /\ split.reserve \in Nat /\ call.amount \in Nat
      /\ split.deposit + split.reserve <= call.amount
  BY <1>1, SplitIs DEF CallRecords
<1>e. \A k \in 1 .. n : EventFor(ids[k], logs[k]) \in Events
  <2> TAKE k \in 1 .. n
  <2>1. logs[k] \in LogRecords
    BY <1>1
  <2> QED
    BY <1>1, <2>1, EventForIsEvent

\* The redemption itself, after a claim and a payment that are its own.
<1>3. ASSUME n \in Nat, NEW G \in Seq(Events), Replay(m, G, AmountsOf(c)),
             NEW claim, NEW transfer, v[n - 1] = Awaiting(G, claim, transfer),
             logs[n] = RedeemedLog(call), NEW id, id = ids[n],
             claim # NoEvent => transfer # NoEvent /\ SamePayment(claim, EventFor(id, logs[n])),
             transfer # NoEvent => SamePayment(transfer, EventFor(id, logs[n])),
             AmountOf(claim) = split.reserve, AmountOf(transfer) = split.deposit + split.reserve
      PROVE  \E F \in Seq(Events) : v[n] = Clean(F) /\ Replay(m, F, AmountsOf(d))
  <2>k. PICK k \in 1 .. 3 : k = n
    BY <1>n
  <2>n. n \in 1 .. n
    <3>1. k \in 1 .. k
      OBVIOUS
    <3> QED
      BY <2>k, <3>1
  <2>e. PICK e \in Events : e = EventFor(id, logs[n])
    BY <1>e, <1>3, <2>n
  <2>1. e.kind = "winning_ticket_redeemed" /\ e.sender = call.sender /\ e.amount = call.amount
    BY <1>3, <2>e DEF EventFor, RedeemedLog, LogFor
  <2>w. PICK w : w = [e EXCEPT !.deposit = AmountOf(transfer) - AmountOf(claim), !.reserve = AmountOf(claim)]
    OBVIOUS
  <2>2. AmountOf(transfer) - AmountOf(claim) = split.deposit /\ AmountOf(claim) <= AmountOf(transfer)
        /\ AmountOf(transfer) <= e.amount
    BY <1>2, <1>3, <2>1
  <2>3. w \in Events /\ w.kind = e.kind /\ w.sender = e.sender /\ w.amount = e.amount
        /\ w.deposit = split.deposit /\ w.reserve = split.reserve
    <3>1. AmountOf(claim) \in Int
      BY <1>2, <1>3
    <3>d. PICK a \in Int : a = AmountOf(transfer) - AmountOf(claim)
      BY <1>2, <2>2
    <3>r. PICK b \in Int : b = AmountOf(claim)
      BY <3>1
    <3>2. w = [e EXCEPT !.deposit = a, !.reserve = b]
      BY <2>w, <3>d, <3>r
    <3>3. w \in Events /\ w.kind = e.kind /\ w.sender = e.sender /\ w.amount = e.amount
          /\ w.deposit = a /\ w.reserve = b
      BY <3>2 DEF Events
    <3> QED
      BY <1>3, <2>2, <3>d, <3>r, <3>3
  <2>f. PICK F : F = Append(G, w)
    OBVIOUS
  <2>4. v[n] = Correlate(v[n - 1], e)
    BY <1>3, <2>n, <2>e DEF CorrelateTrace
  <2>5. Correlate(Awaiting(G, claim, transfer), e) = Clean(Append(G, w))
    <3>1. /\ claim # NoEvent => transfer # NoEvent /\ SamePayment(claim, e)
          /\ transfer # NoEvent => SamePayment(transfer, e)
      BY <1>3, <2>e
    <3>2. PaidAs(e, claim, transfer, w)
      BY <2>2, <2>w, <3>1 DEF PaidAs
    <3> QED
      BY <2>1, <3>2, CorrelateRedeemed
  <2>6. After(AmountsOf(c), w) = AmountsOf(d) /\ Suits(w, AmountsOf(c))
    BY <2>1, <2>3, CallEffect
  <2>a. PICK from : from = AmountsOf(c)
    OBVIOUS
  <2>b. PICK to : to = AmountsOf(d)
    OBVIOUS
  <2>7. F \in Seq(Events) /\ Replay(m, F, to)
    <3>1. Replay(m, G, from) /\ Suits(w, from) /\ to = After(from, w)
      BY <1>3, <2>6, <2>a, <2>b
    <3> QED
      BY <2>3, <2>f, <3>1, ReplayOne
  <2> QED
    BY <1>3, <2>4, <2>5, <2>7, <2>f, <2>b
<1>4. /\ AmountOf(NoEvent) = 0
      /\ \A e \in Events : AmountOf(e) = e.amount /\ e # NoEvent
  BY EventIsSome DEF AmountOf
<1>p. PICK p \in Nat : p = split.deposit + split.reserve
  BY <1>2
<1>5. CASE split.deposit = 0 /\ split.reserve = 0
  <2>1. n = 1 /\ logs[1] = RedeemedLog(call)
    BY <1>1, <1>5 DEF RedeemLogs
  <2>2. v[n - 1] = Awaiting(E, NoEvent, NoEvent) /\ n \in Nat
    BY <2>1 DEF Clean
  <2>i. PICK id : id = ids[n]
    OBVIOUS
  <2>z. PICK none : none = NoEvent
    OBVIOUS
  <2>3. AmountOf(none) = split.reserve /\ AmountOf(none) = split.deposit + split.reserve
    BY <1>4, <1>5, <2>z
  <2> QED
    BY <1>3, <2>1, <2>2, <2>i, <2>z, <2>3
<1>6. CASE split.deposit > 0 /\ split.reserve = 0
  <2>1. n = 2 /\ logs[1] = TransferLog(call, split) /\ logs[2] = RedeemedLog(call)
    BY <1>1, <1>2, <1>6 DEF RedeemLogs
  <2>t. PICK t \in Events : t = EventFor(ids[1], logs[1])
    BY <1>e, <2>1
  <2>2. t.kind = "winning_ticket_transfer" /\ t.amount = p
    BY <1>p, <2>1, <2>t DEF EventFor, TransferLog, LogFor
  <2>g. PICK G : G = Append(E, t)
    OBVIOUS
  <2>z. PICK none : none = NoEvent
    OBVIOUS
  <2>3. v[1] = Awaiting(G, none, t)
    <3>1. v[1] = Correlate(Awaiting(E, none, NoEvent), t)
      BY <2>1, <2>t, <2>z DEF CorrelateTrace, Clean
    <3> QED
      BY <2>2, <2>g, <2>z, <3>1, CorrelateTransfer
  <2>4. G \in Seq(Events) /\ Replay(m, G, AmountsOf(c))
    BY <2>2, <2>g, StillReplays
  <2>i. PICK id : id = ids[n]
    OBVIOUS
  <2>5. SamePayment(t, EventFor(id, logs[n]))
    BY <2>1, <2>t, <2>i DEF SamePayment, EventFor, TransferLog, RedeemedLog, LogFor
  <2>6. AmountOf(none) = split.reserve /\ AmountOf(t) = split.deposit + split.reserve
    BY <1>4, <1>6, <1>p, <2>2, <2>z
  <2>7. n \in Nat /\ v[n - 1] = Awaiting(G, none, t) /\ logs[n] = RedeemedLog(call)
    BY <2>1, <2>3
  <2> QED
    BY <1>3, <2>4, <2>5, <2>6, <2>7, <2>i, <2>z
<1>7. CASE split.reserve > 0
  <2>1. n = 3 /\ logs[1] = ClaimLog(call, split) /\ logs[2] = TransferLog(call, split)
        /\ logs[3] = RedeemedLog(call)
    BY <1>1, <1>2, <1>7 DEF RedeemLogs
  <2>q. PICK q \in Events : q = EventFor(ids[1], logs[1])
    BY <1>e, <2>1
  <2>t. PICK t \in Events : t = EventFor(ids[2], logs[2])
    BY <1>e, <2>1
  <2>2. t.kind = "winning_ticket_transfer" /\ t.amount = p
        /\ q.kind = "reserve_claimed" /\ q.amount = split.reserve
    BY <1>p, <2>1, <2>q, <2>t DEF EventFor, TransferLog, ClaimLog, LogFor
  <2>i. PICK id : id = ids[n]
    OBVIOUS
  <2>3. /\ SamePayment(q, t) /\ SamePayment(q, EventFor(id, logs[n]))
        /\ SamePayment(t, EventFor(id, logs[n]))
    BY <2>1, <2>q, <2>t, <2>i DEF SamePayment, EventFor, TransferLog, ClaimLog, RedeemedLog, LogFor
  <2>g. PICK G : G = Append(E, q)
    OBVIOUS
  <2>h. PICK H : H = Append(G, t)
    OBVIOUS
  <2>4. v[1] = Awaiting(G, q, NoEvent)
    <3>1. v[1] = Correlate(Clean(E), q)
      BY <2>1, <2>q DEF CorrelateTrace
    <3> QED
      BY <2>2, <2>g, <3>1, CorrelateClaim
  <2>5. v[2] = Awaiting(H, q, t)
    <3>1. v[2] = Correlate(Awaiting(G, q, NoEvent), t)
      BY <2>1, <2>t, <2>4 DEF CorrelateTrace
    <3> QED
      BY <2>2, <2>3, <2>h, <3>1, CorrelateTransfer
  <2>6. G \in Seq(Events) /\ Replay(m, G, AmountsOf(c))
    BY <2>2, <2>g, StillReplays
  <2>7. H \in Seq(Events) /\ Replay(m, H, AmountsOf(c))
    BY <2>2, <2>h, <2>6, StillReplays
  <2>8. AmountOf(q) = split.reserve /\ AmountOf(t) = split.deposit + split.reserve
        /\ t # NoEvent
    BY <1>4, <1>p, <2>2
  <2>9. n \in Nat /\ v[n - 1] = Awaiting(H, q, t) /\ logs[n] = RedeemedLog(call)
    BY <2>1, <2>5
  <2> QED
    BY <1>3, <2>3, <2>7, <2>8, <2>9, <2>i
<1> QED
  BY <1>2, <1>5, <1>6, <1>7

\* So are the logs of any call.
LEMMA CallReplays ==
    ASSUME NEW c \in Contracts, NEW call \in CallRecords, call.sender \in Followed,
           NEW x, x = c.escrow[call.sender],
           NEW split, split = Split(x, call), ~Reverts(x, call), NEW d, d = Call(c, call),
           NEW logs, logs = Emitted(x, call), NEW n, n = Len(logs), NEW h \in Hashes,
           NEW ids, \A k \in 1 .. n : ids[k] \in Ids /\ ids[k].block = h,
           NEW v, NEW E \in Seq(Events), v[0] = Clean(E), CorrelateTrace(v, ids, logs, n),
           NEW m, Replay(m, E, AmountsOf(c))
    PROVE  \E F \in Seq(Events) : v[n] = Clean(F) /\ Replay(m, F, AmountsOf(d))
<1>1. CASE call.kind = "redeem"
  BY <1>1, RedeemReplays
<1>2. CASE call.kind # "redeem"
  <2>1. x \in Escrows
    BY CallMoves DEF CallMoved
  <2>o. OtherLogs(logs, call, split)
    BY <1>2, <2>1, OtherEmits
  <2>2. n = 1 /\ logs[1] \in LogRecords /\ logs[1].sender = call.sender
    BY <2>1, <2>o, EmittedNames DEF OtherLogs
  <2>3. /\ logs[1].kind = IF call.kind = "deposit" THEN "deposit_funded"
                          ELSE IF call.kind = "reserve" THEN "reserve_funded" ELSE "withdrawal"
        /\ call.kind # "withdraw" => logs[1].amount = call.amount
        /\ call.kind = "withdraw" => logs[1].deposit = split.deposit /\ logs[1].reserve = split.reserve
    BY <2>o DEF OtherLogs, LogFor
  <2>4. call.kind \in {"deposit", "reserve", "withdraw"}
    BY <1>2 DEF CallRecords, Kinds
  <2>e. PICK e \in Events : e = EventFor(ids[1], logs[1])
    BY <2>2, EventForIsEvent
  <2>5. e.kind = logs[1].kind /\ e.sender = call.sender /\ e.amount = logs[1].amount
        /\ e.deposit = logs[1].deposit /\ e.reserve = logs[1].reserve
    BY <2>2, <2>e DEF EventFor
  <2>f. PICK F : F = Append(E, e)
    OBVIOUS
  <2>6. v[1] = Clean(F)
    <3>1. v[1] = Correlate(Clean(E), e) /\ e.kind \in Funding \cup {"withdrawal"}
      BY <2>2, <2>3, <2>4, <2>5, <2>e DEF CorrelateTrace, Funding
    <3> QED
      BY <2>f, <3>1, CorrelatePlain
  <2>a. PICK from : from = AmountsOf(c)
    OBVIOUS
  <2>b. PICK to : to = AmountsOf(d)
    OBVIOUS
  <2>7. After(from, e) = to /\ Suits(e, from)
    BY <2>3, <2>4, <2>5, <2>a, <2>b, CallEffect
  <2>8. F \in Seq(Events) /\ Replay(m, F, to)
    <3>1. Replay(m, E, from)
      BY <2>a
    <3> QED
      BY <2>f, <2>7, <3>1, ReplayOne
  <2> QED
    BY <2>2, <2>6, <2>8, <2>b
<1> QED
  BY <1>1, <1>2

-----------------------------------------------------------------------------
(***************************************************************************)
(* What is read of a call                                                  *)
(***************************************************************************)

\* The fold of the library is the one with a trace.
LEMMA CorrelateFoldIs ==
    ASSUME NEW base, NEW seq
    PROVE  CorrelateFolds!LeftFold(base, seq) = FoldLeft(Correlate, base, seq)
BY DEF CorrelateFolds!LeftFold, CorrelateFolds!FoldLeft, CorrelateFolds!MapThenFoldSet,
       CorrelateFolds!Max, FoldLeft, MapThenFoldSet, Max

\* Decode, by log.
LEMMA DecodedIs == \A id : Decode(id) = EventFor(id, LogOf(id))
BY DEF Decode, EventFor

\* Correlated, as a fold.
LEMMA CorrelatedFolds ==
    ASSUME NEW ids
    PROVE  Correlated(ids) = CorrelateFolds!LeftFold(Clean(<<>>), [i \in DOMAIN ids |-> Decode(ids[i])])
<1>1. Clean(<<>>) = [claim |-> NoEvent, transfer |-> NoEvent, events |-> <<>>, ok |-> TRUE]
  BY DEF Clean, Awaiting
<1> QED
  BY <1>1, CorrelateFoldIs DEF Correlated

\* Nothing read, nothing correlated.
LEMMA CorrelatedNothing == Correlated(<<>>) = Clean(<<>>)
<1>b. PICK base : base = Clean(<<>>)
  OBVIOUS
<1>s. PICK seq : seq = [i \in DOMAIN <<>> |-> Decode(<<>>[i])]
  OBVIOUS
<1>1. DOMAIN seq = {}
  BY <1>s
<1>2. CorrelateFolds!LeftFold(base, seq) = base
  BY <1>1, CorrelateFolds!FoldLeftNothing
<1> QED
  BY <1>b, <1>s, <1>2, CorrelatedFolds

\* One log more.
LEMMA CorrelatedAppended ==
    ASSUME NEW ids \in Seq(Ids), NEW x \in Ids, NEW longer, longer = Append(ids, x)
    PROVE  Correlated(longer) = Correlate(Correlated(ids), EventFor(x, LogOf(x)))
<1>n. PICK n \in Nat : n = Len(ids)
  OBVIOUS
<1>k. PICK k \in Nat : k = n + 1
  OBVIOUS
<1>1. longer \in Seq(Ids) /\ Len(longer) = k /\ longer[k] = x
      /\ \A i \in 1 .. n : longer[i] = ids[i]
  BY <1>n, <1>k, AppendProperties
<1>b. PICK base : base = Clean(<<>>)
  OBVIOUS
<1>f. PICK front : front = [i \in DOMAIN ids |-> Decode(ids[i])]
  OBVIOUS
<1>s. PICK seq : seq = [i \in DOMAIN longer |-> Decode(longer[i])]
  OBVIOUS
<1>2. DOMAIN ids = 1 .. n /\ DOMAIN longer = 1 .. k /\ k \in 1 .. k /\ \A i \in 1 .. n : i \in 1 .. k
  BY <1>1, <1>n, <1>k
<1>3. DOMAIN front = 1 .. n /\ DOMAIN seq = 1 .. k /\ \A i \in 1 .. n : front[i] = seq[i]
  BY <1>1, <1>2, <1>f, <1>s
<1>4. CorrelateFolds!LeftFold(base, seq) = Correlate(CorrelateFolds!LeftFold(base, front), seq[k])
  BY <1>k, <1>3, CorrelateFolds!FoldLeftLast
<1>5. seq[k] = EventFor(x, LogOf(x))
  BY <1>1, <1>2, <1>s, DecodedIs
<1> QED
  BY <1>4, <1>5, <1>b, <1>f, <1>s, CorrelatedFolds

\* Concatenation, position by position.
LEMMA ConcatIs ==
    ASSUME NEW T, NEW x \in Seq(T), NEW y \in Seq(T), NEW n \in Nat, n = Len(x),
           NEW k \in Nat, k = Len(y), NEW z, z = x \o y
    PROVE  /\ z \in Seq(T) /\ Len(z) = n + k
           /\ \A i \in 1 .. n : z[i] = x[i]
           /\ \A i \in 1 .. k : z[n + i] = y[i]
<1>1. x \o y \in Seq(T) /\ Len(x \o y) = n + k
  BY ConcatProperties
<1>2. \A i \in 1 .. n : (x \o y)[i] = x[i]
  BY ConcatProperties
<1>3. \A i \in 1 .. k : (x \o y)[n + i] = y[i]
  BY ConcatProperties
<1> QED
  BY <1>1, <1>2, <1>3

\* The call goes through, and its logs are named by ids.
Effective(c, call, x, split, d, logs, n) ==
    /\ c \in Contracts /\ call \in CallRecords /\ call.sender \in Followed
    /\ x = c.escrow[call.sender] /\ split = Split(x, call) /\ ~Reverts(x, call)
    /\ d = Call(c, call) /\ logs = Emitted(x, call) /\ n = Len(logs)

Naming(ids, h, v, logs, n) ==
    /\ h \in Hashes /\ \A k \in 1 .. n : ids[k] \in Ids /\ ids[k].block = h
    /\ CorrelateTrace(v, ids, logs, n)

Leads(w, m, c) == \E E \in Seq(Events) : w = Clean(E) /\ Replay(m, E, AmountsOf(c))

\* CallReplays, for whatever replay came before.
LEMMA CallLeads ==
    ASSUME NEW c, NEW call, NEW x, NEW split, NEW d, NEW logs, NEW n,
           Effective(c, call, x, split, d, logs, n),
           NEW ids, NEW h, NEW v, Naming(ids, h, v, logs, n), NEW m, Leads(v[0], m, c)
    PROVE  Leads(v[n], m, d)
<1>E. PICK E \in Seq(Events) : v[0] = Clean(E) /\ Replay(m, E, AmountsOf(c))
  BY DEF Leads
<1>1. \E F \in Seq(Events) : v[n] = Clean(F) /\ Replay(m, F, AmountsOf(d))
  BY <1>E, CallReplays DEF Effective, Naming
<1> QED
  BY <1>1 DEF Leads

\* What is read of a block whose head is h, log by log.
Asking(t, h, n) ==
    /\ t[0] = <<>>
    /\ \A i \in 1 .. n : t[i] = Asked(t[i - 1], [block |-> h, index |-> i])

PrefixOf(x, y) == Len(x) <= Len(y) /\ \A i \in 1 .. Len(x) : x[i] = y[i]

\* The logs so far are events that lead from m to the contract's escrow.
Told(ids, m, c) ==
    /\ ids \in Seq(Ids)
    /\ Leads(Correlated(ids), m, c)

Reading(t, h, final, l) ==
    h \in Hashes /\ final = Contract[h].logs /\ l = Len(final) /\ Asking(t, h, l)

Calling(c, call, d, final, p, q) ==
    /\ c \in Contracts /\ call \in CallRecords /\ d \in Contracts /\ d = Call(c, call)
    /\ PrefixOf(d.logs, final) /\ p = Len(c.logs) /\ q = Len(d.logs)

\* What is read of a call takes the replay over it: the logs of followed signers are its
\* events, and the others move nothing that is followed.
LEMMA CallTold ==
    ASSUME NEW t, NEW h, NEW final, NEW l, Reading(t, h, final, l),
           NEW c, NEW call, NEW d, NEW p, NEW q, Calling(c, call, d, final, p, q),
           NEW m, Told(t[p], m, c)
    PROVE  Told(t[q], m, d)
<1>r. h \in Hashes /\ final = Contract[h].logs /\ l = Len(final) /\ Asking(t, h, l)
  BY DEF Reading
<1>g. /\ c \in Contracts /\ call \in CallRecords /\ d \in Contracts /\ d = Call(c, call)
      /\ PrefixOf(d.logs, final) /\ p = Len(c.logs) /\ q = Len(d.logs)
  BY DEF Calling
<1> USE <1>r, <1>g
<1>x. PICK x : x = c.escrow[call.sender]
  OBVIOUS
<1>s. PICK split : split = Split(x, call)
  OBVIOUS
<1>1. CASE Reverts(x, call)
  <2>1. d = c
    BY <1>1, <1>x DEF Call
  <2> QED
    BY <2>1
<1>2. CASE ~Reverts(x, call)
  <2>m. CallMoved(c, call, x, split, d)
    BY <1>2, <1>x, <1>s, CallMoves
  <2>l. PICK emitted : emitted = Emitted(x, call)
    OBVIOUS
  <2>e. /\ x \in Escrows /\ d.logs = c.logs \o emitted
    BY <2>m, <2>l DEF CallMoved
  <2>r. PICK r \in 1 .. 3 : r = Len(emitted)
    BY <2>e, <2>l, EmittedNames
  <2>1. emitted \in Seq(LogRecords) /\ \A k \in 1 .. r : emitted[k].sender = call.sender
    BY <2>e, <2>l, <2>r, EmittedNames
  <2>n. PICK n \in Nat : n = p
    BY DEF Contracts
  <2>f. PICK f \in Nat : f = Len(final)
    BY ContractIs DEF Contracts
  <2>c. PICK list \in Seq(LogRecords) : list = c.logs /\ Len(list) = n
    BY <2>n DEF Contracts
  <2>2. /\ q = n + r
        /\ \A k \in 1 .. r : d.logs[n + k] = emitted[k]
    <3>j. PICK joined : joined = list \o emitted
      OBVIOUS
    <3>1. d.logs = joined
      BY <2>c, <2>e, <3>j
    <3>r. PICK w \in Nat : w = r
      OBVIOUS
    <3>m. PICK more \in Seq(LogRecords) : more = emitted
      BY <2>1
    <3>n. n = Len(list) /\ w = Len(more) /\ joined = list \o more
      BY <2>c, <2>r, <3>j, <3>m, <3>r
    <3>z. Len(joined) = n + w /\ \A k \in 1 .. w : joined[n + k] = more[k]
      BY <3>n, ConcatIs
    <3>2. Len(joined) = n + w /\ \A k \in 1 .. w : joined[n + k] = emitted[k]
      BY <3>m, <3>z
    <3> QED
      BY <3>1, <3>2, <3>r
  <2>3. n + r <= f /\ \A k \in 1 .. r : n + k \in 1 .. f /\ final[n + k] = emitted[k]
    <3>1. n + r <= f
      BY <2>2, <2>f DEF PrefixOf
    <3>2. \A i \in 1 .. n + r : final[i] = d.logs[i]
      BY <2>2 DEF PrefixOf
    <3>3. \A k \in 1 .. r : n + k \in 1 .. n + r /\ n + k \in 1 .. f
      BY <3>1
    <3> QED
      BY <2>2, <3>1, <3>2, <3>3
  <2>i. PICK ids : ids = [k \in 1 .. r |-> [block |-> h, index |-> n + k]]
    OBVIOUS
  <2>4. \A k \in 1 .. r : /\ ids[k] \in Ids /\ ids[k].block = h
                          /\ LogOf(ids[k]) = emitted[k]
                          /\ t[n + k] = Asked(t[n + (k - 1)], ids[k])
    <3> TAKE k \in 1 .. r
    <3>i. PICK i \in Nat : i = n + k /\ i \in 1 .. f /\ i - 1 = n + (k - 1) /\ final[i] = emitted[k]
      <4>i. PICK i \in Nat : i = n + k
        OBVIOUS
      <4>1. i - 1 = n + (k - 1)
        BY <4>i
      <4>2. i \in 1 .. f /\ final[i] = emitted[k]
        BY <2>3, <4>i
      <4> QED
        BY <4>1, <4>2, <4>i
    <3>1. ids[k] = [block |-> h, index |-> i]
      BY <2>i, <3>i
    <3>2. ids[k] \in Ids /\ ids[k].block = h /\ LogOf(ids[k]) = emitted[k]
      BY <3>1, <3>i DEF Ids, LogOf
    <3>3. t[i] = Asked(t[i - 1], ids[k])
      BY <2>f, <3>1, <3>i DEF Asking
    <3> QED
      BY <3>2, <3>3, <3>i
  <2>5. CASE call.sender \notin Followed
    <3>1. \A k \in 1 .. r : t[n + k] = t[n + (k - 1)]
      BY <2>1, <2>4, <2>5 DEF Asked
    <3>2. t[n + r] = t[n]
      <4>1. t[n + 1] = t[n + (1 - 1)]
        BY <3>1
      <4>2. r >= 2 => t[n + 2] = t[n + (2 - 1)]
        BY <3>1
      <4>3. r >= 3 => t[n + 3] = t[n + (3 - 1)]
        BY <3>1
      <4> QED
        BY <4>1, <4>2, <4>3
    <3>3. AmountsOf(d) = AmountsOf(c)
      <4>1. \A s \in Followed : d.escrow[s] = c.escrow[s]
        BY <2>m, <2>5, FollowedAreSigners DEF CallMoved
      <4> QED
        BY <4>1 DEF AmountsOf
    <3> QED
      BY <2>2, <2>n, <3>2, <3>3 DEF Told, Leads
  <2>6. CASE call.sender \in Followed
    <3>1. \A k \in 1 .. r : t[n + k] = Append(t[n + (k - 1)], ids[k])
      BY <2>1, <2>4, <2>6 DEF Asked
    <3>2. \A k \in 0 .. r : t[n + k] \in Seq(Ids)
      <4> DEFINE F == {k \in 0 .. r : t[n + k] \in Seq(Ids)}
      <4>1. 0 \in F
        BY <2>n DEF Told
      <4>2. ASSUME NEW k \in 1 .. r, k - 1 \in F PROVE k \in F
        <5>a. PICK a \in Seq(Ids) : a = t[n + (k - 1)]
          BY <4>2
        <5>i. PICK id \in Ids : id = ids[k]
          BY <2>4
        <5>1. Append(a, id) \in Seq(Ids)
          BY AppendProperties
        <5>2. t[n + k] = Append(a, id) /\ k \in 0 .. r
          BY <3>1, <5>a, <5>i
        <5> QED
          BY <5>1, <5>2
      <4>3. \A k \in 0 .. r : k \in F
        <5> SUFFICES ASSUME NEW k \in 0 .. r PROVE k \in F
          OBVIOUS
        <5> HIDE DEF F
        <5>1. k \in Nat /\ \A i \in 1 .. k : i \in 1 .. r
          OBVIOUS
        <5>2. \A i \in 1 .. k : i - 1 \in F => i \in F
          BY <4>2, <5>1
        <5> QED
          BY <4>1, <5>1, <5>2, AskFolds!TraceInduction
      <4> QED
        BY <4>3
    <3>v. PICK v : v = [k \in 0 .. r |-> Correlated(t[n + k])]
      OBVIOUS
    <3>3. CorrelateTrace(v, ids, emitted, r)
      <4>1. ASSUME NEW k \in 1 .. r PROVE v[k] = Correlate(v[k - 1], EventFor(ids[k], emitted[k]))
        <5>j. PICK j \in 0 .. r : j = k - 1
          OBVIOUS
        <5>a. PICK a \in Seq(Ids) : a = t[n + j]
          BY <3>2
        <5>b. PICK b : b = t[n + k]
          OBVIOUS
        <5>i. PICK id \in Ids : id = ids[k] /\ LogOf(id) = emitted[k]
          BY <2>4
        <5>1. b = Append(a, id)
          BY <3>1, <5>a, <5>b, <5>i, <5>j
        <5>2. Correlated(b) = Correlate(Correlated(a), EventFor(id, LogOf(id)))
          BY <5>1, CorrelatedAppended
        <5>3. v[k] = Correlated(b) /\ v[j] = Correlated(a)
          BY <3>v, <5>a, <5>b
        <5> QED
          BY <5>2, <5>3, <5>i, <5>j
      <4> QED
        BY <4>1 DEF CorrelateTrace
    <3>4. Leads(v[0], m, c)
      <4>1. v[0] = Correlated(t[n + 0]) /\ n + 0 = n
        BY <3>v
      <4> QED
        BY <2>n, <4>1 DEF Told
    <3>5. Naming(ids, h, v, emitted, r)
      BY <2>4, <3>3 DEF Naming
    <3>e. Effective(c, call, x, split, d, emitted, r)
      BY <1>2, <1>x, <1>s, <2>l, <2>r, <2>6 DEF Effective
    <3>6. Leads(v[r], m, d)
      BY <3>4, <3>5, <3>e, CallLeads
    <3>7. v[r] = Correlated(t[n + r]) /\ t[n + r] \in Seq(Ids)
      BY <3>2, <3>v
    <3> QED
      BY <2>2, <3>6, <3>7 DEF Told
  <2> QED
    BY <2>5, <2>6
<1> QED
  BY <1>1, <1>2

-----------------------------------------------------------------------------
(***************************************************************************)
(* What is read of a block                                                 *)
(***************************************************************************)

\* The last block of a branch is its payload, played on what its parent leaves.
LEMMA LastBlock ==
    ASSUME NEW d \in Hashes, NEW k \in Nat, Len(d) = k + 1, NEW b, b = Ancestor(d, k)
    PROVE  b \in Hashes /\ Len(b) = k /\ d[k + 1] \in Payloads
           /\ Contract[d] = Block(Contract[b], d[k + 1])
<1>1. Len(d) \in Nat /\ DOMAIN d = 1 .. k + 1 /\ \A i \in 1 .. k + 1 : d[i] \in Payloads
  BY HashIs
<1>2. k \in 0 .. Len(d)
  BY <1>1
<1>3. b \in Hashes /\ Len(b) = k
  BY <1>2, AncestorIs
<1>4. DOMAIN b = 1 .. k
  BY <1>3, HashIs
<1>5. \A i \in 1 .. k : b[i] = d[i]
  <2>1. d \in Seq(Payloads)
    BY HashIs
  <2> QED
    BY <2>1, <1>1 DEF Ancestor
<1>l. PICK l \in Nat : l = k + 1
  OBVIOUS
<1>6. BlockFolds!LeftFold(Genesis, d) = Block(BlockFolds!LeftFold(Genesis, b), d[l])
  BY <1>1, <1>4, <1>5, <1>l, BlockFolds!FoldLeftLast
<1>7. Contract[d] = BlockFolds!LeftFold(Genesis, d) /\ Contract[b] = BlockFolds!LeftFold(Genesis, b)
  BY <1>3, BlockFoldIs, ContractOfHash
<1>8. d[k + 1] \in Payloads
  BY <1>1
<1> QED
  BY <1>3, <1>6, <1>7, <1>8, <1>l

\* A call only adds logs.
LEMMA CallLogsGrow ==
    ASSUME NEW c \in Contracts, NEW call \in CallRecords, NEW d, d = Call(c, call)
    PROVE  PrefixOf(c.logs, d.logs)
<1>x. PICK x : x = c.escrow[call.sender]
  OBVIOUS
<1>c. PICK list \in Seq(LogRecords) : list = c.logs
  BY DEF Contracts
<1>1. CASE Reverts(x, call)
  <2>1. d = c
    BY <1>1, <1>x DEF Call
  <2> QED
    BY <2>1, <1>c DEF PrefixOf
<1>2. CASE ~Reverts(x, call)
  <2>s. PICK split : split = Split(x, call)
    OBVIOUS
  <2>m. CallMoved(c, call, x, split, d)
    BY <1>2, <1>x, <2>s, CallMoves
  <2>l. PICK emitted \in Seq(LogRecords) : emitted = Emitted(x, call)
    BY <2>m, EmittedAreLogs DEF CallMoved
  <2>j. PICK joined : joined = list \o emitted
    OBVIOUS
  <2>1. d.logs = joined
    BY <1>c, <2>j, <2>l, <2>m DEF CallMoved
  <2>n. PICK n \in Nat : n = Len(list)
    OBVIOUS
  <2>k. PICK k \in Nat : k = Len(emitted)
    OBVIOUS
  <2>2. Len(joined) = n + k /\ \A i \in 1 .. n : joined[i] = list[i]
    BY <2>j, <2>k, <2>n, ConcatIs
  <2> QED
    BY <1>c, <2>1, <2>2, <2>n DEF PrefixOf
<1> QED
  BY <1>1, <1>2

\* The logs of a block are events that suit, one after the other, what its parent leaves,
\* and lead from there to what it leaves itself.
LEMMA BlockTold ==
    ASSUME NEW d \in Hashes, NEW k \in Nat, Len(d) = k + 1, NEW b, b = Ancestor(d, k)
    PROVE  Told(FollowedLogs[d], AmountsOf(Contract[b]), Contract[d])
<1>1. b \in Hashes /\ d[k + 1] \in Payloads /\ Contract[d] = Block(Contract[b], d[k + 1])
  BY LastBlock
<1>p. PICK p \in Payloads : p = d[k + 1]
  BY <1>1
<1>n. PICK n \in Nat : n = Len(Calls[p])
  BY CallsAre
<1>q. PICK calls : calls = Calls[p]
  OBVIOUS
<1>2. DOMAIN calls = 1 .. n /\ \A i \in 1 .. n : calls[i] \in CallRecords
  BY <1>n, <1>q, CallsAre
<1>s. PICK start \in Contracts : start = Contract[b]
  BY <1>1, ContractIs
<1>b. PICK base : base = [start EXCEPT !.logs = <<>>]
  OBVIOUS
<1>e. PICK none \in Seq(LogRecords) : none = <<>> /\ Len(none) = 0
  BY EmptySeq
<1>3. base \in Contracts /\ base.escrow = start.escrow /\ base.logs = none
  <2>1. base = [start EXCEPT !.logs = none]
    BY <1>b, <1>e
  <2> QED
    BY <2>1 DEF Contracts
<1>c. PICK c : CallFolds!Trace(c, base, n, calls) /\ c[n] = CallFolds!LeftFold(base, calls)
  BY <1>2, CallFolds!TraceExists
<1>4. c[0] = base /\ \A i \in 1 .. n : c[i] = Call(c[i - 1], calls[i])
  BY <1>c DEF CallFolds!Trace
<1>5. c[n] = Contract[d]
  <2>1. Contract[d] = Block(start, p)
    BY <1>1, <1>p, <1>s
  <2> QED
    BY <1>b, <1>c, <1>q, <2>1, CallFoldIs DEF Block

\* The states between the calls, and their logs.
<1> DEFINE F == {i \in 0 .. n : c[i] \in Contracts /\ \A j \in 0 .. i : PrefixOf(c[j].logs, c[i].logs)}
<1>6. 0 \in F
  <2>1. PrefixOf(none, none)
    BY <1>e DEF PrefixOf
  <2> QED
    BY <1>3, <1>4, <2>1
<1>7. ASSUME NEW i \in 1 .. n, i - 1 \in F PROVE i \in F
  <2>h. PICK h \in 0 .. n : h = i - 1 /\ i \in 0 .. n
    OBVIOUS
  <2>x. PICK x \in Contracts : x = c[h]
    BY <1>7, <2>h
  <2>y. PICK y : y = c[i]
    OBVIOUS
  <2>k. PICK call \in CallRecords : call = calls[i]
    BY <1>2
  <2>1. y = Call(x, call)
    BY <1>4, <2>h, <2>x, <2>y, <2>k
  <2>2. y \in Contracts /\ PrefixOf(x.logs, y.logs)
    BY <2>1, CallKeepsContract, CallLogsGrow
  <2>3. \A w \in Contracts : Len(w.logs) \in Nat
    BY DEF Contracts
  <2>4. ASSUME NEW j \in 0 .. i PROVE PrefixOf(c[j].logs, y.logs)
    <3>1. CASE j = i
      <4>1. Len(y.logs) \in Nat
        BY <2>2, <2>3
      <4> QED
        BY <2>y, <3>1, <4>1 DEF PrefixOf
    <3>2. CASE j # i
      <4>1. j \in 0 .. h
        BY <2>h, <3>2
      <4>2. PrefixOf(c[j].logs, x.logs)
        BY <1>7, <2>h, <2>x, <4>1
      <4> QED
        BY <2>2, <4>2 DEF PrefixOf
    <3> QED
      BY <3>1, <3>2
  <2> QED
    BY <2>2, <2>4, <2>h, <2>y
<1>8. \A i \in 0 .. n : i \in F
  <2> HIDE DEF F
  <2> SUFFICES ASSUME NEW i \in 0 .. n PROVE i \in F
    OBVIOUS
  <2>1. i \in Nat /\ \A j \in 1 .. i : j \in 1 .. n
    OBVIOUS
  <2>2. \A j \in 1 .. i : j - 1 \in F => j \in F
    BY <1>7, <2>1
  <2> QED
    BY <1>6, <2>1, <2>2, CallFolds!TraceInduction
<1>9. \A i \in 0 .. n : c[i] \in Contracts /\ PrefixOf(c[i].logs, c[n].logs)
  <2>1. n \in 0 .. n /\ \A i \in 0 .. n : i \in F
    BY <1>8
  <2> QED
    BY <2>1
<1> HIDE DEF F

\* What is read of them.
<1>f. PICK final \in Seq(LogRecords) : final = Contract[d].logs
  BY ContractIs DEF Contracts
<1>l. PICK l \in Nat : l = Len(final)
  OBVIOUS
<1>i. PICK ids : ids = LogIds(d)
  OBVIOUS
<1>10. DOMAIN ids = 1 .. l /\ \A i \in 1 .. l : ids[i] = [block |-> d, index |-> i]
  BY <1>f, <1>i, <1>l DEF LogIds
<1>t. PICK t : AskFolds!Trace(t, <<>>, l, ids) /\ t[l] = AskFolds!LeftFold(<<>>, ids)
  BY <1>10, AskFolds!TraceExists
<1>11. Asking(t, d, l)
  BY <1>10, <1>t DEF AskFolds!Trace, Asking
<1>12. FollowedLogs[d] = t[l]
  <2>1. FollowedLogs[d] = FoldLeft(Asked, <<>>, LogIds(d))
    BY DEF FollowedLogs, Tabulated
  <2> QED
    BY <1>i, <1>t, <2>1, AskFoldIs
<1>m. PICK m : m = AmountsOf(start)
  OBVIOUS
<1> DEFINE G == {i \in 0 .. n : Told(t[Len(c[i].logs)], m, c[i])}
<1>13. 0 \in G
  <2>1. t[Len(c[0].logs)] = <<>>
    BY <1>3, <1>4, <1>11, <1>e DEF Asking
  <2>2. AmountsOf(base) = m
    BY <1>3, <1>m DEF AmountsOf
  <2>3. Told(<<>>, m, base)
    <3>1. <<>> \in Seq(Ids) /\ <<>> \in Seq(Events)
      BY EmptySeq
    <3>2. Replay(m, <<>>, m)
      BY ReplayNothing
    <3> QED
      BY <2>2, <3>1, <3>2, CorrelatedNothing DEF Told, Leads
  <2>4. Told(t[Len(c[0].logs)], m, c[0])
    BY <1>4, <2>1, <2>3
  <2> QED
    BY <2>4
<1>14. ASSUME NEW i \in 1 .. n, i - 1 \in G PROVE i \in G
  <2>h. PICK h \in 0 .. n : h = i - 1 /\ i \in 0 .. n
    OBVIOUS
  <2>x. PICK x \in Contracts : x = c[h]
    BY <1>9
  <2>y. PICK y \in Contracts : y = c[i] /\ PrefixOf(y.logs, final)
    BY <1>5, <1>9, <1>f, <2>h
  <2>k. PICK call \in CallRecords : call = calls[i]
    BY <1>2
  <2>1. y = Call(x, call)
    BY <1>4, <2>h, <2>x, <2>y, <2>k
  <2>p. PICK u : u = Len(x.logs)
    OBVIOUS
  <2>q. PICK v : v = Len(y.logs)
    OBVIOUS
  <2>2. Told(t[u], m, x)
    BY <1>14, <2>h, <2>p, <2>x
  <2>3. Reading(t, d, final, l)
    BY <1>11, <1>f, <1>l DEF Reading
  <2>c. Calling(x, call, y, final, u, v)
    BY <2>1, <2>p, <2>q, <2>y DEF Calling
  <2>4. Told(t[v], m, y)
    BY <2>2, <2>3, <2>c, CallTold
  <2> QED
    BY <2>4, <2>h, <2>q, <2>y
<1>15. n \in G
  <2> HIDE DEF G
  <2> QED
    BY <1>13, <1>14, CallFolds!TraceInduction
<1>16. Told(t[l], m, Contract[d])
  BY <1>5, <1>15, <1>f, <1>l
<1> QED
  BY <1>12, <1>16, <1>m, <1>s

-----------------------------------------------------------------------------
(***************************************************************************)
(* Batches, and the events of their logs                                   *)
(***************************************************************************)

\* Append and concatenation.
LEMMA AppendedToJoined ==
    ASSUME NEW T, NEW x \in Seq(T), NEW y \in Seq(T), NEW z \in T
    PROVE  Append(x \o y, z) = x \o Append(y, z)
OBVIOUS

\* The correlation with these events before its own.
Shifted(E, c) ==
    [claim |-> c.claim, transfer |-> c.transfer, events |-> E \o c.events, ok |-> c.ok]

\* v is u with these events before its own.
Preceded(E, u, v) ==
    /\ v = [claim |-> v.claim, transfer |-> v.transfer, events |-> v.events, ok |-> v.ok]
    /\ v.claim = u.claim /\ v.transfer = u.transfer /\ v.ok = u.ok
    /\ v.events = E \o u.events

\* Correlation does not look at the events it has already.
LEMMA CorrelateShifts ==
    ASSUME NEW E \in Seq(Events), NEW c, NEW ids, NEW m, Correlation(c, ids, m),
           NEW e \in Events
    PROVE  Correlate(Shifted(E, c), e) = Shifted(E, Correlate(c, e))
<1>q. PICK q \in Seq(Events) : q = c.events
  BY DEF Correlation
<1>a. PICK claim : claim = c.claim
  OBVIOUS
<1>t. PICK transfer : transfer = c.transfer
  OBVIOUS
<1>k. PICK ok : ok = c.ok
  OBVIOUS
<1>x. PICK x : x = E \o q
  OBVIOUS
<1>s. PICK s : s = Shifted(E, c)
  OBVIOUS
<1>c. c = [claim |-> claim, transfer |-> transfer, events |-> q, ok |-> ok]
  BY <1>q, <1>a, <1>t, <1>k DEF Correlation
<1>1. s = [claim |-> claim, transfer |-> transfer, events |-> x, ok |-> ok]
  BY <1>q, <1>a, <1>t, <1>k, <1>x, <1>s DEF Shifted
<1>2. \A f \in Events : Append(x, f) = E \o Append(q, f)
  BY <1>x, AppendedToJoined
<1>p. PICK paid \in Int : paid = AmountOf(transfer)
  BY <1>t DEF Correlation, Events, AmountOf
<1>d. PICK claimed \in Int : claimed = AmountOf(claim)
  BY <1>a DEF Correlation, Events, AmountOf
<1>u. PICK u : u = Correlate(c, e)
  OBVIOUS
<1>v. PICK v : v = Correlate(s, e)
  OBVIOUS
<1> SUFFICES Preceded(E, u, v)
  BY <1>s, <1>u, <1>v DEF Preceded, Shifted
<1>3. CASE e.kind = "winning_ticket_redeemed"
  <2>d. PICK d \in Int : d = paid - claimed
    OBVIOUS
  <2>f. PICK f \in Events : f = [e EXCEPT !.deposit = d, !.reserve = claimed]
    BY DEF Events
  <2>1. u = CorrelateRedemption(c, e) /\ v = CorrelateRedemption(s, e)
    BY <1>3, <1>u, <1>v DEF Correlate
  <2>2. /\ u.events = Append(q, f) /\ u.claim = NoEvent /\ u.transfer = NoEvent
        /\ u.ok = (/\ ok
                   /\ claim # NoEvent => transfer # NoEvent /\ SamePayment(claim, e)
                   /\ transfer # NoEvent => SamePayment(transfer, e)
                   /\ claimed <= paid /\ paid <= e.amount)
    BY <1>c, <1>p, <1>d, <2>1, <2>d, <2>f DEF CorrelateRedemption, AmountOf
  <2>3. /\ v.events = Append(x, f) /\ v.claim = NoEvent /\ v.transfer = NoEvent
        /\ v = [claim |-> v.claim, transfer |-> v.transfer, events |-> v.events, ok |-> v.ok]
        /\ v.ok = (/\ ok
                   /\ claim # NoEvent => transfer # NoEvent /\ SamePayment(claim, e)
                   /\ transfer # NoEvent => SamePayment(transfer, e)
                   /\ claimed <= paid /\ paid <= e.amount)
    BY <1>1, <1>p, <1>d, <2>1, <2>d, <2>f DEF CorrelateRedemption, AmountOf
  <2>4. v.ok = u.ok
    BY <2>2, <2>3
  <2>5. v.events = E \o u.events
    BY <1>2, <2>2, <2>3
  <2> QED
    BY <2>2, <2>3, <2>4, <2>5 DEF Preceded
<1>4. CASE e.kind = "reserve_claimed"
  <2>2. /\ u.events = Append(q, e) /\ u.claim = e /\ u.transfer = transfer
        /\ u.ok = (ok /\ ~(claim # NoEvent \/ transfer # NoEvent))
    BY <1>c, <1>u, <1>4 DEF Correlate
  <2>3. /\ v.events = Append(x, e) /\ v.claim = e /\ v.transfer = transfer
        /\ v = [claim |-> v.claim, transfer |-> v.transfer, events |-> v.events, ok |-> v.ok]
        /\ v.ok = (ok /\ ~(claim # NoEvent \/ transfer # NoEvent))
    BY <1>1, <1>v, <1>4 DEF Correlate
  <2>4. v.ok = u.ok
    BY <2>2, <2>3
  <2>5. v.events = E \o u.events
    BY <1>2, <2>2, <2>3
  <2> QED
    BY <2>2, <2>3, <2>4, <2>5 DEF Preceded
<1>5. CASE e.kind = "winning_ticket_transfer"
  <2>2. /\ u.events = Append(q, e) /\ u.claim = claim /\ u.transfer = e
        /\ u.ok = (ok /\ transfer = NoEvent /\ (claim # NoEvent => SamePayment(claim, e)))
    BY <1>c, <1>u, <1>5 DEF Correlate
  <2>3. /\ v.events = Append(x, e) /\ v.claim = claim /\ v.transfer = e
        /\ v = [claim |-> v.claim, transfer |-> v.transfer, events |-> v.events, ok |-> v.ok]
        /\ v.ok = (ok /\ transfer = NoEvent /\ (claim # NoEvent => SamePayment(claim, e)))
    BY <1>1, <1>v, <1>5 DEF Correlate
  <2>4. v.ok = u.ok
    BY <2>2, <2>3
  <2>5. v.events = E \o u.events
    BY <1>2, <2>2, <2>3
  <2> QED
    BY <2>2, <2>3, <2>4, <2>5 DEF Preceded
<1>6. CASE e.kind \notin {"reserve_claimed", "winning_ticket_transfer", "winning_ticket_redeemed"}
  <2>2. /\ u.events = Append(q, e) /\ u.claim = claim /\ u.transfer = transfer
        /\ u.ok = (ok /\ ~(claim # NoEvent \/ transfer # NoEvent))
    BY <1>c, <1>u, <1>6 DEF Correlate
  <2>3. /\ v.events = Append(x, e) /\ v.claim = claim /\ v.transfer = transfer
        /\ v = [claim |-> v.claim, transfer |-> v.transfer, events |-> v.events, ok |-> v.ok]
        /\ v.ok = (ok /\ ~(claim # NoEvent \/ transfer # NoEvent))
    BY <1>1, <1>v, <1>6 DEF Correlate
  <2>4. v.ok = u.ok
    BY <2>2, <2>3
  <2>5. v.events = E \o u.events
    BY <1>2, <2>2, <2>3
  <2> QED
    BY <2>2, <2>3, <2>4, <2>5 DEF Preceded
<1> QED
  BY <1>3, <1>4, <1>5, <1>6

\* What is correlated after a clean beginning.
LEMMA CorrelatedJoined ==
    ASSUME NEW x \in Seq(Ids), NEW E \in Seq(Events), Correlated(x) = Clean(E),
           NEW y \in Seq(Ids), \A i \in 1 .. Len(y) : Followable(y[i]),
           NEW z, z = x \o y
    PROVE  Correlated(z) = Shifted(E, Correlated(y))
<1>m. PICK m \in Nat : m = Len(x)
  OBVIOUS
<1>n. PICK n \in Nat : n = Len(y)
  OBVIOUS
<1>k. PICK k \in Nat : k = m + n
  OBVIOUS
<1>1. /\ z \in Seq(Ids) /\ Len(z) = k /\ \A i \in 1 .. m : z[i] = x[i]
      /\ \A i \in 1 .. n : z[m + i] = y[i]
  BY <1>m, <1>n, <1>k, ConcatIs
<1>2. DOMAIN x = 1 .. m /\ DOMAIN y = 1 .. n /\ DOMAIN z = 1 .. k
  BY <1>1, <1>m, <1>n
<1>b. PICK base : base = Clean(<<>>)
  OBVIOUS
<1>f. PICK first : first = [i \in DOMAIN x |-> Decode(x[i])]
  OBVIOUS
<1>r. PICK rest : rest = [i \in DOMAIN y |-> Decode(y[i])]
  OBVIOUS
<1>s. PICK seq : seq = [i \in DOMAIN z |-> Decode(z[i])]
  OBVIOUS
<1>3. CorrelateFolds!Joins(seq, k, m, first, n, rest)
  <2>1. \A i \in 1 .. m : i \in 1 .. k
    BY <1>k
  <2>2. \A i \in 1 .. n : m + i \in 1 .. k
    BY <1>k
  <2> QED
    BY <1>1, <1>2, <1>k, <1>f, <1>r, <1>s, <2>1, <2>2 DEF CorrelateFolds!Joins
<1>4. Correlated(z) = CorrelateFolds!LeftFold(Correlated(x), rest)
  <2>1. CorrelateFolds!LeftFold(base, seq) = CorrelateFolds!LeftFold(CorrelateFolds!LeftFold(base, first), rest)
    BY <1>3, CorrelateFolds!FoldLeftJoined
  <2> QED
    BY <1>b, <1>f, <1>s, <2>1, CorrelatedFolds
<1>c. PICK clean : clean = Clean(E)
  OBVIOUS
<1>5. DOMAIN rest = 1 .. n
  BY <1>2, <1>r
<1>w. PICK w : CorrelateFolds!Trace(w, clean, n, rest) /\ w[n] = CorrelateFolds!LeftFold(clean, rest)
  BY <1>5, CorrelateFolds!TraceExists
<1>u. PICK u : CorrelateFolds!Trace(u, base, n, rest) /\ u[n] = CorrelateFolds!LeftFold(base, rest)
  BY <1>5, CorrelateFolds!TraceExists
<1>6. w[0] = clean /\ u[0] = base
      /\ \A i \in 1 .. n : w[i] = Correlate(w[i - 1], rest[i]) /\ u[i] = Correlate(u[i - 1], rest[i])
  BY <1>w, <1>u DEF CorrelateFolds!Trace
<1> DEFINE F == {i \in 0 .. n : w[i] = Shifted(E, u[i]) /\ Correlation(u[i], y, i)}
<1>7. 0 \in F
  <2>1. Correlation(base, y, 0)
    BY <1>b DEF Correlation, Clean, Awaiting
  <2>2. clean = Shifted(E, base)
    <3>1. E \o <<>> = E
      OBVIOUS
    <3> QED
      BY <1>b, <1>c, <3>1 DEF Shifted, Clean, Awaiting
  <2> QED
    BY <1>6, <2>1, <2>2
<1>8. ASSUME NEW i \in 1 .. n, i - 1 \in F PROVE i \in F
  <2>h. PICK h \in Nat : h = i - 1 /\ i \in 0 .. n /\ i \in Nat /\ i = h + 1
    OBVIOUS
  <2>a. PICK a : a = u[h] /\ w[h] = Shifted(E, a) /\ Correlation(a, y, h)
    BY <1>8, <2>h
  <2>e. PICK e \in Events : e = rest[i] /\ ForLog(e, y[i])
    <3>1. ForLog(Decode(y[i]), y[i])
      BY <1>n, DecodeIs
    <3> QED
      BY <1>2, <1>r, <3>1 DEF ForLog
  <2>d. PICK d : d = Correlate(a, e)
    OBVIOUS
  <2>1. u[i] = d /\ w[i] = Correlate(Shifted(E, a), e)
    BY <1>6, <2>a, <2>d, <2>e, <2>h
  <2>2. Correlation(d, y, i)
    BY <2>a, <2>d, <2>e, <2>h, CorrelateKeeps
  <2>3. w[i] = Shifted(E, d)
    BY <2>1, <2>a, <2>d, CorrelateShifts
  <2> QED
    BY <2>1, <2>2, <2>3, <2>h
<1> HIDE DEF F
<1>9. n \in F
  BY <1>7, <1>8, CorrelateFolds!TraceInduction
<1>10. w[n] = Shifted(E, u[n])
  BY <1>9 DEF F
<1>11. Correlated(y) = u[n]
  BY <1>b, <1>r, <1>u, CorrelatedFolds
<1> QED
  BY <1>4, <1>10, <1>11, <1>c, <1>w

EventsIn(d) == Correlated(FollowedLogs[d]).events

\* The event of a log, with what was paid when it is a redemption.
EventOf(id) == CHOOSE e \in ToSet(EventsIn(id.block)) : e.id = id

\* The logs are in place, and their events lead from m to r.
Tells(ids, m, r) ==
    /\ ids \in Seq(Ids) /\ \A i \in 1 .. Len(ids) : Followable(ids[i])
    /\ \E E \in Seq(Events) :
          /\ Correlated(ids) = Clean(E)
          /\ Len(E) = Len(ids) /\ \A i \in 1 .. Len(ids) : E[i] = EventOf(ids[i])
          /\ Replay(m, E, r)

\* What is read of a block is in place, and of that block.
LEMMA FollowedLogsFollowable ==
    ASSUME NEW d \in Hashes
    PROVE  /\ FollowedLogs[d] \in Seq(Ids)
           /\ \A i \in 1 .. Len(FollowedLogs[d]) :
                 Followable(FollowedLogs[d][i]) /\ FollowedLogs[d][i].block = d
<1>q. PICK q \in Seq(Ids) : q = FollowedLogs[d] /\ ToSet(q) = IdsOf(d)
  BY FollowedLogsAre DEF Lists
<1>1. \A i \in 1 .. Len(q) : q[i] \in IdsOf(d)
  BY <1>q, ToSetOfSeq
<1>l. PICK list \in Seq(LogRecords) : list = Contract[d].logs
  BY ContractIs DEF Contracts
<1>2. ASSUME NEW id \in IdsOf(d) PROVE Followable(id) /\ id.block = d
  <2>i. PICK i \in 1 .. Len(list) : list[i].sender \in Followed /\ id = [block |-> d, index |-> i]
    BY <1>l DEF IdsOf
  <2>1. i \in Nat /\ list[i] \in LogRecords
    OBVIOUS
  <2> QED
    BY <1>l, <2>i, <2>1 DEF Followable, Ids, LogOf
<1> QED
  BY <1>q, <1>1, <1>2

\* An order that increases repeats nothing.
LEMMA IncreasingOnce ==
    ASSUME NEW seq \in Seq(Ids), Increasing(seq)
    PROVE  \A i, j \in 1 .. Len(seq) : seq[i] = seq[j] => i = j
<1>1. \A i \in 1 .. Len(seq) : Len(seq[i].block) \in Nat /\ seq[i].index \in Nat
  <2> TAKE i \in 1 .. Len(seq)
  <2>1. seq[i] \in Ids
    OBVIOUS
  <2> QED
    BY <2>1, HashIs DEF Ids
<1>2. \A i \in 1 .. Len(seq) : ~Precedes(seq[i], seq[i])
  BY <1>1 DEF Precedes
<1>3. \A i, j \in 1 .. Len(seq) : i < j => Precedes(seq[i], seq[j])
  BY DEF Increasing
<1> TAKE i, j \in 1 .. Len(seq)
<1>4. i < j \/ j < i \/ i = j
  OBVIOUS
<1> QED
  BY <1>2, <1>3, <1>4

\* The events of a block's logs, one each.
LEMMA EventsOfBlock ==
    ASSUME NEW d \in Hashes, NEW ids, ids = FollowedLogs[d], NEW E \in Seq(Events), E = EventsIn(d),
           NEW n, n = Len(ids)
    PROVE  /\ Len(E) = n
           /\ \A i \in 1 .. n : E[i] = EventOf(ids[i]) /\ ForLog(E[i], ids[i])
<1>1. ids \in Seq(Ids) /\ \A i \in 1 .. n : Followable(ids[i]) /\ ids[i].block = d
  BY FollowedLogsFollowable
<1>n. n \in Nat /\ DOMAIN ids = 1 .. n
  BY <1>1
<1>c. PICK c : c = Correlated(ids)
  OBVIOUS
<1>2. Correlation(c, ids, n)
  BY <1>1, <1>n, <1>c, CorrelatedIs
<1>3. c.events = E
  BY <1>c DEF EventsIn
<1>4. Len(E) = n /\ \A i \in 1 .. n : ForLog(E[i], ids[i])
  BY <1>2, <1>3 DEF Correlation
<1>5. ToSet(E) = {E[i] : i \in 1 .. n}
  BY <1>4, ToSetOfSeq
<1>6. \A i, j \in 1 .. n : ids[i] = ids[j] => i = j
  BY <1>1, FollowedLogsIncrease, IncreasingOnce
<1>7. ASSUME NEW i \in 1 .. n PROVE E[i] = EventOf(ids[i])
  <2>1. \A j \in 1 .. n : E[j].id = ids[j]
    BY <1>4 DEF ForLog
  <2>2. \A e \in ToSet(E) : e.id = ids[i] => e = E[i]
    BY <1>5, <1>6, <2>1
  <2>3. E[i] \in ToSet(E) /\ E[i].id = ids[i]
    BY <1>5, <2>1
  <2>4. EventOf(ids[i]) = CHOOSE e \in ToSet(E) : e.id = ids[i]
    BY <1>1 DEF EventOf
  <2> QED
    BY <2>2, <2>3, <2>4
<1> QED
  BY <1>4, <1>7

\* BlockTold, with each event that of its own log.
LEMMA BlockTells ==
    ASSUME NEW d \in Hashes, NEW k \in Nat, Len(d) = k + 1, NEW b, b = Ancestor(d, k)
    PROVE  Tells(FollowedLogs[d], AmountsOf(Contract[b]), AmountsOf(Contract[d]))
<1>m. PICK m : m = AmountsOf(Contract[b])
  OBVIOUS
<1>r. PICK r : r = AmountsOf(Contract[d])
  OBVIOUS
<1>i. PICK ids : ids = FollowedLogs[d]
  OBVIOUS
<1>1. Told(ids, m, Contract[d])
  BY <1>i, <1>m, BlockTold
<1>E. PICK E \in Seq(Events) : Correlated(ids) = Clean(E) /\ Replay(m, E, r)
  BY <1>1, <1>r DEF Told, Leads
<1>2. E = EventsIn(d)
  BY <1>i, <1>E DEF EventsIn, Clean, Awaiting
<1>n. PICK n : n = Len(ids)
  OBVIOUS
<1>3. Len(E) = n /\ \A i \in 1 .. n : E[i] = EventOf(ids[i])
  BY <1>2, <1>i, <1>n, EventsOfBlock
<1>4. ids \in Seq(Ids) /\ \A i \in 1 .. n : Followable(ids[i])
  BY <1>i, <1>n, FollowedLogsFollowable
<1> QED
  BY <1>3, <1>4, <1>E, <1>i, <1>m, <1>n, <1>r DEF Tells

\* No logs lead nowhere.
LEMMA NothingTells == \A m : Tells(<<>>, m, m)
<1> TAKE m
<1>a. PICK ids \in Seq(Ids) : ids = <<>> /\ Len(ids) = 0
  BY EmptySeq
<1>b. PICK E \in Seq(Events) : E = <<>> /\ Len(E) = 0
  BY EmptySeq
<1>1. Replay(m, E, m)
  BY <1>b, ReplayNothing
<1>2. Correlated(ids) = Clean(E)
  BY <1>a, <1>b, CorrelatedNothing
<1>4. Len(E) = Len(ids) /\ \A i \in 1 .. Len(ids) : E[i] = EventOf(ids[i])
  BY <1>a, <1>b
<1>5. \A i \in 1 .. Len(ids) : Followable(ids[i])
  BY <1>a
<1>6. \E X \in Seq(Events) :
         /\ Correlated(ids) = Clean(X)
         /\ Len(X) = Len(ids) /\ \A i \in 1 .. Len(ids) : X[i] = EventOf(ids[i])
         /\ Replay(m, X, m)
  BY <1>1, <1>2, <1>4
<1>3. Tells(ids, m, m)
  BY <1>5, <1>6 DEF Tells
<1> QED
  BY <1>3, <1>a

\* Logs after logs.
LEMMA JoinedTells ==
    ASSUME NEW x, NEW m, NEW r, Tells(x, m, r), NEW y, NEW s, Tells(y, r, s), NEW z, z = x \o y
    PROVE  Tells(z, m, s)
<1>E. PICK E \in Seq(Events) :
          /\ Correlated(x) = Clean(E)
          /\ Len(E) = Len(x) /\ \A i \in 1 .. Len(x) : E[i] = EventOf(x[i])
          /\ Replay(m, E, r)
  BY DEF Tells
<1>F. PICK F \in Seq(Events) :
          /\ Correlated(y) = Clean(F)
          /\ Len(F) = Len(y) /\ \A i \in 1 .. Len(y) : F[i] = EventOf(y[i])
          /\ Replay(r, F, s)
  BY DEF Tells
<1>1. /\ x \in Seq(Ids) /\ \A i \in 1 .. Len(x) : Followable(x[i])
      /\ y \in Seq(Ids) /\ \A i \in 1 .. Len(y) : Followable(y[i])
  BY DEF Tells
<1>n. PICK n \in Nat : n = Len(x)
  BY <1>1
<1>k. PICK k \in Nat : k = Len(y)
  BY <1>1
<1>l. PICK l \in Nat : l = n + k
  OBVIOUS
<1>G. PICK G : G = E \o F
  OBVIOUS
<1>2. G \in Seq(Events) /\ Replay(m, G, s)
  BY <1>E, <1>F, <1>G, ReplayJoined
<1>3. Correlated(z) = Clean(G)
  <2>1. Correlated(z) = Shifted(E, Correlated(y))
    BY <1>1, <1>E, CorrelatedJoined
  <2> QED
    BY <2>1, <1>F, <1>G DEF Shifted, Clean, Awaiting
<1>4. /\ z \in Seq(Ids) /\ Len(z) = l /\ \A i \in 1 .. n : z[i] = x[i]
      /\ \A i \in 1 .. k : z[n + i] = y[i]
  BY <1>1, <1>n, <1>k, <1>l, ConcatIs
<1>5. /\ Len(G) = l /\ \A i \in 1 .. n : G[i] = E[i]
      /\ \A i \in 1 .. k : G[n + i] = F[i]
  <2>1. n = Len(E) /\ k = Len(F)
    BY <1>E, <1>F, <1>n, <1>k
  <2> QED
    BY <2>1, <1>l, <1>G, ConcatIs
<1>6. ASSUME NEW i \in 1 .. l PROVE G[i] = EventOf(z[i]) /\ Followable(z[i])
  <2>1. CASE i <= n
    <3>1. i \in 1 .. n
      BY <2>1
    <3> QED
      BY <1>1, <1>4, <1>5, <1>E, <1>n, <3>1
  <2>2. CASE ~(i <= n)
    <3>j. PICK j \in 1 .. k : n + j = i
      <4>1. i - n \in 1 .. k /\ n + (i - n) = i
        BY <1>l, <2>2
      <4> QED
        BY <4>1
    <3>1. z[n + j] = y[j] /\ G[n + j] = F[j]
      BY <1>4, <1>5
    <3> QED
      BY <1>1, <1>F, <1>k, <3>1, <3>j
  <2> QED
    BY <2>1, <2>2
<1> QED
  BY <1>2, <1>3, <1>4, <1>5, <1>6 DEF Tells

\* The logs of a stretch of a branch lead from the escrow before it to the escrow after it.
THEOREM LogsTell ==
    ASSUME NEW h \in Hashes, NEW first \in Nat \ {0}, NEW last \in Nat,
           first <= last + 1, last <= Len(h),
           NEW b, b = Ancestor(h, first - 1), NEW d, d = Ancestor(h, last)
    PROVE  Tells(Logs(h, first, last), AmountsOf(Contract[b]), AmountsOf(Contract[d]))
<1>h. Len(h) \in Nat
  BY HashIs
<1>l. Lesser(last, Len(h)) = last
  BY <1>h DEF Lesser
<1>n. PICK n \in Nat : n = last - first + 1
  OBVIOUS
<1>s. PICK seq : seq = [i \in 1 .. last - first + 1 |-> FollowedLogs[Ancestor(h, first + i - 1)]]
  OBVIOUS
<1>1. DOMAIN seq = 1 .. n
  BY <1>n, <1>s
<1> DEFINE At(i) == AmountsOf(Contract[Ancestor(h, first + i - 1)])
<1>2. \A i \in 1 .. n : Tells(seq[i], At(i - 1), At(i))
  <2> TAKE i \in 1 .. n
  <2>k. PICK k \in Nat : k + 1 = first + i - 1 /\ k = first + (i - 1) - 1 /\ k + 1 \in 0 .. Len(h)
                         /\ k \in 0 .. k + 1
    BY <1>h, <1>n
  <2>d. PICK block \in Hashes : block = Ancestor(h, k + 1) /\ Len(block) = k + 1
    BY <2>k, AncestorIs
  <2>1. Ancestor(block, k) = Ancestor(h, k)
    <3>1. \A j \in Branches : j = h => Ancestor(Ancestor(j, k + 1), k) = Ancestor(j, k)
      BY <2>k, HashIs, AncestorOfAncestor DEF Branches
    <3> QED
      BY <2>d, <3>1, HashIs DEF Branches
  <2>p. PICK parent : parent = Ancestor(block, k)
    OBVIOUS
  <2>2. Tells(FollowedLogs[block], AmountsOf(Contract[parent]), AmountsOf(Contract[block]))
    BY <2>d, <2>k, <2>p, BlockTells
  <2>3. seq[i] = FollowedLogs[block]
    BY <1>n, <1>s, <2>d, <2>k
  <2> QED
    BY <2>1, <2>2, <2>3, <2>d, <2>k, <2>p
<1>t. PICK t : JoinFolds!Trace(t, <<>>, n, seq) /\ t[n] = JoinFolds!LeftFold(<<>>, seq)
  BY <1>1, JoinFolds!TraceExists
<1>3. t[0] = <<>> /\ \A i \in 1 .. n : t[i] = t[i - 1] \o seq[i]
  BY <1>t DEF JoinFolds!Trace
<1> HIDE DEF At
<1> DEFINE F == {i \in 0 .. n : Tells(t[i], At(0), At(i))}
<1>4. 0 \in F
  BY <1>3, NothingTells
<1>5. ASSUME NEW i \in 1 .. n, i - 1 \in F PROVE i \in F
  <2>h. PICK k \in 0 .. n : k = i - 1 /\ i \in 0 .. n
    OBVIOUS
  <2>x. PICK x : x = t[k]
    OBVIOUS
  <2>y. PICK y : y = seq[i]
    OBVIOUS
  <2>z. PICK z : z = t[i]
    OBVIOUS
  <2>1. Tells(x, At(0), At(k)) /\ Tells(y, At(k), At(i)) /\ z = x \o y
    BY <1>2, <1>3, <1>5, <2>h, <2>x, <2>y, <2>z
  <2>2. Tells(z, At(0), At(i))
    BY <2>1, JoinedTells
  <2> QED
    BY <2>2, <2>h, <2>z
<1> HIDE DEF F
<1>6. n \in F
  BY <1>4, <1>5, JoinFolds!TraceInduction
<1>7. Tells(t[n], At(0), At(n))
  BY <1>6 DEF F
<1>8. Logs(h, first, last) = t[n]
  BY <1>l, <1>s, <1>t, JoinFoldIs DEF Logs
<1>9. At(0) = AmountsOf(Contract[b])
  <2>1. first + 0 - 1 = first - 1
    OBVIOUS
  <2> QED
    BY <2>1 DEF At
<1>10. At(n) = AmountsOf(Contract[d])
  <2>1. first + n - 1 = last
    BY <1>n
  <2> QED
    BY <2>1 DEF At
<1> QED
  BY <1>7, <1>8, <1>9, <1>10

\* Nothing is out of place among the logs of a branch, and no payment is left over.
LEMMA LogsAccepted ==
    ASSUME NEW h \in Hashes, NEW first \in Nat \ {0}, NEW last \in Int,
           NEW list, list = Logs(h, first, last)
    PROVE  Accepted(Correlated(list))
<1>h. Len(h) \in Nat
  BY HashIs
<1>l. PICK l \in Int : l = Lesser(last, Len(h)) /\ l <= Len(h)
  BY <1>h DEF Lesser
<1>1. CASE first <= l + 1
  <2>n. PICK n \in Nat : n = l /\ first <= n + 1 /\ n <= Len(h)
    BY <1>1, <1>l
  <2>1. Lesser(n, Len(h)) = n /\ Lesser(last, Len(h)) = n
    BY <1>h, <1>l, <2>n DEF Lesser
  <2>2. Logs(h, first, n) = Logs(h, first, last)
    BY <2>1 DEF Logs
  <2>b. PICK b : b = Ancestor(h, first - 1)
    OBVIOUS
  <2>d. PICK d : d = Ancestor(h, n)
    OBVIOUS
  <2>3. Tells(Logs(h, first, n), AmountsOf(Contract[b]), AmountsOf(Contract[d]))
    BY <2>b, <2>d, <2>n, LogsTell
  <2>4. \E E \in Seq(Events) : Correlated(list) = Clean(E)
    BY <2>2, <2>3 DEF Tells
  <2> QED
    BY <2>4 DEF Clean, Awaiting, Accepted
<1>2. CASE ~(first <= l + 1)
  <2>s. PICK seq : seq = [i \in 1 .. l - first + 1 |-> FollowedLogs[Ancestor(h, first + i - 1)]]
    OBVIOUS
  <2>1. DOMAIN seq = {}
    BY <1>2, <2>s
  <2>2. JoinFolds!LeftFold(<<>>, seq) = <<>>
    BY <2>1, JoinFolds!FoldLeftNothing
  <2>3. list = <<>>
    BY <1>l, <2>2, <2>s, JoinFoldIs DEF Logs
  <2> QED
    BY <2>3, CorrelatedNothing DEF Clean, Awaiting, Accepted
<1> QED
  BY <1>1, <1>2

-----------------------------------------------------------------------------
(***************************************************************************)
(* What a set of logs moves                                                *)
(***************************************************************************)

\* What the event of each log adds to a sender's account.
Weight(f, a) == [id \in Ids |-> EffectOf(EventOf(id))[f][a]]

\* What an event moves is a number.
LEMMA EffectIsInt ==
    ASSUME NEW e \in Events, NEW f \in Followed, NEW a \in Accounts
    PROVE  EffectOf(e)[f][a] \in Int
<1>1. e.amount \in Int /\ e.deposit \in Int /\ e.reserve \in Int
  BY DEF Events
<1> QED
  BY <1>1 DEF EffectOf, MoveOf, DrawnOf, Still

\* The event of a log carries its identity.
LEMMA EventOfIs ==
    ASSUME NEW d \in Hashes, NEW id \in IdsOf(d)
    PROVE  id \in Ids /\ ForLog(EventOf(id), id)
<1>i. PICK ids : ids = FollowedLogs[d]
  OBVIOUS
<1>1. ids \in Seq(Ids) /\ ToSet(ids) = IdsOf(d)
  BY <1>i, FollowedLogsAre DEF Lists
<1>n. PICK n : n = Len(ids)
  OBVIOUS
<1>2. ToSet(ids) = {ids[i] : i \in 1 .. n} /\ ToSet(ids) \subseteq Ids
  BY <1>1, <1>n, ToSetOfSeq
<1>k. PICK i \in 1 .. n : id = ids[i]
  BY <1>1, <1>2
<1>c. Correlation(Correlated(ids), ids, n)
  <2>1. \A j \in 1 .. Len(ids) : Followable(ids[j])
    BY <1>i, FollowedLogsFollowable
  <2> QED
    BY <2>1, <1>1, <1>n, CorrelatedIs
<1>e. PICK E \in Seq(Events) : E = EventsIn(d)
  BY <1>c, <1>i DEF Correlation, EventsIn
<1>3. E[i] = EventOf(ids[i]) /\ ForLog(E[i], ids[i])
  BY <1>e, <1>i, <1>n, EventsOfBlock
<1> QED
  BY <1>1, <1>2, <1>3, <1>k

\* Balance by balance, the logs of a stretch add up.
LEMMA TellsSums ==
    ASSUME NEW ids, NEW m, NEW r, Tells(ids, m, r), Increasing(ids),
           NEW f \in Followed, NEW a \in Escrowed, m[f][a] \in Int,
           NEW S, S = ToSet(ids), NEW w, w = Weight(f, a)
    PROVE  r[f][a] = m[f][a] + SumFunctionOnSet(w, S)
<1>a. a \in Accounts
  BY DEF Escrowed, Accounts
<1>E. PICK E \in Seq(Events) :
          /\ Len(E) = Len(ids) /\ \A i \in 1 .. Len(ids) : E[i] = EventOf(ids[i])
          /\ Replay(m, E, r)
  BY DEF Tells
<1>1. ids \in Seq(Ids)
  BY DEF Tells
<1>n. PICK n \in Nat : n = Len(ids) /\ n = Len(E)
  BY <1>1, <1>E
<1>2. S = Firsts(ids, n)
  BY <1>1, <1>n, ToSetOfSeq DEF Firsts
<1>3. \A i, j \in 1 .. n : ids[i] = ids[j] => i = j
  BY <1>1, <1>n, IncreasingOnce
<1>t. PICK t : ReplayTrace(t, m, E, n) /\ t[n] = r
  BY <1>E, <1>n DEF Replay
<1>v. \A i \in 1 .. n : ids[i] \in Ids /\ w[ids[i]] \in Int /\ w[ids[i]] = EffectOf(E[i])[f][a]
  <2> TAKE i \in 1 .. n
  <2>1. E[i] \in Events /\ ids[i] \in Ids
    BY <1>1, <1>n, ElementOfSeq
  <2>2. E[i] = EventOf(ids[i])
    BY <1>E, <1>n
  <2>3. EffectOf(E[i])[f][a] \in Int
    BY <1>a, <2>1, EffectIsInt
  <2> QED
    BY <2>1, <2>2, <2>3 DEF Weight
<1>f. \A k \in 0 .. n : IsFiniteSet(Firsts(ids, k))
  <2> TAKE k \in 0 .. n
  <2>s. PICK seq : seq = [i \in 1 .. k |-> ids[i]]
    OBVIOUS
  <2>1. DOMAIN seq = 1 .. k /\ IsFiniteSet(1 .. k) /\ k \in Nat
    BY <2>s, FS_Interval
  <2>2. IsFiniteSet(ToSet(seq))
    BY <2>1, ElementsAreFinite
  <2> QED
    BY <2>1, <2>2, <2>s DEF Firsts, ToSet
<1>z. \A k \in 0 .. n : SumFunctionOnSet(w, Firsts(ids, k)) \in Int
  <2> TAKE k \in 0 .. n
  <2>T. PICK T : T = Firsts(ids, k)
    OBVIOUS
  <2>1. \A x \in T : w[x] \in Int
    BY <1>v, <2>T DEF Firsts
  <2>2. IsFiniteSet(T)
    BY <1>f, <2>T
  <2> QED
    BY <2>1, <2>2, <2>T, SumOfInts
<1> DEFINE F == {k \in 0 .. n : t[k][f][a] = m[f][a] + SumFunctionOnSet(w, Firsts(ids, k))}
<1>4. 0 \in F
  <2>1. Firsts(ids, 0) = {}
    BY DEF Firsts
  <2>2. SumFunctionOnSet(w, {}) = 0
    <3>1. IsFiniteSet({}) /\ \A x \in {} : w[x] \in Int
      BY FS_EmptySet
    <3> QED
      BY <3>1, SumOfInts
  <2>3. t[0] = m
    BY <1>t DEF ReplayTrace
  <2>v. PICK v \in Int : v = m[f][a]
    OBVIOUS
  <2>4. v = v + 0 /\ 0 \in 0 .. n
    OBVIOUS
  <2>5. t[0][f][a] = m[f][a] + SumFunctionOnSet(w, Firsts(ids, 0))
    BY <2>1, <2>2, <2>3, <2>4, <2>v
  <2> QED
    BY <2>4, <2>5
<1>5. ASSUME NEW k \in 1 .. n, k - 1 \in F PROVE k \in F
  <2>p. PICK p \in 0 .. n : p = k - 1 /\ k \in 0 .. n
    OBVIOUS
  <2>1. t[k] = After(t[p], E[k])
    BY <1>t, <2>p DEF ReplayTrace
  <2>2. t[k][f][a] = t[p][f][a] + w[ids[k]]
    BY <1>v, <2>1 DEF After
  <2>A. PICK A : A = Firsts(ids, p)
    OBVIOUS
  <2>B. PICK B : B = Firsts(ids, k)
    OBVIOUS
  <2>x. PICK x : x = ids[k]
    OBVIOUS
  <2>3. 1 .. k = (1 .. p) \cup {k} /\ k \notin 1 .. p /\ 1 .. p \subseteq 1 .. n
    BY <2>p
  <2>4. B = A \cup {x}
    BY <2>3, <2>A, <2>B, <2>x DEF Firsts
  <2>5. x \notin A
    BY <1>3, <2>3, <2>A, <2>x DEF Firsts
  <2>6. \A y \in A : w[y] \in Int
    BY <1>v, <2>3, <2>A DEF Firsts
  <2>7. IsFiniteSet(A) /\ w[x] \in Int
    BY <1>f, <1>v, <2>A, <2>p, <2>x
  <2>8. SumFunctionOnSet(w, B) = SumFunctionOnSet(w, A) + w[x]
    BY <2>4, <2>5, <2>6, <2>7, SumJoins
  <2>s. PICK s \in Int : s = SumFunctionOnSet(w, A)
    BY <1>z, <2>A, <2>p
  <2>u. PICK u \in Int : u = w[x]
    BY <2>7
  <2>v. PICK v \in Int : v = m[f][a]
    OBVIOUS
  <2>9. t[p][f][a] = v + s
    BY <1>5, <2>A, <2>p, <2>s, <2>v
  <2>10. t[k][f][a] = v + s + u
    BY <2>2, <2>9, <2>s, <2>u, <2>v, <2>x
  <2>11. SumFunctionOnSet(w, B) = s + u
    BY <2>8, <2>s, <2>u
  <2> QED
    BY <2>10, <2>11, <2>B, <2>p, <2>v
<1> HIDE DEF F
<1>6. n \in F
  BY <1>4, <1>5, ApplyFolds!TraceInduction
<1> QED
  BY <1>2, <1>6, <1>t DEF F

-----------------------------------------------------------------------------
(***************************************************************************)
(* What a rewind takes back                                                *)
(***************************************************************************)

\* Each row has its log's event, whether it is live or not.
RowsTell(b) ==
    /\ \A id \in DOMAIN b.events : b.events[id].event = EventOf(id)
    /\ \A id \in DOMAIN b.settlements :
          b.settlements[id].event = EventOf(id) /\ EventOf(id).kind = "winning_ticket_redeemed"

\* Books in order have the shape that the lemmas about moves need.
LEMMA OrderHasShape ==
    ASSUME NEW b, NEW D, InOrder(b, D)
    PROVE  LedgerShape(b)
BY DEF InOrder, BooksType, LedgerShape

\* Reversing settlements takes back what they moved.
LEMMA SettlementsTake ==
    ASSUME NEW b, InOrder(b, Followed), RowsTell(b), NEW S \in SUBSET Live(b.settlements),
           NEW r, r = FoldSet(ReverseSettlement, b, S),
           NEW f \in Followed, NEW a \in Accounts, NEW w, w = Weight(f, a),
           NEW v \in Int, v = b.ledger[f][a]
    PROVE  /\ r.ledger[f][a] = v - SumFunctionOnSet(w, S)
           /\ \A x \in S : w[x] \in Int
<1>1. IsFiniteSet(S)
  BY LiveIsFinite, FS_Subset DEF InOrder, BooksType
<1>2. SettlementFolds!IsFiniteSet(S)
  BY <1>1 DEF IsFiniteSet, SettlementFolds!IsFiniteSet
<1> PICK t : SettlementFolds!SetTrace(t, b, S) /\ t[S] = FoldSet(ReverseSettlement, b, S)
  BY <1>1, SettlementFoldTrace
<1>3. /\ t[{}] = b /\ t[S] = FoldSet(ReverseSettlement, b, S)
      /\ \A T \in SUBSET S : T # {} => \E x \in T : t[T] = ReverseSettlement(x, t[T \ {x}])
  BY DEF SettlementFolds!SetTrace
<1>e. \A x \in S : /\ b.settlements[x].event = EventOf(x) /\ EventOf(x) \in Events
                   /\ EventOf(x).kind = "winning_ticket_redeemed" /\ x \in Ids
                   /\ w[x] \in Int /\ w[x] = EffectOf(EventOf(x))[f][a]
  <2> TAKE x \in S
  <2>t. PICK u : u = b.settlements /\ Table(u) /\ x \in DOMAIN u
    BY LiveIsFinite DEF InOrder, BooksType
  <2>1. u[x].event \in Events /\ u[x].event.id = x
    BY <2>t, LiveIsFinite DEF Table
  <2>2. u[x].event = EventOf(x) /\ EventOf(x).kind = "winning_ticket_redeemed"
    BY <2>t DEF RowsTell
  <2>3. x \in Ids
    BY <2>1 DEF Events
  <2>4. EffectOf(EventOf(x))[f][a] \in Int
    BY <2>1, <2>2, EffectIsInt
  <2> QED
    BY <2>1, <2>2, <2>3, <2>4, <2>t DEF Weight
<1>z. \A T \in SUBSET S : IsFiniteSet(T) /\ SumFunctionOnSet(w, T) \in Int
  <2> TAKE T \in SUBSET S
  <2>1. IsFiniteSet(T) /\ \A x \in T : w[x] \in Int
    BY <1>1, <1>e, FS_Subset
  <2> QED
    BY <2>1, SumOfInts
<1> DEFINE F == {T \in SUBSET S : /\ SettlementsReversed(b, T, t[T])
                                  /\ t[T].ledger[f][a] = v - SumFunctionOnSet(w, T)}
<1>4. {} \in F
  <2>1. SettlementsReversed(b, {}, t[{}])
    BY <1>3 DEF SettlementsReversed, OrphanedAll
  <2>2. SumFunctionOnSet(w, {}) = 0
    <3>1. IsFiniteSet({}) /\ \A x \in {} : w[x] \in Int
      BY FS_EmptySet
    <3> QED
      BY <3>1, SumOfInts
  <2>3. t[{}].ledger[f][a] = v - SumFunctionOnSet(w, {})
    BY <1>3, <2>2
  <2> QED
    BY <2>1, <2>3
<1>5. ASSUME NEW T \in SUBSET S, T # {}, \A x \in T : T \ {x} \in F
      PROVE  T \in F
  <2>1. PICK x \in T : t[T] = ReverseSettlement(x, t[T \ {x}])
    BY <1>3, <1>5
  <2> PICK U : U = T \ {x}
    OBVIOUS
  <2> PICK c : c = t[U]
    OBVIOUS
  <2> PICK d : d = t[T]
    OBVIOUS
  <2>2. SettlementsReversed(b, U, c) /\ d = ReverseSettlement(x, c) /\ T = U \cup {x} /\ x \notin U
        /\ c.ledger[f][a] = v - SumFunctionOnSet(w, U) /\ U \in SUBSET S
    BY <1>5, <2>1
  <2>3. x \in Live(c.settlements) /\ InOrder(c, Followed)
    BY <2>2 DEF SettlementsReversed, OrphanedAll
  <2>4. /\ InOrder(d, Followed)
        /\ d.settlements = Orphaned(c.settlements, x) /\ d.events = c.events
        /\ c.ok => d.ok
    BY <2>2, <2>3, ReverseSettlementKeepsOrder
  <2>5. x \in DOMAIN c.settlements /\ Table(c.settlements)
    BY <2>3, LiveIsFinite DEF InOrder, BooksType
  <2>6. OrphanedTo(c.settlements, x, d.settlements)
    BY <2>4, <2>5, OrphanedIsTable
  <2>7. OrphanedAll(b.settlements, T, d.settlements)
    BY <2>2, <2>5, <2>6, OneMoreOrphaned DEF SettlementsReversed
  <2>8. SettlementsReversed(b, T, d)
    BY <2>2, <2>4, <2>7 DEF SettlementsReversed
  <2>e. PICK e \in Events : e = c.settlements[x].event /\ e = EventOf(x)
    <3>1. x \in DOMAIN b.settlements
      BY <2>2, <2>5 DEF SettlementsReversed, OrphanedAll
    <3>2. c.settlements[x].event = b.settlements[x].event
      BY <2>2, <3>1 DEF SettlementsReversed, OrphanedAll
    <3> QED
      BY <1>e, <3>2
  <2>9. Shifts(c, d, Opposite(EffectOf(e)))
    <3>1. LedgerShape(c) /\ e.kind = "winning_ticket_redeemed"
      BY <1>e, <2>3, <2>e, OrderHasShape
    <3> QED
      BY <2>2, <2>e, <3>1, ReverseSettlementShifts
  <2>s. PICK s \in Int : s = SumFunctionOnSet(w, U)
    BY <1>z, <2>2
  <2>u. PICK u \in Int : u = w[x]
    BY <1>e
  <2>10. d.ledger[f][a] = (v - s) + (0 - u)
    <3>1. d.ledger[f][a] = c.ledger[f][a] + Opposite(EffectOf(e))[f][a]
      BY <2>9 DEF Shifts
    <3>2. Opposite(EffectOf(e))[f][a] = 0 - EffectOf(e)[f][a]
      BY DEF Opposite
    <3>3. EffectOf(e)[f][a] = u
      BY <1>e, <2>e, <2>u
    <3> QED
      BY <2>2, <2>s, <3>1, <3>2, <3>3
  <2>11. SumFunctionOnSet(w, T) = s + u
    <3>2. IsFiniteSet(U) /\ \A y \in U : w[y] \in Int
      BY <1>e, <1>z, <2>2
    <3>3. x \notin U /\ w[x] \in Int /\ T = U \cup {x}
      BY <1>e, <2>2
    <3>1. SumFunctionOnSet(w, T) = SumFunctionOnSet(w, U) + w[x]
      BY <3>2, <3>3, SumJoins
    <3> QED
      BY <2>s, <2>u, <3>1
  <2>12. d.ledger[f][a] = v - SumFunctionOnSet(w, T)
    BY <2>10, <2>11, <2>s, <2>u
  <2> QED
    BY <2>8, <2>12
<1> HIDE DEF F
<1>6. S \in F
  BY <1>2, <1>4, <1>5, SettlementFolds!FiniteInduction
<1> QED
  BY <1>3, <1>6, <1>e DEF F

\* Reversing events takes back what they moved, but for the redemptions, whose
\* settlements are reversed already.
LEMMA EventsTake ==
    ASSUME NEW b, InOrder(b, Followed), RowsTell(b), NEW S \in SUBSET Live(b.events),
           NEW r, r = FoldSet(ReverseEvent, b, S),
           NEW f \in Followed, NEW a \in Accounts, NEW w, w = Weight(f, a),
           NEW R, IsFiniteSet(R), \A x \in R : w[x] \in Int,
           \A x \in S : x \in R <=> EventOf(x).kind = "winning_ticket_redeemed",
           NEW v \in Int, b.ledger[f][a] = v - SumFunctionOnSet(w, R)
    PROVE  r.ledger[f][a] = v - SumFunctionOnSet(w, R \cup S)
<1>1. IsFiniteSet(S)
  BY LiveIsFinite, FS_Subset DEF InOrder, BooksType
<1>2. EventFolds!IsFiniteSet(S)
  BY <1>1 DEF IsFiniteSet, EventFolds!IsFiniteSet
<1> PICK t : EventFolds!SetTrace(t, b, S) /\ t[S] = FoldSet(ReverseEvent, b, S)
  BY <1>1, EventFoldTrace
<1>3. /\ t[{}] = b /\ t[S] = FoldSet(ReverseEvent, b, S)
      /\ \A T \in SUBSET S : T # {} => \E x \in T : t[T] = ReverseEvent(x, t[T \ {x}])
  BY DEF EventFolds!SetTrace
<1>e. \A x \in S : /\ b.events[x].event = EventOf(x) /\ EventOf(x) \in Events /\ x \in Ids
                   /\ w[x] \in Int /\ w[x] = EffectOf(EventOf(x))[f][a]
  <2> TAKE x \in S
  <2>t. PICK u : u = b.events /\ Table(u) /\ x \in DOMAIN u
    BY LiveIsFinite DEF InOrder, BooksType
  <2>1. u[x].event \in Events /\ u[x].event.id = x
    BY <2>t, LiveIsFinite DEF Table
  <2>2. u[x].event = EventOf(x)
    BY <2>t DEF RowsTell
  <2>3. x \in Ids
    BY <2>1 DEF Events
  <2>4. EffectOf(EventOf(x))[f][a] \in Int
    BY <2>1, <2>2, EffectIsInt
  <2> QED
    BY <2>1, <2>2, <2>3, <2>4, <2>t DEF Weight
<1>z. \A T \in SUBSET S : /\ IsFiniteSet(R \cup T) /\ SumFunctionOnSet(w, R \cup T) \in Int
                          /\ \A x \in R \cup T : w[x] \in Int
  <2> TAKE T \in SUBSET S
  <2>1. IsFiniteSet(R \cup T) /\ \A x \in R \cup T : w[x] \in Int
    BY <1>1, <1>e, FS_Subset, FS_Union
  <2> QED
    BY <2>1, SumOfInts
<1> DEFINE F == {T \in SUBSET S : /\ EventsReversed(b, T, t[T])
                                  /\ t[T].ledger[f][a] = v - SumFunctionOnSet(w, R \cup T)}
<1>4. {} \in F
  <2>1. EventsReversed(b, {}, t[{}])
    BY <1>3 DEF EventsReversed, OrphanedAll
  <2>2. R \cup {} = R
    OBVIOUS
  <2>3. t[{}].ledger[f][a] = v - SumFunctionOnSet(w, R \cup {})
    BY <1>3, <2>2
  <2> QED
    BY <2>1, <2>3
<1>5. ASSUME NEW T \in SUBSET S, T # {}, \A x \in T : T \ {x} \in F
      PROVE  T \in F
  <2>1. PICK x \in T : t[T] = ReverseEvent(x, t[T \ {x}])
    BY <1>3, <1>5
  <2> PICK U : U = T \ {x}
    OBVIOUS
  <2> PICK c : c = t[U]
    OBVIOUS
  <2> PICK d : d = t[T]
    OBVIOUS
  <2>2. EventsReversed(b, U, c) /\ d = ReverseEvent(x, c) /\ T = U \cup {x} /\ x \notin U
        /\ c.ledger[f][a] = v - SumFunctionOnSet(w, R \cup U) /\ U \in SUBSET S
    BY <1>5, <2>1
  <2>3. x \in Live(c.events) /\ InOrder(c, Followed)
    BY <2>2 DEF EventsReversed, OrphanedAll
  <2>4. /\ InOrder(d, Followed)
        /\ d.events = Orphaned(c.events, x) /\ d.settlements = c.settlements
        /\ c.ok => d.ok
    BY <2>2, <2>3, ReverseEventKeepsOrder
  <2>5. x \in DOMAIN c.events /\ Table(c.events)
    BY <2>3, LiveIsFinite DEF InOrder, BooksType
  <2>6. OrphanedTo(c.events, x, d.events)
    BY <2>4, <2>5, OrphanedIsTable
  <2>7. OrphanedAll(b.events, T, d.events)
    BY <2>2, <2>5, <2>6, OneMoreOrphaned DEF EventsReversed
  <2>8. EventsReversed(b, T, d)
    BY <2>2, <2>4, <2>7 DEF EventsReversed
  <2>e. PICK e \in Events : e = c.events[x].event /\ e = EventOf(x)
    <3>1. x \in DOMAIN b.events
      BY <2>2, <2>5 DEF EventsReversed, OrphanedAll
    <3>2. c.events[x].event = b.events[x].event
      BY <2>2, <3>1 DEF EventsReversed, OrphanedAll
    <3> QED
      BY <1>e, <3>2
  <2>9. /\ e.kind # "winning_ticket_redeemed" => Shifts(c, d, Opposite(EffectOf(e)))
        /\ e.kind = "winning_ticket_redeemed" => d.ledger = c.ledger
    <3>1. LedgerShape(c)
      BY <2>3, OrderHasShape
    <3> QED
      BY <2>2, <2>e, <3>1, ReverseEventShifts
  <2>A. PICK A : A = R \cup U
    OBVIOUS
  <2>B. PICK B : B = R \cup T
    OBVIOUS
  <2>s. PICK s \in Int : s = SumFunctionOnSet(w, A)
    BY <1>z, <2>2, <2>A
  <2>u. PICK u \in Int : u = w[x]
    BY <1>e
  <2>12. d.ledger[f][a] = v - SumFunctionOnSet(w, B)
    <3>1. CASE e.kind = "winning_ticket_redeemed"
      <4>1. B = A
        BY <2>2, <2>A, <2>B, <2>e, <3>1
      <4> QED
        BY <2>2, <2>9, <2>A, <3>1, <4>1
    <3>2. CASE e.kind # "winning_ticket_redeemed"
      <4>1. x \notin A /\ B = A \cup {x}
        BY <2>2, <2>A, <2>B, <2>e, <3>2
      <4>2. d.ledger[f][a] = (v - s) + (0 - u)
        <5>1. d.ledger[f][a] = c.ledger[f][a] + Opposite(EffectOf(e))[f][a]
          BY <2>9, <3>2 DEF Shifts
        <5>2. Opposite(EffectOf(e))[f][a] = 0 - EffectOf(e)[f][a]
          BY DEF Opposite
        <5>3. EffectOf(e)[f][a] = u
          BY <1>e, <2>e, <2>u
        <5> QED
          BY <2>2, <2>A, <2>s, <5>1, <5>2, <5>3
      <4>3. SumFunctionOnSet(w, B) = s + u
        <5>2. IsFiniteSet(A) /\ \A y \in A : w[y] \in Int
          BY <1>z, <2>2, <2>A
        <5>3. w[x] \in Int
          BY <1>e
        <5>1. SumFunctionOnSet(w, B) = SumFunctionOnSet(w, A) + w[x]
          BY <4>1, <5>2, <5>3, SumJoins
        <5> QED
          BY <2>s, <2>u, <5>1
      <4> QED
        BY <4>2, <4>3, <2>s, <2>u
    <3> QED
      BY <3>1, <3>2
  <2> QED
    BY <2>8, <2>12, <2>B
<1> HIDE DEF F
<1>6. S \in F
  BY <1>2, <1>4, <1>5, EventFolds!FiniteInduction
<1> QED
  BY <1>3, <1>6 DEF F

Followers(b, S) == Live(b.events) = S /\ Live(b.settlements) = RedemptionsOf(S)

\* The balances are those of the contract but for what was there before.
Owes(b, base, m) ==
    \A f \in Followed : \A a \in Escrowed :
        b.ledger[f][a] \in Int /\ base[f][a] \in Int /\ b.ledger[f][a] + base[f][a] = m[f][a]

\* Orphaned rows keep their event.
LEMMA OrphanedTell ==
    ASSUME NEW t, NEW S, NEW u, OrphanedAll(t, S, u), NEW id \in DOMAIN u
    PROVE  id \in DOMAIN t /\ u[id].event = t[id].event
BY DEF OrphanedAll

\* The logs on a branch since a block have events of their own, and are finitely many.
LEMMA SinceAreLogs ==
    ASSUME NEW h \in Hashes, NEW g \in Hashes, On(g, h)
    PROVE  /\ \A id \in Since(h, g) : /\ id \in Ids /\ ForLog(EventOf(id), id)
                                      /\ Len(id.block) \in Len(g) + 1 .. Len(h)
           /\ IsFiniteSet(Since(h, g))
<1>1. Len(h) \in Nat /\ Len(g) \in Nat
  BY HashesAreBranches
<1> PICK first \in Nat \ {0} : first = Len(g) + 1
  BY <1>1
<1> PICK last \in Int : last = Len(h)
  BY <1>1
<1>2. Since(h, g) = IdsWithin(h, first, last)
  BY DEF Since
<1> PICK S : S = IdsWithin(h, first, last)
  OBVIOUS
<1>3. /\ S \subseteq Ids /\ IsFiniteSet(S)
      /\ \A id \in S : /\ Followable(id)
                       /\ Len(id.block) \in first .. last /\ Len(id.block) <= Len(h)
                       /\ id.block = Ancestor(h, Len(id.block))
  BY IdsWithinAre
<1>4. ASSUME NEW id \in S
      PROVE  id \in Ids /\ ForLog(EventOf(id), id)
  <2>1. PICK n \in first .. Lesser(last, Len(h)) : id \in IdsOf(Ancestor(h, n))
    BY <1>4 DEF IdsWithin
  <2>2. n \in 0 .. Len(h)
    BY <1>1 DEF Lesser
  <2> PICK d : d = Ancestor(h, n)
    OBVIOUS
  <2>3. d \in Hashes
    BY <2>2, AncestorIs
  <2>4. id \in IdsOf(d)
    BY <2>1
  <2> QED
    BY <2>3, <2>4, EventOfIs
<1> QED
  BY <1>2, <1>3, <1>4

\* What the rewind to g orphans: all that is on h after g.
LEMMA AboveIsSince ==
    ASSUME NEW h \in Hashes, NEW g \in Hashes, NEW s \in Hashes, On(g, h), On(s, g), On(s, h),
           NEW b, Followers(b, Since(h, s))
    PROVE  /\ Above(b.events, Len(g)) = Since(h, g)
           /\ Above(b.settlements, Len(g)) = RedemptionsOf(Since(h, g))
<1>1. Len(h) \in Nat /\ Len(g) \in Nat /\ Len(s) \in Nat
  BY HashesAreBranches
<1>2. Since(h, s) = Since(g, s) \cup Since(h, g)
  BY SinceJoined
<1>3. \A id \in Since(g, s) : Len(id.block) \in Len(s) + 1 .. Len(g)
  BY SinceAreLogs
<1>4. \A id \in Since(h, g) : Len(id.block) \in Len(g) + 1 .. Len(h)
  BY SinceAreLogs
<1>5. \A id \in Since(h, s) : id \in Since(h, g) <=> Len(id.block) > Len(g)
  BY <1>1, <1>2, <1>3, <1>4
<1> QED
  BY <1>2, <1>5 DEF Followers, Above, RedemptionsOf

\* Books that mirror the contract at h mirror it at g once they are rewound there: what
\* the rewind takes back is what the logs after g moved.
THEOREM RewoundMirrors ==
    ASSUME NEW h \in Hashes, NEW g \in Hashes, NEW s \in Hashes, On(g, h), On(s, g), On(s, h),
           NEW b, InOrder(b, Followed), RowsTell(b), Followers(b, Since(h, s)),
           NEW base, Owes(b, base, AmountsOf(Contract[h])),
           NEW r, r = Rewound(b, Len(g))
    PROVE  RowsTell(r) /\ Owes(r, base, AmountsOf(Contract[g]))
<1> PICK S : S = Since(h, g)
  OBVIOUS
<1> PICK R : R = RedemptionsOf(S)
  OBVIOUS
<1>a. Above(b.events, Len(g)) = S /\ Above(b.settlements, Len(g)) = R
  BY AboveIsSince
<1> PICK c : c = FoldSet(ReverseSettlement, b, R)
  OBVIOUS
<1>1. r = FoldSet(ReverseEvent, c, S)
  BY <1>a DEF Rewound
<1>2. R \in SUBSET Live(b.settlements) /\ S \in SUBSET Live(b.events)
  BY <1>a DEF Above
<1>3. SettlementsReversed(b, R, c)
  BY <1>2, ReverseSettlements
<1>4. InOrder(c, Followed) /\ c.events = b.events /\ OrphanedAll(b.settlements, R, c.settlements)
  BY <1>3 DEF SettlementsReversed
<1>5. RowsTell(c)
  <2>1. \A id \in DOMAIN c.settlements : id \in DOMAIN b.settlements
                                         /\ c.settlements[id].event = b.settlements[id].event
    BY <1>4, OrphanedTell
  <2> QED
    BY <1>4, <2>1 DEF RowsTell
<1>6. S \in SUBSET Live(c.events)
  BY <1>2, <1>4
<1>7. EventsReversed(c, S, r)
  BY <1>1, <1>4, <1>6, ReverseEvents
<1>8. RowsTell(r)
  <2>1. \A id \in DOMAIN r.events : id \in DOMAIN c.events /\ r.events[id].event = c.events[id].event
    BY <1>7, OrphanedTell DEF EventsReversed
  <2>2. r.settlements = c.settlements
    BY <1>7 DEF EventsReversed
  <2> QED
    BY <1>5, <2>1, <2>2 DEF RowsTell
<1>9. /\ \A id \in S : id \in Ids /\ ForLog(EventOf(id), id)
      /\ IsFiniteSet(S)
  BY SinceAreLogs
<1>10. R \in SUBSET S /\ IsFiniteSet(R) /\ R \cup S = S
  BY <1>9, FS_Subset DEF RedemptionsOf
<1>11. \A x \in S : x \in R <=> EventOf(x).kind = "winning_ticket_redeemed"
  BY <1>9 DEF RedemptionsOf, ForLog
<1>12. ASSUME NEW f \in Followed, NEW a \in Escrowed
       PROVE  /\ r.ledger[f][a] \in Int /\ base[f][a] \in Int
              /\ r.ledger[f][a] + base[f][a] = AmountsOf(Contract[g])[f][a]
  <2>1. a \in Accounts
    BY <1>12 DEF Escrowed, Accounts
  <2> PICK w : w = Weight(f, a)
    OBVIOUS
  <2>2. b.ledger[f][a] \in Int /\ base[f][a] \in Int
        /\ b.ledger[f][a] + base[f][a] = AmountsOf(Contract[h])[f][a]
    BY <1>12 DEF Owes
  <2> PICK v \in Int : v = b.ledger[f][a]
    BY <2>2
  <2> PICK u \in Int : u = base[f][a]
    BY <2>2
  <2>3. c.ledger[f][a] = v - SumFunctionOnSet(w, R) /\ \A x \in R : w[x] \in Int
    BY <1>2, <2>1, SettlementsTake
  <2>4. r.ledger[f][a] = v - SumFunctionOnSet(w, R \cup S)
    BY <1>1, <1>4, <1>5, <1>6, <1>10, <1>11, <2>1, <2>3, EventsTake
  <2>5. \A x \in S : w[x] \in Int
    <3> TAKE x \in S
    <3>1. x \in Ids /\ EventOf(x) \in Events
      BY <1>9 DEF ForLog
    <3> QED
      BY <2>1, <3>1, EffectIsInt DEF Weight
  <2> PICK k \in Int : k = SumFunctionOnSet(w, S)
    <3>1. IsFiniteSet(S) /\ \A x \in S : w[x] \in Int
      BY <1>9, <2>5
    <3> QED
      BY <3>1, SumOfInts
  <2>6. r.ledger[f][a] = v - k
    BY <1>10, <2>4
  <2> PICK n \in Nat : n = Len(g)
    BY HashesAreBranches
  <2> PICK l \in Nat : l = Len(h)
    BY HashesAreBranches
  <2> PICK first \in Nat \ {0} : first = n + 1
    OBVIOUS
  <2>l. n <= l /\ g = Ancestor(h, n) /\ first - 1 = n /\ first <= l + 1 /\ l <= Len(h)
    BY DEF On
  <2>d. h = Ancestor(h, l)
    BY AncestorOfItself, HashesAreBranches
  <2> PICK list : list = Logs(h, first, l)
    OBVIOUS
  <2> PICK m : m = AmountsOf(Contract[g])
    OBVIOUS
  <2> PICK q : q = AmountsOf(Contract[h])
    OBVIOUS
  <2>7. Tells(list, m, q)
    <3>1. g = Ancestor(h, first - 1)
      BY <2>l
    <3> QED
      BY <2>l, <2>d, <3>1, LogsTell
  <2>8. Increasing(list)
    BY LogsIncrease
  <2>9. S = ToSet(list)
    <3>1. Lists(list, IdsWithin(h, first, l))
      BY LogsAre
    <3> QED
      BY <3>1 DEF Lists, Since
  <2>10. m[f][a] \in Int
    <3>1. Contract[g] \in Contracts
      BY ContractIs
    <3>2. Contract[g].escrow[f] \in Escrows
      BY <1>12, <3>1, FollowedAreSigners DEF Contracts
    <3> QED
      BY <1>12, <3>2, AmountsAre DEF Escrows, Escrowed, Buckets
  <2>11. q[f][a] = m[f][a] + SumFunctionOnSet(w, S)
    BY <2>7, <2>8, <2>9, <2>10, TellsSums
  <2> PICK z \in Int : z = m[f][a]
    BY <2>10
  <2>12. v + u = z + k
    BY <2>2, <2>11
  <2>t. v \in Int /\ u \in Int /\ z \in Int /\ k \in Int
    OBVIOUS
  <2>13. (v - k) + u = z
    BY ONLY <2>12, <2>t
  <2> QED
    BY <2>6, <2>13
<1> QED
  BY <1>8, <1>12 DEF Owes

-----------------------------------------------------------------------------
(***************************************************************************)
(* Books that mirror the contract: applying a batch                        *)
(***************************************************************************)

\* Nothing was escrowed, or was counted, before.
BaseOf(base) == \A f \in Followed : base[f]["deposit"] = 0 /\ base[f]["reserve"] = 0

Mirrors(b, base, m) == InOrder(b, Followed) /\ b.ok /\ RowsTell(b) /\ Owes(b, base, m)

NotLive(b, id) == id \notin Live(b.events) /\ id \notin Live(b.settlements)

\* A row that is new, or live again, has the event it is applied for.
LEMMA RaisedTells ==
    ASSUME NEW t, NEW e, NEW u, LiveRow(t, e, u), e.id \notin Live(t), NEW id \in DOMAIN u
    PROVE  IF id = e.id THEN u[id].event = e ELSE id \in DOMAIN t /\ u[id] = t[id]
BY DEF LiveRow, RaisedTo

\* What suits the contract suits books that mirror it: ApplyEscrowEvent refuses nothing.
LEMMA EventSuitsBooks ==
    ASSUME NEW b, RowsTell(b), NEW base, BaseOf(base), NEW m, Owes(b, base, m),
           NEW e \in Events, e = EventOf(e.id), Suits(e, m)
    PROVE  EventFits(b, e)
<1>1. e.sender \in Followed /\ "deposit" \in Escrowed /\ "reserve" \in Escrowed
  BY DEF Events, Escrowed, Buckets
<1> PICK f \in Followed : f = e.sender
  BY <1>1
<1>2. b.ledger[f]["deposit"] \in Int /\ b.ledger[f]["deposit"] + base[f]["deposit"] = m[f]["deposit"]
  BY <1>1 DEF Owes
<1>3. b.ledger[f]["reserve"] \in Int /\ b.ledger[f]["reserve"] + base[f]["reserve"] = m[f]["reserve"]
  BY <1>1 DEF Owes
<1>4. base[f]["deposit"] = 0 /\ base[f]["reserve"] = 0
  BY DEF BaseOf
<1>5. b.ledger[f].deposit = m[f]["deposit"] /\ b.ledger[f].reserve = m[f]["reserve"]
  BY <1>2, <1>3, <1>4
<1>6. SameData(b.events, e)
  BY DEF SameData, RowsTell
<1>7. SameData(b.settlements, e)
  BY DEF SameData, RowsTell
<1>8. e.kind = "withdrawal" => ExactBalance(b, e)
  BY <1>5 DEF Suits, ExactBalance
<1>9. e.kind = "winning_ticket_redeemed" => Paid(e) <= e.amount /\ SplitMatches(b, e)
  BY <1>5 DEF Suits, SplitMatches
<1> QED
  BY <1>6, <1>7, <1>8, <1>9 DEF EventFits, SettlementFits

\* Applying the event makes them mirror what it leaves.
LEMMA EventMirrors ==
    ASSUME NEW b, NEW base, BaseOf(base), NEW m, Mirrors(b, base, m),
           NEW e \in Events, e = EventOf(e.id), Suits(e, m), NotLive(b, e.id),
           NEW r, r = ApplyEscrowEvent(b, e), NEW q, q = After(m, e)
    PROVE  /\ Mirrors(r, base, q)
           /\ \A id : NotLive(b, id) /\ id # e.id => NotLive(r, id)
<1>1. InOrder(b, Followed) /\ b.ok /\ RowsTell(b) /\ Owes(b, base, m)
  BY DEF Mirrors
<1>2. EventApplied(b, e, r)
  BY <1>1, ApplyEscrowEventKeepsOrder
<1>3. InOrder(r, Followed) /\ LiveRow(b.events, e, r.events)
      /\ SettledBy(b.settlements, e, r.settlements)
  BY <1>2 DEF EventApplied
<1>4. r.ok
  <2>1. EventFits(b, e)
    BY <1>1, EventSuitsBooks
  <2> QED
    BY <1>1, <1>2, <2>1 DEF EventApplied
<1>5. RowsTell(r)
  <2>1. ASSUME NEW id \in DOMAIN r.events PROVE r.events[id].event = EventOf(id)
    <3>1. IF id = e.id THEN r.events[id].event = e
          ELSE id \in DOMAIN b.events /\ r.events[id] = b.events[id]
      BY <1>3, RaisedTells DEF NotLive
    <3> QED
      BY <1>1, <3>1 DEF RowsTell
  <2>2. ASSUME NEW id \in DOMAIN r.settlements
        PROVE  r.settlements[id].event = EventOf(id) /\ EventOf(id).kind = "winning_ticket_redeemed"
    <3>1. CASE e.kind = "winning_ticket_redeemed"
      <4>1. IF id = e.id THEN r.settlements[id].event = e
            ELSE id \in DOMAIN b.settlements /\ r.settlements[id] = b.settlements[id]
        BY <1>3, <3>1, RaisedTells DEF NotLive, SettledBy
      <4> QED
        BY <1>1, <3>1, <4>1 DEF RowsTell
    <3>2. CASE e.kind # "winning_ticket_redeemed"
      BY <1>1, <1>3, <3>2 DEF RowsTell, SettledBy
    <3> QED
      BY <3>1, <3>2
  <2> QED
    BY <2>1, <2>2 DEF RowsTell
<1>6. Shifts(b, r, EffectOf(e))
  <2>1. LedgerShape(b)
    BY <1>1, OrderHasShape
  <2> QED
    BY <2>1, ApplyShifts DEF NotLive
<1>7. ASSUME NEW f \in Followed, NEW a \in Escrowed
      PROVE  r.ledger[f][a] \in Int /\ base[f][a] \in Int /\ r.ledger[f][a] + base[f][a] = q[f][a]
  <2>1. a \in Accounts
    BY <1>7 DEF Escrowed, Accounts
  <2>2. b.ledger[f][a] \in Int /\ base[f][a] \in Int /\ b.ledger[f][a] + base[f][a] = m[f][a]
    BY <1>1, <1>7 DEF Owes
  <2> PICK v \in Int : v = b.ledger[f][a]
    BY <2>2
  <2> PICK u \in Int : u = base[f][a]
    BY <2>2
  <2> PICK k \in Int : k = EffectOf(e)[f][a]
    BY <2>1, EffectIsInt
  <2>3. r.ledger[f][a] = v + k
    BY <1>6, <1>7, <2>1 DEF Shifts
  <2>4. q[f][a] = m[f][a] + k
    BY <1>7 DEF After
  <2>5. m[f][a] = v + u
    BY <2>2
  <2>t. v \in Int /\ u \in Int /\ k \in Int
    OBVIOUS
  <2>6. (v + k) + u = (v + u) + k
    BY ONLY <2>t
  <2> QED
    BY <2>2, <2>3, <2>4, <2>5, <2>6
<1>8. \A id : NotLive(b, id) /\ id # e.id => NotLive(r, id)
  <2>1. Live(r.events) = Live(b.events) \cup {e.id}
    BY <1>3, LiveRowJoins
  <2>2. Live(r.settlements) \subseteq Live(b.settlements) \cup {e.id}
    <3>1. CASE e.kind = "winning_ticket_redeemed"
      <4>1. LiveRow(b.settlements, e, r.settlements)
        BY <1>3, <3>1 DEF SettledBy
      <4> QED
        BY <4>1, LiveRowJoins
    <3>2. CASE e.kind # "winning_ticket_redeemed"
      BY <1>3, <3>2 DEF SettledBy
    <3> QED
      BY <3>1, <3>2
  <2> QED
    BY <2>1, <2>2 DEF NotLive
<1>9. Owes(r, base, q)
  BY <1>7 DEF Owes
<1> QED
  BY <1>3, <1>4, <1>5, <1>8, <1>9 DEF Mirrors

\* A batch that follows what the books mirror is applied, and they mirror what it leaves.
THEOREM AppliedMirrors ==
    ASSUME NEW b, NEW base, BaseOf(base), NEW m, Mirrors(b, base, m),
           NEW ids, NEW r, Tells(ids, m, r), Increasing(ids),
           \A i \in 1 .. Len(ids) : NotLive(b, ids[i]),
           NEW events, events = Correlated(ids).events,
           NEW c, c = Applied(b, events)
    PROVE  Mirrors(c, base, r)
<1>1. PICK E \in Seq(Events) : /\ Correlated(ids) = Clean(E) /\ Len(E) = Len(ids)
                               /\ \A i \in 1 .. Len(ids) : E[i] = EventOf(ids[i])
                               /\ Replay(m, E, r)
  BY DEF Tells
<1>2. ids \in Seq(Ids) /\ \A i \in 1 .. Len(ids) : Followable(ids[i])
  BY DEF Tells
<1> PICK n \in Nat : n = Len(ids)
  BY <1>2, LenProperties
<1>3. /\ DOMAIN E = 1 .. n /\ Len(E) = n /\ DOMAIN ids = 1 .. n
      /\ \A i \in 1 .. n : E[i] \in Events /\ ids[i] \in Ids
  BY <1>1, <1>2, LenProperties, ElementOfSeq
<1>4. events = E
  BY <1>1 DEF Clean, Awaiting
<1>5. \A i \in 1 .. n : E[i].id = ids[i]
  <2>1. Correlation(Correlated(ids), ids, n)
    BY <1>2, <1>3, CorrelatedIs
  <2>2. \A i \in 1 .. n : ForLog(events[i], ids[i])
    BY <2>1 DEF Correlation
  <2> QED
    BY <1>4, <2>2 DEF ForLog
<1>6. PICK u : ReplayTrace(u, m, E, n) /\ u[n] = r
  BY <1>1, <1>3 DEF Replay
<1>7. u[0] = m /\ \A i \in 1 .. n : u[i] = After(u[i - 1], E[i]) /\ Suits(E[i], u[i - 1])
  BY <1>6 DEF ReplayTrace
<1>8. PICK t : ApplyFolds!Trace(t, b, n, E) /\ t[n] = c
  BY <1>3, <1>4, ApplyFoldTrace DEF Applied
<1>9. t[0] = b /\ \A i \in 1 .. n : t[i] = ApplyEscrowEvent(t[i - 1], E[i])
  BY <1>8 DEF ApplyFolds!Trace
<1>10. \A i, j \in 1 .. n : ids[i] = ids[j] => i = j
  BY <1>2, IncreasingOnce
<1> DEFINE F == {i \in 0 .. n : /\ Mirrors(t[i], base, u[i])
                                /\ \A j \in i + 1 .. n : NotLive(t[i], ids[j])}
<1>11. 0 \in F
  <2>1. \A j \in 0 + 1 .. n : NotLive(t[0], ids[j])
    BY <1>9
  <2>2. Mirrors(t[0], base, u[0])
    BY <1>7, <1>9
  <2>3. 0 \in 0 .. n
    OBVIOUS
  <2> QED
    BY <2>1, <2>2, <2>3
<1>12. ASSUME NEW i \in 1 .. n, i - 1 \in F PROVE i \in F
  <2> PICK k \in Int : k = i - 1
    OBVIOUS
  <2> PICK x : x = t[k]
    OBVIOUS
  <2> PICK y : y = t[i]
    OBVIOUS
  <2> PICK p : p = u[k]
    OBVIOUS
  <2> PICK q : q = u[i]
    OBVIOUS
  <2>e. PICK e \in Events : e = E[i]
    BY <1>3
  <2>1. e = EventOf(e.id) /\ e.id = ids[i]
    BY <1>1, <1>5, <2>e
  <2>2. Suits(e, p) /\ q = After(p, e)
    BY <1>7, <2>e
  <2>3. Mirrors(x, base, p) /\ \A j \in k + 1 .. n : NotLive(x, ids[j])
    BY <1>12
  <2>4. NotLive(x, e.id)
    BY <2>1, <2>3
  <2>5. y = ApplyEscrowEvent(x, e)
    BY <1>9, <2>e
  <2>6. /\ Mirrors(y, base, q)
        /\ \A id : NotLive(x, id) /\ id # e.id => NotLive(y, id)
    BY <2>1, <2>2, <2>3, <2>4, <2>5, EventMirrors
  <2>7. \A j \in i + 1 .. n : NotLive(y, ids[j])
    <3> TAKE j \in i + 1 .. n
    <3>1. ids[j] # e.id
      BY <1>10, <2>1
    <3>2. j \in k + 1 .. n
      OBVIOUS
    <3> QED
      BY <2>3, <2>6, <3>1, <3>2
  <2> QED
    BY <2>6, <2>7
<1> HIDE DEF F
<1>13. n \in F
  BY <1>11, <1>12, ApplyFolds!TraceInduction
<1> QED
  BY <1>6, <1>8, <1>13 DEF F

-----------------------------------------------------------------------------
(***************************************************************************)
(* Books that mirror the contract: the opening snapshot                    *)
(***************************************************************************)

\* What the contract's redemptions had paid at the snapshot.
Base(c) == [f \in Followed |-> [a \in Escrowed |-> IF a = "spend" THEN c.escrow[f].paid ELSE 0]]

\* What an opened sender's accounts hold.
Holding(c) ==
    [f \in Followed |-> [a \in Escrowed |-> IF a = "deposit" THEN c.escrow[f].deposit
                                            ELSE IF a = "reserve" THEN c.escrow[f].reserve ELSE 0]]

\* The senders in D hold what the contract says, the others nothing.
Filled(b, c, D) ==
    /\ LedgerShape(b)
    /\ \A f \in Followed : \A a \in Escrowed :
          b.ledger[f][a] = IF f \in D THEN Holding(c)[f][a] ELSE 0

\* Before the first sender.
LEMMA EmptyIsFilled == \A c : Filled(EmptyBooks, c, {})
BY DEF Filled, LedgerShape, EmptyBooks, Escrowed, Accounts

\* One sender more.
LEMMA OpenedFills ==
    ASSUME NEW c \in Contracts, NEW b, NEW D \in SUBSET Followed, Filled(b, c, D),
           NEW split, split.sender \in Followed \ D,
           split.deposit = c.escrow[split.sender].deposit,
           split.reserve = c.escrow[split.sender].reserve,
           NEW r, r = Opened(b, split), NEW E, E = D \cup {split.sender}
    PROVE  Filled(r, c, E)
<1> PICK m : m = [b EXCEPT !.summary.unfunded = [x \in Buckets |-> @[x] + 1]]
  OBVIOUS
<1>1. LedgerShape(m) /\ m.ledger = b.ledger
  BY DEF Filled, LedgerShape
<1>2. r = ToEscrow(m, Key("snapshot", split.sender, 0), split, "cash")
  BY DEF Opened
<1> PICK key : key = Key("snapshot", split.sender, 0)
  OBVIOUS
<1> PICK account \in {"cash", "spend"} : account = "cash"
  OBVIOUS
<1> PICK f \in Followed \ D : f = split.sender
  OBVIOUS
<1> PICK e \in Escrows : e = c.escrow[f]
  <2>1. f \in Signers
    BY FollowedAreSigners
  <2> QED
    BY <2>1 DEF Contracts
<1>3. e.deposit \in Int /\ e.reserve \in Int /\ split.deposit = e.deposit /\ split.reserve = e.reserve
  BY DEF Escrows
<1>4. split.sender \in Followed /\ split.deposit \in Int /\ split.reserve \in Int
  BY <1>3
<1>5. LedgerShape(r) /\ Shifts(m, r, Opposite(DrawnOf(split, account)))
  <2>1. r = ToEscrow(m, key, split, account)
    BY <1>2
  <2> QED
    BY <1>1, <1>4, <2>1, EscrowShifts
<1>6. ASSUME NEW g \in Followed, NEW a \in Escrowed
      PROVE  r.ledger[g][a] = IF g \in E THEN Holding(c)[g][a] ELSE 0
  <2>1. a \in Accounts /\ a # "cash" /\ a \in {"deposit", "reserve", "spend"}
    BY <1>6 DEF Escrowed, Accounts, Buckets
  <2>2. r.ledger[g][a] = m.ledger[g][a] + Opposite(DrawnOf(split, account))[g][a]
    BY <1>5, <1>6, <2>1 DEF Shifts
  <2>3. Opposite(DrawnOf(split, account))[g][a] = 0 - DrawnOf(split, account)[g][a]
    BY <1>6, <2>1 DEF Opposite
  <2>4. m.ledger[g][a] = IF g \in D THEN Holding(c)[g][a] ELSE 0
    BY <1>1, <1>6 DEF Filled
  <2>5. m.ledger[g][a] \in Int
    BY <1>1, <1>6, <2>1 DEF LedgerShape
  <2> PICK v \in Int : v = m.ledger[g][a]
    BY <2>5
  <2>6. CASE g # f
    <3>1. DrawnOf(split, account)[g][a] = 0
      BY <1>6, <2>1, <2>6 DEF DrawnOf
    <3>2. r.ledger[g][a] = v + (0 - 0)
      BY <2>2, <2>3, <3>1
    <3>3. g \in E <=> g \in D
      BY <2>6
    <3> QED
      BY <2>4, <3>2, <3>3
  <2>7. CASE g = f
    <3>h. Holding(c)[g][a] = IF a = "deposit" THEN e.deposit ELSE IF a = "reserve" THEN e.reserve ELSE 0
      <4>1. c.escrow[g] = e
        BY <2>7
      <4> QED
        BY <1>6, <4>1 DEF Holding
    <3> PICK h \in Int : h = Holding(c)[g][a]
      BY <1>3, <3>h
    <3>1. DrawnOf(split, account)[g][a] = 0 - h
      <4>1. h = IF a = "deposit" THEN e.deposit ELSE IF a = "reserve" THEN e.reserve ELSE 0
        BY <3>h
      <4>2. DrawnOf(split, account)[g][a] =
               IF a = "deposit" THEN 0 - e.deposit ELSE IF a = "reserve" THEN 0 - e.reserve ELSE 0
        BY <1>3, <1>6, <2>1, <2>7 DEF DrawnOf
      <4> QED
        BY <1>3, <4>1, <4>2
    <3>2. v = 0
      BY <2>4, <2>7
    <3>3. r.ledger[g][a] = 0 + (0 - (0 - h))
      BY <2>2, <2>3, <3>1, <3>2
    <3>4. g \in E
      BY <2>7
    <3> QED
      BY <3>3, <3>4
  <2> QED
    BY <2>6, <2>7
<1> QED
  BY <1>5, <1>6 DEF Filled

\* All of them: the books mirror the contract at the snapshot.
LEMMA FilledMirrors ==
    ASSUME NEW c \in Contracts, NEW b, Filled(b, c, Followed), OpenedOf(b, Followed)
    PROVE  Mirrors(b, Base(c), AmountsOf(c))
<1>1. InOrder(b, Followed) /\ b.ok
  BY DEF OpenedOf
<1>2. RowsTell(b)
  BY DEF OpenedOf, EmptyBooks, RowsTell
<1>3. ASSUME NEW f \in Followed, NEW a \in Escrowed
      PROVE  /\ b.ledger[f][a] \in Int /\ Base(c)[f][a] \in Int
             /\ b.ledger[f][a] + Base(c)[f][a] = AmountsOf(c)[f][a]
  <2>1. a \in {"deposit", "reserve", "spend"}
    BY <1>3 DEF Escrowed, Buckets
  <2>2. b.ledger[f][a] = Holding(c)[f][a]
    BY <1>3 DEF Filled
  <2> PICK e \in Escrows : e = c.escrow[f]
    <3>1. f \in Signers
      BY FollowedAreSigners
    <3> QED
      BY <3>1 DEF Contracts
  <2>3. e.deposit \in Int /\ e.reserve \in Int /\ e.paid \in Int
    BY DEF Escrows
  <2>4. Holding(c)[f][a] = IF a = "deposit" THEN e.deposit ELSE IF a = "reserve" THEN e.reserve ELSE 0
    BY <1>3 DEF Holding
  <2>5. Base(c)[f][a] = IF a = "spend" THEN e.paid ELSE 0
    BY <1>3 DEF Base
  <2>6. AmountsOf(c)[f][a] = IF a = "deposit" THEN e.deposit ELSE IF a = "reserve" THEN e.reserve ELSE e.paid
    BY <1>3 DEF AmountsOf
  <2> QED
    BY <2>1, <2>2, <2>3, <2>4, <2>5, <2>6
<1>4. Owes(b, Base(c), AmountsOf(c))
  BY <1>3 DEF Owes
<1> QED
  BY <1>1, <1>2, <1>4 DEF Mirrors

\* A base of the contract is one for the lemmas above.
LEMMA BaseIsBase == \A c : BaseOf(Base(c))
BY DEF BaseOf, Base, Escrowed, Buckets

\* What the books mirror, said of the accounts.
LEMMA MirroredAmounts ==
    ASSUME NEW c \in Contracts, NEW d \in Contracts, NEW b, Owes(b, Base(c), AmountsOf(d)),
           NEW f \in Followed
    PROVE  /\ b.ledger[f].deposit = d.escrow[f].deposit
           /\ b.ledger[f].reserve = d.escrow[f].reserve
           /\ b.ledger[f].spend = d.escrow[f].paid - c.escrow[f].paid
<1>1. "deposit" \in Escrowed /\ "reserve" \in Escrowed /\ "spend" \in Escrowed
  BY DEF Escrowed, Buckets
<1>2. Base(c)[f]["deposit"] = 0 /\ Base(c)[f]["reserve"] = 0 /\ Base(c)[f]["spend"] = c.escrow[f].paid
  BY <1>1 DEF Base
<1>3. f \in Signers
  BY FollowedAreSigners
<1> PICK e \in Escrows : e = d.escrow[f]
  BY <1>3 DEF Contracts
<1> PICK g \in Escrows : g = c.escrow[f]
  BY <1>3 DEF Contracts
<1>4. e.deposit \in Nat /\ e.reserve \in Nat /\ e.paid \in Nat /\ g.paid \in Nat
  BY DEF Escrows
<1>5. /\ AmountsOf(d)[f]["deposit"] = e.deposit
      /\ AmountsOf(d)[f]["reserve"] = e.reserve
      /\ AmountsOf(d)[f]["spend"] = e.paid
  BY AmountsAre
<1>6. \A a \in Escrowed : b.ledger[f][a] \in Int /\ b.ledger[f][a] + Base(c)[f][a] = AmountsOf(d)[f][a]
  BY DEF Owes
<1>7. b.ledger[f]["deposit"] \in Int /\ b.ledger[f]["deposit"] + 0 = e.deposit
  BY <1>1, <1>2, <1>5, <1>6
<1>8. b.ledger[f]["reserve"] \in Int /\ b.ledger[f]["reserve"] + 0 = e.reserve
  BY <1>1, <1>2, <1>5, <1>6
<1>9. b.ledger[f]["spend"] \in Int /\ b.ledger[f]["spend"] + g.paid = e.paid
  BY <1>1, <1>2, <1>5, <1>6
<1> PICK p \in Int : p = b.ledger[f]["spend"]
  BY <1>9
<1>10. b.ledger[f]["spend"] = e.paid - g.paid
  BY <1>4, <1>9
<1> QED
  BY <1>4, <1>7, <1>8, <1>10
=============================================================================
