---------------------------- MODULE EscrowProofs ----------------------------
(***************************************************************************)
(* The books, and the logs they are made of, for any signers, payloads and *)
(* branches.                                                               *)
(*                                                                         *)
(* Each statement of a transaction keeps the books in order, that is, the  *)
(* summaries add up to the rows and balances and every key belongs to a    *)
(* generation that a row has reached, so that the key of the next          *)
(* generation is new.                                                      *)
(*                                                                         *)
(* In whatever order the node lists the logs of a stretch of a branch,     *)
(* they come to be in the order of the branch, each once.                  *)
(***************************************************************************)
EXTENDS EscrowLedger, FiniteSetTheorems, SequenceTheorems, TLAPS

-----------------------------------------------------------------------------
(***************************************************************************)
(* Sums and counts                                                         *)
(***************************************************************************)
Sums == INSTANCE FoldProofs WITH op <- +

\* The sum a summary takes is the fold the lemmas on folds are about.
LEMMA SumsAreFolds ==
    ASSUME NEW f, NEW S
    PROVE  Sums!Sum(0, f, S) = SumFunctionOnSet(f, S)
BY DEF Sums!Sum, SumFunctionOnSet, FoldFunctionOnSet, MapThenFoldSet,
       Sums!FoldFunctionOnSet, Sums!MapThenFoldSet

\* A sum of integers, and what each element adds to it.
LEMMA SumOfInts ==
    ASSUME NEW S, IsFiniteSet(S), NEW f, \A x \in S : f[x] \in Int
    PROVE  /\ SumFunctionOnSet(f, S) \in Int
           /\ SumFunctionOnSet(f, {}) = 0
           /\ \A x \in S : SumFunctionOnSet(f, S) = f[x] + SumFunctionOnSet(f, S \ {x})
<1>1. Sums!Commutes(Int) /\ 0 \in Int
  BY DEF Sums!Commutes
<1>2. Sums!IsFiniteSet(S)
  BY DEF IsFiniteSet, Sums!IsFiniteSet
<1>3. Sums!Sum(0, f, {}) = 0
  BY <1>1, Sums!SumEmpty
<1>4. /\ Sums!Sum(0, f, S) \in Int
      /\ \A x \in S : Sums!Sum(0, f, S) = f[x] + Sums!Sum(0, f, S \ {x})
  BY <1>1, <1>2, Sums!SumWithout
<1> QED
  BY <1>3, <1>4, SumsAreFolds

\* A sum depends on the summands alone.
LEMMA SumOfSame ==
    ASSUME NEW S, IsFiniteSet(S), NEW f, NEW g,
           \A x \in S : f[x] \in Int /\ f[x] = g[x]
    PROVE  SumFunctionOnSet(f, S) = SumFunctionOnSet(g, S)
<1>1. Sums!Commutes(Int) /\ 0 \in Int
  BY DEF Sums!Commutes
<1>2. Sums!IsFiniteSet(S)
  BY DEF IsFiniteSet, Sums!IsFiniteSet
<1>3. (\A x \in S : f[x] \in Int) /\ (\A x \in S : f[x] = g[x])
  OBVIOUS
<1>4. Sums!Sum(0, f, S) = Sums!Sum(0, g, S)
  BY <1>1, <1>2, <1>3, Sums!SumSame
<1> QED
  BY <1>4, SumsAreFolds

\* One more element, and its summand.
LEMMA SumJoins ==
    ASSUME NEW S, IsFiniteSet(S), NEW x, x \notin S, NEW f, NEW g, g[x] \in Int,
           \A y \in S : f[y] \in Int /\ f[y] = g[y], NEW T, T = S \cup {x}
    PROVE  SumFunctionOnSet(g, T) = SumFunctionOnSet(f, S) + g[x]
<1>1. IsFiniteSet(T) /\ x \in T /\ T \ {x} = S /\ \A y \in T : g[y] \in Int
  BY FS_AddElement
<1>2. SumFunctionOnSet(g, T) = g[x] + SumFunctionOnSet(g, T \ {x})
  BY <1>1, SumOfInts
<1>3. SumFunctionOnSet(g, S) = SumFunctionOnSet(f, S) /\ SumFunctionOnSet(f, S) \in Int
  BY SumOfInts, SumOfSame
<1> PICK r \in Int : r = SumFunctionOnSet(f, S)
  BY <1>3
<1>4. SumFunctionOnSet(g, T) = g[x] + r
  BY <1>1, <1>2, <1>3
<1> QED
  BY <1>4

\* One summand changes.
LEMMA SumMoves ==
    ASSUME NEW S, IsFiniteSet(S), NEW f, NEW g, \A y \in S : f[y] \in Int /\ g[y] \in Int,
           NEW x \in S, \A y \in S \ {x} : f[y] = g[y]
    PROVE  SumFunctionOnSet(g, S) = SumFunctionOnSet(f, S) + (g[x] - f[x])
<1> DEFINE R == S \ {x}
           r == SumFunctionOnSet(f, R)
           s == SumFunctionOnSet(f, S)
           t == SumFunctionOnSet(g, S)
<1>1. IsFiniteSet(R)
  BY FS_Subset
<1>2. r \in Int /\ r = SumFunctionOnSet(g, R)
  BY <1>1, SumOfInts, SumOfSame
<1>3. s = f[x] + r
  BY SumOfInts
<1>4. t = g[x] + r
  BY <1>2, SumOfInts
<1>5. f[x] \in Int /\ g[x] \in Int
  OBVIOUS
<1> HIDE DEF r, s, t
<1>6. t = s + (g[x] - f[x])
  BY <1>2, <1>3, <1>4, <1>5
<1> QED
  BY <1>6 DEF s, t

\* One element joins or leaves a set.
LEMMA CountMoves ==
    ASSUME NEW S, IsFiniteSet(S), NEW A \in SUBSET S, NEW B \in SUBSET S,
           NEW x, A \ {x} = B \ {x}
    PROVE  Cardinality(B) = Cardinality(A) + Units(x \in B) - Units(x \in A)
<1>1. IsFiniteSet(A) /\ IsFiniteSet(B)
  BY FS_Subset
<1>2. Cardinality(A) \in Nat /\ Cardinality(B) \in Nat
  BY <1>1, FS_CardinalityType
<1>3. CASE x \in A /\ x \notin B
  <2>1. B = A \ {x}
    BY <1>3
  <2>2. Cardinality(B) = Cardinality(A) - 1
    BY <1>1, <1>3, <2>1, FS_RemoveElement
  <2> QED
    BY <1>2, <1>3, <2>2 DEF Units
<1>4. CASE x \notin A /\ x \in B
  <2>1. A = B \ {x}
    BY <1>4
  <2>2. Cardinality(A) = Cardinality(B) - 1
    BY <1>1, <1>4, <2>1, FS_RemoveElement
  <2> QED
    BY <1>2, <1>4, <2>2 DEF Units
<1>5. CASE (x \in A) = (x \in B)
  <2>1. A = B
    BY <1>5
  <2> QED
    BY <1>2, <1>5, <2>1 DEF Units
<1> QED
  BY <1>3, <1>4, <1>5

-----------------------------------------------------------------------------
(***************************************************************************)
(* Rows                                                                    *)
(***************************************************************************)
Ids == [block : Hashes, index : Nat]

EventKinds == Funding \cup {"withdrawal", "reserve_claimed", "winning_ticket_transfer",
                            "winning_ticket_redeemed"}

Events == [id : Ids, kind : EventKinds, tx : Nat, sender : Followed, recipient : STRING,
           amount : Nat, deposit : Int, reserve : Int]

Rows == [live : BOOLEAN, event : Events, generation : Nat]

Table(t) ==
    /\ IsFiniteSet(DOMAIN t)
    /\ t \in [DOMAIN t -> Rows]
    /\ \A id \in DOMAIN t : t[id].event.id = id

RaisedTo(t, e, r) ==
    /\ Table(r)
    /\ DOMAIN r = DOMAIN t \cup {e.id}
    /\ Live(r) = Live(t) \cup {e.id}
    /\ r[e.id].event = e /\ r[e.id].live
    /\ r[e.id].generation = IF e.id \in DOMAIN t THEN t[e.id].generation + 1 ELSE 0
    /\ \A id \in DOMAIN t \ {e.id} : r[id] = t[id]

\* A row inserted or raised to its next generation leaves a table.
LEMMA RaisedIsTable ==
    ASSUME NEW t, Table(t), NEW e \in Events, NEW r, r = Raised(t, e)
    PROVE  RaisedTo(t, e, r)
<1> DEFINE row == [live |-> TRUE, event |-> e,
                   generation |-> IF e.id \in DOMAIN t THEN t[e.id].generation + 1 ELSE 0]
<1>1. r = [id \in DOMAIN t \cup {e.id} |-> IF id = e.id THEN row ELSE t[id]]
  BY DEF Raised
<1>2. row \in Rows
  BY DEF Table, Rows
<1>3. IsFiniteSet(DOMAIN t \cup {e.id})
  BY FS_AddElement DEF Table
<1>4. row.event = e /\ row.live = TRUE
      /\ row.generation = IF e.id \in DOMAIN t THEN t[e.id].generation + 1 ELSE 0
  OBVIOUS
<1> HIDE DEF row
<1>5. /\ DOMAIN r = DOMAIN t \cup {e.id} /\ r[e.id] = row
      /\ \A id \in DOMAIN t \ {e.id} : r[id] = t[id]
  BY <1>1
<1>6. r \in [DOMAIN r -> Rows]
  BY <1>1, <1>2 DEF Table
<1>7. Table(r)
  BY <1>3, <1>4, <1>5, <1>6 DEF Table
<1>8. Live(r) = Live(t) \cup {e.id}
  BY <1>4, <1>5 DEF Live
<1> QED
  BY <1>4, <1>5, <1>7, <1>8 DEF RaisedTo

OrphanedTo(t, id, r) ==
    /\ Table(r)
    /\ DOMAIN r = DOMAIN t
    /\ Live(r) = Live(t) \ {id}
    /\ r[id].event = t[id].event /\ r[id].generation = t[id].generation /\ ~r[id].live
    /\ \A other \in DOMAIN t \ {id} : r[other] = t[other]

\* A row orphaned leaves a table.
LEMMA OrphanedIsTable ==
    ASSUME NEW t, Table(t), NEW id \in DOMAIN t, NEW r, r = Orphaned(t, id)
    PROVE  OrphanedTo(t, id, r)
<1>1. t[id] \in Rows
  BY DEF Table
<1>2. r = [t EXCEPT ![id] = [t[id] EXCEPT !.live = FALSE]]
  BY DEF Orphaned
<1> DEFINE row == [t[id] EXCEPT !.live = FALSE]
<1>3. row \in Rows /\ row.event = t[id].event /\ row.generation = t[id].generation /\ row.live = FALSE
  BY <1>1 DEF Rows
<1> HIDE DEF row
<1>4. /\ DOMAIN r = DOMAIN t /\ r[id] = row
      /\ \A other \in DOMAIN t \ {id} : r[other] = t[other]
  BY <1>2 DEF row
<1>5. r \in [DOMAIN r -> Rows]
  BY <1>2, <1>3 DEF Table, row
<1>6. Table(r)
  BY <1>3, <1>4, <1>5 DEF Table
<1>7. Live(r) = Live(t) \ {id}
  BY <1>3, <1>4 DEF Live
<1> QED
  BY <1>3, <1>4, <1>6, <1>7 DEF OrphanedTo

\* The live rows of a table are finitely many of its rows.
LEMMA LiveIsFinite ==
    ASSUME NEW t, Table(t)
    PROVE  Live(t) \subseteq DOMAIN t /\ IsFiniteSet(Live(t))
           /\ \A id \in DOMAIN t : t[id] \in Rows /\ t[id].event \in Events
<1>1. Live(t) \subseteq DOMAIN t
  BY DEF Live
<1> QED
  BY <1>1, FS_Subset DEF Table, Rows

-----------------------------------------------------------------------------
(***************************************************************************)
(* Postings                                                                *)
(***************************************************************************)
Summaries ==
    [rows : [Statuses -> Int], face : Int, paid : Int, shortfall : Int, underpaid : Int,
     held : [Buckets -> Int], unfunded : [Buckets -> Int]]

BooksType(b) ==
    /\ b = [events |-> b.events, settlements |-> b.settlements, keys |-> b.keys, ok |-> b.ok,
            ledger |-> b.ledger, summary |-> b.summary]
    /\ Table(b.events) /\ Table(b.settlements)
    /\ b.ok \in BOOLEAN
    /\ b.ledger \in [Followed -> [Accounts -> Int]]
    /\ b.summary \in Summaries

\* The summary t counts the settlements as s does.
SameCounts(s, t) ==
    /\ t.rows = s.rows /\ t.face = s.face /\ t.paid = s.paid
    /\ t.shortfall = s.shortfall /\ t.underpaid = s.underpaid

\* A balance that changes moves what its bucket holds, and how many of it are
\* unfunded.
LEMMA HeldMoves ==
    ASSUME NEW s \in Summaries, NEW account \in Accounts, NEW old \in Int, NEW next \in Int,
           NEW t, t = Held(s, account, old, next)
    PROVE  /\ t \in Summaries /\ SameCounts(s, t)
           /\ \A c \in Buckets :
                 /\ t.held[c] = s.held[c] + (IF c = account THEN next - old ELSE 0)
                 /\ t.unfunded[c] = s.unfunded[c]
                       + (IF c = account THEN Units(next = 0) - Units(old = 0) ELSE 0)
<1>1. CASE account \notin Buckets
  BY <1>1 DEF Held, Summaries, SameCounts
<1>2. CASE account \in Buckets
  <2> DEFINE held == [s.held EXCEPT ![account] = s.held[account] + next - old]
             unfunded == [s.unfunded EXCEPT ![account] =
                            s.unfunded[account] + Units(next = 0) - Units(old = 0)]
  <2>1. Units(next = 0) \in Int /\ Units(old = 0) \in Int
    BY DEF Units
  <2>2. s.held \in [Buckets -> Int] /\ s.unfunded \in [Buckets -> Int]
    BY DEF Summaries
  <2>3. held \in [Buckets -> Int] /\ unfunded \in [Buckets -> Int]
    BY <1>2, <2>1, <2>2
  <2>4. \A c \in Buckets :
           /\ held[c] = s.held[c] + (IF c = account THEN next - old ELSE 0)
           /\ unfunded[c] = s.unfunded[c]
                 + (IF c = account THEN Units(next = 0) - Units(old = 0) ELSE 0)
    BY <1>2, <2>1, <2>2
  <2>5. t = [s EXCEPT !.held = held, !.unfunded = unfunded]
    BY <1>2 DEF Held, Summaries
  <2> HIDE DEF held, unfunded
  <2>6. /\ t \in Summaries /\ SameCounts(s, t)
        /\ t.held = held /\ t.unfunded = unfunded
    BY <2>3, <2>5 DEF Summaries, SameCounts
  <2> QED
    BY <2>4, <2>6
<1> QED
  BY <1>1, <1>2

\* Only sender's escrow moves from b to r, and the summary with it.
MovedOnly(b, r, sender) ==
    /\ \A other \in Followed \ {sender} : r.ledger[other] = b.ledger[other]
    /\ \A c \in Buckets :
          /\ r.summary.held[c] = b.summary.held[c] + (r.ledger[sender][c] - b.ledger[sender][c])
          /\ r.summary.unfunded[c] = b.summary.unfunded[c]
                + (Units(r.ledger[sender][c] = 0) - Units(b.ledger[sender][c] = 0))

\* A posting leaves the rows, and what is counted of them, alone.
SameRows(b, r) ==
    /\ r.events = b.events /\ r.settlements = b.settlements
    /\ SameCounts(b.summary, r.summary)

\* Each account of sender changes by its delta.
Posted(b, r, sender, delta) ==
    \A a \in Accounts : r.ledger[sender][a] = b.ledger[sender][a] + delta[a]

Transferred(b, r, key, sender, from, to, units) ==
    /\ BooksType(r) /\ SameRows(b, r) /\ MovedOnly(b, r, sender)
    /\ Posted(b, r, sender, [a \in Accounts |-> IF a = from THEN 0 - units
                                               ELSE IF a = to THEN units ELSE 0])
    /\ r.keys = IF units = 0 THEN b.keys ELSE b.keys \cup {key}
    /\ r.ok = (b.ok /\ (units = 0 \/ key \notin b.keys))

\* A transfer moves its units between two accounts of the signer, and is
\* refused under a key it has met.
LEMMA TransferMoves ==
    ASSUME NEW b, BooksType(b), NEW key, NEW sender \in Followed,
           NEW from \in Accounts, NEW to \in Accounts, from # to, NEW units \in Int,
           NEW r, r = Transfer(b, key, sender, from, to, units)
    PROVE  Transferred(b, r, key, sender, from, to, units)
<1> DEFINE delta == [a \in Accounts |-> IF a = from THEN 0 - units ELSE IF a = to THEN units ELSE 0]
           balance == b.ledger[sender]
<1>0. balance \in [Accounts -> Int] /\ delta \in [Accounts -> Int]
  BY DEF BooksType
<1>1. CASE units = 0
  <2>1. r = b /\ (b.ok \in BOOLEAN)
    BY <1>1 DEF Transfer, BooksType
  <2>2. \A a \in Accounts : delta[a] = 0
    BY <1>1
  <2>3. \A a \in Accounts : balance[a] = balance[a] + delta[a]
    <3> PICK x \in [Accounts -> Int] : x = balance
      BY <1>0
    <3> PICK d : d = delta
      OBVIOUS
    <3> HIDE DEF balance, delta
    <3>1. \A a \in Accounts : x[a] \in Int /\ d[a] = 0
      BY <2>2
    <3> QED
      BY <3>1
  <2>4. MovedOnly(b, b, sender)
    <3>1. \A c \in Buckets : b.summary.held[c] \in Int /\ b.summary.unfunded[c] \in Int /\ balance[c] \in Int
      BY <1>0 DEF BooksType, Summaries, Accounts
    <3> QED
      BY <3>1 DEF MovedOnly, Units
  <2> QED
    BY <1>1, <2>1, <2>3, <2>4 DEF Transferred, SameRows, SameCounts, Posted
<1>2. CASE units # 0
  <2> PICK x \in Int : x = balance[from]
    BY <1>0
  <2> PICK y \in Int : y = balance[to]
    BY <1>0
  <2> PICK u \in Int : u = x - units
    OBVIOUS
  <2> PICK v \in Int : v = y + units
    OBVIOUS
  <2> DEFINE after == [balance EXCEPT ![from] = u, ![to] = v]
             ledger == [b.ledger EXCEPT ![sender] = after]
             summary == b.summary
             first == Held(summary, from, x, u)
             second == Held(first, to, y, v)
  <2>1. summary \in Summaries
    BY DEF BooksType
  <2>2. /\ first \in Summaries /\ SameCounts(summary, first)
        /\ \A c \in Buckets :
              /\ first.held[c] = summary.held[c] + (IF c = from THEN u - x ELSE 0)
              /\ first.unfunded[c] = summary.unfunded[c]
                    + (IF c = from THEN Units(u = 0) - Units(x = 0) ELSE 0)
    <3> HIDE DEF balance, summary
    <3> QED
      BY <2>1, HeldMoves
  <2>3. /\ second \in Summaries /\ SameCounts(first, second)
        /\ \A c \in Buckets :
              /\ second.held[c] = first.held[c] + (IF c = to THEN v - y ELSE 0)
              /\ second.unfunded[c] = first.unfunded[c]
                    + (IF c = to THEN Units(v = 0) - Units(y = 0) ELSE 0)
    <3> HIDE DEF balance, first
    <3> QED
      BY <2>2, HeldMoves
  <2>4. /\ r.events = b.events /\ r.settlements = b.settlements /\ r.keys = b.keys \cup {key}
        /\ r.ok = (b.ok /\ key \notin b.keys) /\ r.ledger = ledger /\ r.summary = second
        /\ r = [events |-> r.events, settlements |-> r.settlements, keys |-> r.keys, ok |-> r.ok,
                ledger |-> r.ledger, summary |-> r.summary]
    <3>1. [balance EXCEPT ![from] = balance[from] - units, ![to] = balance[to] + units] = after
      BY <1>0
    <3>2. Held(Held(summary, from, balance[from], balance[from] - units),
               to, balance[to], balance[to] + units) = second
      OBVIOUS
    <3>3. r = [b EXCEPT
                !.ledger[sender] = [balance EXCEPT ![from] = @ - units, ![to] = @ + units],
                !.summary = Held(Held(@, from, balance[from], balance[from] - units),
                                 to, balance[to], balance[to] + units),
                !.ok = @ /\ key \notin b.keys,
                !.keys = @ \cup {key}]
      BY <1>2 DEF Transfer
    <3> DEFINE moved == [balance EXCEPT ![from] = @ - units, ![to] = @ + units]
    <3>4. moved = after
      BY <1>0
    <3>5. r.ledger = [b.ledger EXCEPT ![sender] = moved]
      BY <3>3 DEF BooksType
    <3>6. r.summary = Held(Held(summary, from, balance[from], balance[from] - units),
                           to, balance[to], balance[to] + units)
      BY <3>3 DEF BooksType
    <3>7. r.ok = (b.ok /\ key \notin b.keys)
      BY <3>3 DEF BooksType
    <3>8. r.events = b.events /\ r.settlements = b.settlements /\ r.keys = b.keys \cup {key}
      BY <3>3 DEF BooksType
    <3>9. r = [events |-> r.events, settlements |-> r.settlements, keys |-> r.keys, ok |-> r.ok,
               ledger |-> r.ledger, summary |-> r.summary]
      BY <3>3 DEF BooksType
    <3> QED
      BY <3>2, <3>4, <3>5, <3>6, <3>7, <3>8, <3>9
  <2>5. after \in [Accounts -> Int] /\ \A a \in Accounts : after[a] = balance[a] + delta[a]
    BY <1>0
  <2>6. ledger \in [Followed -> [Accounts -> Int]] /\ ledger[sender] = after
        /\ \A other \in Followed \ {sender} : ledger[other] = b.ledger[other]
    <3> HIDE DEF after
    <3> QED
      BY <2>5 DEF BooksType
  <2>7. ASSUME NEW c \in Buckets
        PROVE  /\ second.held[c] = summary.held[c] + (after[c] - balance[c])
               /\ second.unfunded[c] = summary.unfunded[c] + (Units(after[c] = 0) - Units(balance[c] = 0))
    <3>1. summary.held[c] \in Int /\ summary.unfunded[c] \in Int /\ c \in Accounts /\ balance[c] \in Int
      BY <1>0, <2>1 DEF Summaries, Accounts
    <3>2. after[c] = IF c = to THEN v ELSE IF c = from THEN u ELSE balance[c]
      BY <1>0, <3>1
    <3>3. \A q : Units(q) \in Int
      BY DEF Units
    <3> HIDE DEF second, first, after, balance, summary
    <3>4. CASE c = from
      BY <2>2, <2>3, <3>1, <3>2, <3>3, <3>4
    <3>5. CASE c = to
      BY <2>2, <2>3, <3>1, <3>2, <3>3, <3>5
    <3>6. CASE c # from /\ c # to
      BY <2>2, <2>3, <3>1, <3>2, <3>3, <3>6
    <3> QED
      BY <3>4, <3>5, <3>6
  <2> HIDE DEF after, second, first, balance, ledger, delta
  <2>9. SameCounts(b.summary, second)
    BY <2>2, <2>3 DEF SameCounts
  <2>10. BooksType(r)
    BY <2>3, <2>4, <2>6 DEF BooksType
  <2>11. MovedOnly(b, r, sender)
    BY <2>4, <2>6, <2>7 DEF MovedOnly, balance
  <2>12. Posted(b, r, sender, delta)
    BY <2>4, <2>5, <2>6 DEF Posted, balance
  <2> QED
    BY <1>2, <2>4, <2>9, <2>10, <2>11, <2>12 DEF Transferred, SameRows, delta
<1> QED
  BY <1>1, <1>2

-----------------------------------------------------------------------------
(***************************************************************************)
(* What the summaries count                                                *)
(***************************************************************************)
\* The balances of one account, by sender.
Balances(b, c) == [s \in Followed |-> b.ledger[s][c]]

\* Held and unfunded are those of the senders in D; the others hold nothing.
HeldOf(b, D) ==
    \A c \in Buckets :
        /\ b.summary.held[c] = SumFunctionOnSet(Balances(b, c), D)
        /\ b.summary.unfunded[c] = Cardinality({s \in D : b.ledger[s][c] = 0})
        /\ \A s \in Followed \ D : b.ledger[s][c] = 0

\* A sequence has finitely many elements.
LEMMA ElementsAreFinite ==
    ASSUME NEW seq, NEW n \in Nat, DOMAIN seq = 1 .. n
    PROVE  IsFiniteSet(ToSet(seq))
<1>1. ToSet(seq) = {seq[i] : i \in 1 .. n}
  BY DEF ToSet
<1> DEFINE S == 1 .. n
           T == ToSet(seq)
           f == [i \in S |-> seq[i]]
<1>2. f \in Surjection(S, T)
  BY <1>1 DEF Surjection
<1>3. IsFiniteSet(S)
  BY FS_Interval
<1> HIDE DEF S, T, f
<1>4. IsFiniteSet(T)
  BY <1>2, <1>3, FS_Surjection
<1> QED
  BY <1>4 DEF T

\* Finitely many signers are followed.
LEMMA FollowedIsFinite == IsFiniteSet(Followed)
<1>1. Len(Senders) \in Nat /\ DOMAIN Senders = 1 .. Len(Senders)
  BY SendersAssumption
<1> QED
  BY <1>1, ElementsAreFinite DEF Followed

\* A step that moves one signer's balances with the summary leaves what the
\* buckets hold true.
LEMMA HeldKept ==
    ASSUME NEW b, BooksType(b), NEW r, BooksType(r), NEW D \in SUBSET Followed, NEW sender \in D,
           MovedOnly(b, r, sender), HeldOf(b, D)
    PROVE  HeldOf(r, D)
<1>1. IsFiniteSet(D)
  BY FollowedIsFinite, FS_Subset
<1>2. \A x \in BOOLEAN : Units(x) \in Int
  BY DEF Units
<1> SUFFICES ASSUME NEW c \in Buckets
             PROVE  /\ r.summary.held[c] = SumFunctionOnSet(Balances(r, c), D)
                    /\ r.summary.unfunded[c] = Cardinality({s \in D : r.ledger[s][c] = 0})
                    /\ \A s \in Followed \ D : r.ledger[s][c] = 0
  BY DEF HeldOf
<1> DEFINE f == Balances(b, c)
           g == Balances(r, c)
           A == {s \in D : b.ledger[s][c] = 0}
           B == {s \in D : r.ledger[s][c] = 0}
<1>3. /\ \A s \in Followed : f[s] = b.ledger[s][c] /\ g[s] = r.ledger[s][c]
      /\ \A s \in Followed : f[s] \in Int /\ g[s] \in Int
  <2>1. c \in Accounts
    BY DEF Accounts
  <2> QED
    BY <2>1 DEF Balances, BooksType
<1>4. \A s \in Followed \ {sender} : r.ledger[s] = b.ledger[s]
  BY DEF MovedOnly
<1>5. \A s \in D \ {sender} : f[s] = g[s]
  BY <1>3, <1>4
<1> HIDE DEF f, g
<1>6. SumFunctionOnSet(g, D) = SumFunctionOnSet(f, D) + (g[sender] - f[sender])
  <2>1. \A s \in D : f[s] \in Int /\ g[s] \in Int
    BY <1>3
  <2> QED
    BY <1>1, <1>5, <2>1, SumMoves
<1>7. Cardinality(B) = Cardinality(A) + Units(sender \in B) - Units(sender \in A)
  <2>1. A \in SUBSET D /\ B \in SUBSET D /\ A \ {sender} = B \ {sender}
    BY <1>4
  <2> HIDE DEF A, B
  <2> QED
    BY <1>1, <2>1, CountMoves
<1>8. (sender \in A) = (f[sender] = 0) /\ (sender \in B) = (g[sender] = 0)
  BY <1>3
<1>9. /\ r.summary.held[c] = b.summary.held[c] + (g[sender] - f[sender])
      /\ r.summary.unfunded[c] = b.summary.unfunded[c] + (Units(g[sender] = 0) - Units(f[sender] = 0))
  BY <1>3 DEF MovedOnly
<1>10. b.summary.held[c] = SumFunctionOnSet(f, D) /\ b.summary.unfunded[c] = Cardinality(A)
  BY DEF HeldOf, f
<1>11. Cardinality(A) \in Int
  BY <1>1, FS_Subset, FS_CardinalityType
<1>12. \A s \in Followed \ D : r.ledger[s][c] = 0
  BY <1>4 DEF HeldOf
<1> HIDE DEF A, B
<1>13. r.summary.unfunded[c] = Cardinality(B)
  BY <1>2, <1>7, <1>8, <1>9, <1>10, <1>11
<1> QED
  BY <1>6, <1>9, <1>10, <1>12, <1>13 DEF B, g

\* The summary of settlements is that of the rows.
SettlementsCounted(b) ==
    LET rows    == b.settlements
        settled == Live(rows)
        face    == [id \in DOMAIN rows |-> rows[id].event.amount]
        paid    == [id \in DOMAIN rows |-> Paid(rows[id].event)]
    IN  /\ b.summary.rows["settled"] = Cardinality(settled)
        /\ b.summary.rows["orphaned"] = Cardinality(DOMAIN rows \ settled)
        /\ b.summary.face = SumFunctionOnSet(face, settled)
        /\ b.summary.paid = SumFunctionOnSet(paid, settled)
        /\ b.summary.shortfall = b.summary.face - b.summary.paid
        /\ b.summary.underpaid = Cardinality({id \in settled : paid[id] < face[id]})

\* A step that leaves the settlements' rows alone leaves their counts true.
LEMMA CountedKept ==
    ASSUME NEW b, NEW r, SameRows(b, r), SettlementsCounted(b)
    PROVE  SettlementsCounted(r)
BY DEF SameRows, SameCounts, SettlementsCounted

\* The row that a key was used for exists, in that generation or a later one; one that
\* orphaned it is of an earlier generation than the one that is live.
KeyKnown(key, b) ==
    /\ key.of \in {"settle", "orphan:settle"} =>
          /\ key.id \in DOMAIN b.settlements /\ key.generation \in Nat
          /\ key.generation <= b.settlements[key.id].generation
    /\ key.of = "orphan:settle" /\ b.settlements[key.id].live =>
          key.generation < b.settlements[key.id].generation
    /\ key.of \in {"event", "orphan:event"} =>
          /\ key.id \in DOMAIN b.events /\ key.generation \in Nat
          /\ key.generation <= b.events[key.id].generation
    /\ key.of = "orphan:event" /\ b.events[key.id].live =>
          key.generation < b.events[key.id].generation

KeysKnown(b) == \A key \in b.keys : KeyKnown(key, b)

\* The books are in order: all that each statement of a transaction keeps.
InOrder(b, D) == BooksType(b) /\ HeldOf(b, D) /\ SettlementsCounted(b) /\ KeysKnown(b)

\* A transfer keeps the books in order, and is not refused under a new key.
LEMMA TransferKeepsOrder ==
    ASSUME NEW b, NEW D \in SUBSET Followed, InOrder(b, D), NEW sender \in D,
           NEW key, KeyKnown(key, b),
           NEW from \in Accounts, NEW to \in Accounts, from # to, NEW units \in Int,
           NEW r, r = Transfer(b, key, sender, from, to, units)
    PROVE  /\ InOrder(r, D) /\ SameRows(b, r)
           /\ r.keys \subseteq b.keys \cup {key}
           /\ r.ok => b.ok
           /\ b.ok /\ key \notin b.keys => r.ok
<1>1. BooksType(b) /\ sender \in Followed
  BY DEF InOrder
<1>2. /\ BooksType(r) /\ SameRows(b, r) /\ MovedOnly(b, r, sender)
      /\ r.keys = IF units = 0 THEN b.keys ELSE b.keys \cup {key}
      /\ r.ok = (b.ok /\ (units = 0 \/ key \notin b.keys))
  <2>1. Transferred(b, r, key, sender, from, to, units)
    BY <1>1, TransferMoves
  <2> QED
    BY <2>1 DEF Transferred
<1>3. HeldOf(r, D)
  BY <1>1, <1>2, HeldKept DEF InOrder
<1>4. SettlementsCounted(r)
  BY <1>2, CountedKept DEF InOrder
<1>5. KeysKnown(r)
  <2>1. \A k \in r.keys : KeyKnown(k, b)
    BY <1>2 DEF InOrder, KeysKnown
  <2>2. r.events = b.events /\ r.settlements = b.settlements
    BY <1>2 DEF SameRows
  <2> QED
    BY <2>1, <2>2 DEF KeysKnown, KeyKnown
<1>6. b.ok \in BOOLEAN /\ r.ok \in BOOLEAN
  BY <1>1, <1>2 DEF BooksType
<1> QED
  BY <1>2, <1>3, <1>4, <1>5, <1>6 DEF InOrder

\* No key is used for that generation.
Unused(b, of, id, generation) ==
    \A key \in b.keys : ~(key.of = of /\ key.id = id /\ key.generation = generation)

\* A key is known with its row and generation, whatever its bucket.
LEMMA KnownWithBucket ==
    ASSUME NEW key, NEW other, NEW b, KeyKnown(other, b),
           key.of = other.of, key.id = other.id, key.generation = other.generation
    PROVE  KeyKnown(key, b)
BY DEF KeyKnown

\* A key stays known while the rows stay.
LEMMA KnownOfSameRows ==
    ASSUME NEW b, NEW r, SameRows(b, r), NEW key, KeyKnown(key, b)
    PROVE  KeyKnown(key, r)
BY DEF SameRows, KeyKnown

\* What postings for that generation of a row keep.
KeepsOrder(b, r, D, of, id, generation) ==
    /\ InOrder(r, D) /\ SameRows(b, r)
    /\ \A key \in r.keys \ b.keys : key.of = of /\ key.id = id /\ key.generation = generation
    /\ r.ok => b.ok
    /\ b.ok /\ Unused(b, of, id, generation) => r.ok

\* Two transfers for one row and generation, of the deposit and of the reserve,
\* keep the books in order.
LEMMA BothTransfersKeepOrder ==
    ASSUME NEW b, NEW D \in SUBSET Followed, InOrder(b, D), NEW sender \in D,
           NEW of, NEW id, NEW generation, KeyKnown(Key(of, id, generation), b),
           NEW dfrom \in Accounts, NEW dto \in Accounts, dfrom # dto,
           NEW rfrom \in Accounts, NEW rto \in Accounts, rfrom # rto,
           NEW deposit \in Int, NEW reserve \in Int,
           NEW m, m = Transfer(b, [Key(of, id, generation) EXCEPT !.bucket = "deposit"],
                               sender, dfrom, dto, deposit),
           NEW r, r = Transfer(m, [Key(of, id, generation) EXCEPT !.bucket = "reserve"],
                               sender, rfrom, rto, reserve)
    PROVE  KeepsOrder(b, r, D, of, id, generation)
<1> PICK d : d = [Key(of, id, generation) EXCEPT !.bucket = "deposit"]
  OBVIOUS
<1> PICK e : e = [Key(of, id, generation) EXCEPT !.bucket = "reserve"]
  OBVIOUS
<1> PICK k : k = Key(of, id, generation)
  OBVIOUS
<1>0. k.of = of /\ k.id = id /\ k.generation = generation
  BY DEF Key
<1>1. /\ d.of = of /\ d.id = id /\ d.generation = generation /\ d.bucket = "deposit"
      /\ KeyKnown(d, b)
  <2>1. d = [of |-> of, id |-> id, generation |-> generation, bucket |-> "deposit"]
    BY DEF Key
  <2>2. d.of = of /\ d.id = id /\ d.generation = generation /\ d.bucket = "deposit"
    BY <2>1
  <2> QED
    BY <1>0, <2>2, KnownWithBucket
<1>2. /\ e.of = of /\ e.id = id /\ e.generation = generation /\ e.bucket = "reserve"
      /\ KeyKnown(e, b)
  <2>1. e = [of |-> of, id |-> id, generation |-> generation, bucket |-> "reserve"]
    BY DEF Key
  <2>2. e.of = of /\ e.id = id /\ e.generation = generation /\ e.bucket = "reserve"
    BY <2>1
  <2> QED
    BY <1>0, <2>2, KnownWithBucket
<1>3. m = Transfer(b, d, sender, dfrom, dto, deposit) /\ r = Transfer(m, e, sender, rfrom, rto, reserve)
  OBVIOUS
<1>4. /\ InOrder(m, D) /\ SameRows(b, m)
      /\ m.keys \subseteq b.keys \cup {d}
      /\ m.ok => b.ok
      /\ b.ok /\ d \notin b.keys => m.ok
  BY <1>1, <1>3, TransferKeepsOrder
<1>5. KeyKnown(e, m)
  BY <1>2, <1>4, KnownOfSameRows
<1>6. /\ InOrder(r, D) /\ SameRows(m, r)
      /\ r.keys \subseteq m.keys \cup {e}
      /\ r.ok => m.ok
      /\ m.ok /\ e \notin m.keys => r.ok
  BY <1>3, <1>4, <1>5, TransferKeepsOrder
<1>7. SameRows(b, r)
  BY <1>4, <1>6 DEF SameRows, SameCounts
<1>8. \A key \in r.keys \ b.keys : key.of = of /\ key.id = id /\ key.generation = generation
  BY <1>1, <1>2, <1>4, <1>6
<1>9. Unused(b, of, id, generation) => d \notin b.keys /\ e \notin m.keys
  BY <1>1, <1>2, <1>4 DEF Unused
<1> QED
  BY <1>4, <1>6, <1>7, <1>8, <1>9 DEF KeepsOrder

\* One transfer for a row and generation keeps the books in order.
LEMMA OneTransferKeepsOrder ==
    ASSUME NEW b, NEW D \in SUBSET Followed, InOrder(b, D), NEW sender \in D,
           NEW of, NEW id, NEW generation, KeyKnown(Key(of, id, generation), b),
           NEW from \in Accounts, NEW to \in Accounts, from # to, NEW units \in Int,
           NEW r, r = Transfer(b, Key(of, id, generation), sender, from, to, units)
    PROVE  KeepsOrder(b, r, D, of, id, generation)
<1> PICK k : k = Key(of, id, generation)
  OBVIOUS
<1>1. k.of = of /\ k.id = id /\ k.generation = generation
  BY DEF Key
<1>2. /\ InOrder(r, D) /\ SameRows(b, r)
      /\ r.keys \subseteq b.keys \cup {k}
      /\ r.ok => b.ok
      /\ b.ok /\ k \notin b.keys => r.ok
  BY TransferKeepsOrder
<1>3. Unused(b, of, id, generation) => k \notin b.keys
  BY <1>1 DEF Unused
<1> QED
  BY <1>1, <1>2, <1>3 DEF KeepsOrder

\* A payment into or out of a signer's escrow keeps the books in order.
LEMMA EscrowPostingKeepsOrder ==
    ASSUME NEW b, NEW D \in SUBSET Followed, InOrder(b, D),
           NEW split, split.sender \in D, split.deposit \in Int, split.reserve \in Int,
           NEW of, NEW id, NEW generation, KeyKnown(Key(of, id, generation), b),
           NEW account \in {"cash", "spend"},
           NEW r, \/ r = FromEscrow(b, Key(of, id, generation), split, account)
                  \/ r = ToEscrow(b, Key(of, id, generation), split, account)
    PROVE  KeepsOrder(b, r, D, of, id, generation)
<1>1. /\ account \in Accounts /\ "deposit" \in Accounts /\ "reserve" \in Accounts
      /\ account # "deposit" /\ account # "reserve"
  BY DEF Accounts, Buckets
<1> PICK sender \in D : sender = split.sender
  OBVIOUS
<1> PICK deposit \in Int : deposit = split.deposit
  OBVIOUS
<1> PICK reserve \in Int : reserve = split.reserve
  OBVIOUS
<1>2. CASE r = FromEscrow(b, Key(of, id, generation), split, account)
  <2> PICK m : m = Transfer(b, [Key(of, id, generation) EXCEPT !.bucket = "deposit"],
                            sender, "deposit", account, deposit)
    OBVIOUS
  <2>1. r = Transfer(m, [Key(of, id, generation) EXCEPT !.bucket = "reserve"],
                     sender, "reserve", account, reserve)
    BY <1>2 DEF FromEscrow
  <2> QED
    BY <1>1, <2>1, BothTransfersKeepOrder
<1>3. CASE r = ToEscrow(b, Key(of, id, generation), split, account)
  <2> PICK m : m = Transfer(b, [Key(of, id, generation) EXCEPT !.bucket = "deposit"],
                            sender, account, "deposit", deposit)
    OBVIOUS
  <2>1. r = Transfer(m, [Key(of, id, generation) EXCEPT !.bucket = "reserve"],
                     sender, account, "reserve", reserve)
    BY <1>3 DEF ToEscrow
  <2> QED
    BY <1>1, <2>1, BothTransfersKeepOrder
<1> QED
  BY <1>2, <1>3

-----------------------------------------------------------------------------
(***************************************************************************)
(* Counting settlements                                                    *)
(***************************************************************************)
\* One element joins or leaves a sum.
LEMMA SumSteps ==
    ASSUME NEW A, IsFiniteSet(A), NEW B, IsFiniteSet(B), NEW x, A \ {x} = B \ {x},
           (x \in A) # (x \in B), NEW v \in Int,
           NEW f, \A y \in A : f[y] \in Int, NEW g, \A y \in B : g[y] \in Int,
           \A y \in A \ {x} : f[y] = g[y], x \in A => f[x] = v, x \in B => g[x] = v
    PROVE  /\ x \in B => SumFunctionOnSet(g, B) = SumFunctionOnSet(f, A) + v
           /\ x \in A => SumFunctionOnSet(g, B) = SumFunctionOnSet(f, A) - v
<1>1. ASSUME x \in B PROVE SumFunctionOnSet(g, B) = SumFunctionOnSet(f, A) + v
  <2>1. x \notin A /\ B = A \cup {x} /\ g[x] \in Int /\ g[x] = v
    BY <1>1
  <2>2. \A y \in A : f[y] \in Int /\ f[y] = g[y]
    BY <2>1
  <2> QED
    BY <2>1, <2>2, SumJoins
<1>2. ASSUME x \in A PROVE SumFunctionOnSet(g, B) = SumFunctionOnSet(f, A) - v
  <2>1. x \notin B /\ A = B \cup {x} /\ f[x] \in Int /\ f[x] = v
    BY <1>2
  <2>2. \A y \in B : g[y] \in Int /\ g[y] = f[y]
    BY <2>1
  <2>3. SumFunctionOnSet(f, A) = SumFunctionOnSet(g, B) + f[x]
    BY <2>1, <2>2, SumJoins
  <2>4. SumFunctionOnSet(g, B) \in Int
    BY <2>2, SumOfInts
  <2> PICK s \in Int : s = SumFunctionOnSet(g, B)
    BY <2>4
  <2> QED
    BY <2>1, <2>3
<1> QED
  BY <1>1, <1>2

\* A settlement whose status changes moves one unit between the counts, and the
\* settled totals with it.
LEMMA CountedMoves ==
    ASSUME NEW s \in Summaries, NEW old, NEW next, NEW e \in Events,
           NEW t, t = Counted(s, old, next, e),
           NEW sign \in Int, sign = Units(next = "settled") - Units(old = "settled")
    PROVE  /\ t \in Summaries
           /\ t.held = s.held /\ t.unfunded = s.unfunded
           /\ \A status \in Statuses :
                 t.rows[status] = s.rows[status] + Units(status = next) - Units(status = old)
           /\ t.face = s.face + sign * e.amount
           /\ t.paid = s.paid + sign * Paid(e)
           /\ t.shortfall = s.shortfall + sign * (e.amount - Paid(e))
           /\ t.underpaid = s.underpaid + sign * Units(e.amount - Paid(e) > 0)
<1> DEFINE rows == [status \in Statuses |-> s.rows[status] + Units(status = next) - Units(status = old)]
<1> PICK amount \in Int : amount = e.amount
  BY DEF Events
<1> PICK paid \in Int : paid = Paid(e)
  BY DEF Events, Paid
<1> PICK short \in Int : short = amount - paid
  OBVIOUS
<1> PICK under \in Int : under = Units(short > 0)
  BY DEF Units
<1>0. \A q : Units(q) \in Int
  BY DEF Units
<1>1. s.rows \in [Statuses -> Int] /\ rows \in [Statuses -> Int]
  BY <1>0 DEF Summaries
<1>2. t = [s EXCEPT !.rows = rows,
                    !.face = s.face + sign * amount,
                    !.paid = s.paid + sign * paid,
                    !.shortfall = s.shortfall + sign * short,
                    !.underpaid = s.underpaid + sign * under]
  BY DEF Counted, Summaries
<1>3. \A status \in Statuses :
         rows[status] = s.rows[status] + Units(status = next) - Units(status = old)
  BY <1>1
<1> HIDE DEF rows
<1>4. /\ s.face \in Int /\ s.paid \in Int /\ s.shortfall \in Int /\ s.underpaid \in Int
  BY DEF Summaries
<1> PICK face \in Int : face = s.face + sign * amount
  BY <1>4
<1> PICK spent \in Int : spent = s.paid + sign * paid
  BY <1>4
<1> PICK scaled \in Int : scaled = sign * short
  OBVIOUS
<1> PICK shortfall \in Int : shortfall = s.shortfall + scaled
  BY <1>4
<1> PICK underpaid \in Int : underpaid = s.underpaid + sign * under
  BY <1>4
<1>5. t = [s EXCEPT !.rows = rows, !.face = face, !.paid = spent, !.shortfall = shortfall,
                    !.underpaid = underpaid]
  BY <1>2
<1>6. /\ t \in Summaries
      /\ t.held = s.held /\ t.unfunded = s.unfunded /\ t.rows = rows
      /\ t.face = face /\ t.paid = spent /\ t.shortfall = shortfall /\ t.underpaid = underpaid
  BY <1>1, <1>5 DEF Summaries
<1> QED
  BY <1>3, <1>6

\* One row is brought in, brought back or orphaned, and counted.
LEMMA RowRecounted ==
    ASSUME NEW b, BooksType(b), SettlementsCounted(b), NEW r, BooksType(r),
           NEW id, NEW e \in Events, DOMAIN r.settlements = DOMAIN b.settlements \cup {id},
           \A other \in DOMAIN b.settlements \ {id} : r.settlements[other] = b.settlements[other],
           (id \in Live(b.settlements)) # (id \in Live(r.settlements)),
           id \in Live(b.settlements) => b.settlements[id].event = e,
           id \in Live(r.settlements) => r.settlements[id].event = e,
           NEW old, old = IF id \in Live(b.settlements) THEN "settled"
                          ELSE IF id \in DOMAIN b.settlements THEN "orphaned" ELSE "none",
           NEW next, next = IF id \in Live(r.settlements) THEN "settled" ELSE "orphaned",
           r.summary = Counted(b.summary, old, next, e)
    PROVE  SettlementsCounted(r)
<1> DEFINE t == b.settlements
           u == r.settlements
           A == Live(t)
           B == Live(u)
           f == [i \in DOMAIN t |-> t[i].event.amount]
           g == [i \in DOMAIN u |-> u[i].event.amount]
           p == [i \in DOMAIN t |-> Paid(t[i].event)]
           q == [i \in DOMAIN u |-> Paid(u[i].event)]
           S == DOMAIN u
<1>1. Table(t) /\ Table(u) /\ IsFiniteSet(S)
  BY DEF BooksType, Table
<1>2. /\ A \subseteq DOMAIN t /\ IsFiniteSet(A) /\ B \subseteq S /\ IsFiniteSet(B)
      /\ \A i \in DOMAIN t : t[i] \in Rows /\ t[i].event \in Events
      /\ \A i \in DOMAIN u : u[i] \in Rows /\ u[i].event \in Events
  BY <1>1, LiveIsFinite
<1>3. /\ \A i \in DOMAIN t : f[i] = t[i].event.amount /\ f[i] \in Int /\ p[i] = Paid(t[i].event) /\ p[i] \in Int
      /\ \A i \in DOMAIN u : g[i] = u[i].event.amount /\ g[i] \in Int /\ q[i] = Paid(u[i].event) /\ q[i] \in Int
  BY <1>2 DEF Events, Paid
<1>4. A \ {id} = B \ {id} /\ DOMAIN t \subseteq S /\ id \in S
  BY DEF Live
<1>5. \A i \in A \ {id} : f[i] = g[i] /\ p[i] = q[i]
  BY <1>2, <1>3
<1> PICK amount \in Int : amount = e.amount
  BY DEF Events
<1> PICK paid \in Int : paid = Paid(e)
  BY DEF Events, Paid
<1>6. /\ id \in A => f[id] = amount /\ p[id] = paid
      /\ id \in B => g[id] = amount /\ q[id] = paid
  BY <1>2, <1>3
<1> PICK sign \in Int : sign = Units(next = "settled") - Units(old = "settled")
  BY DEF Units
<1>7. /\ id \in B => sign = 1 /\ next = "settled" /\ id \notin A
      /\ id \in A => sign = 0 - 1 /\ next = "orphaned" /\ id \notin B
      /\ id \in B \/ id \in A
  BY DEF Units
<1> PICK short \in Int : short = amount - paid
  OBVIOUS
<1> PICK under \in Int : under = Units(short > 0)
  BY DEF Units
<1> DEFINE s == b.summary
           v == r.summary
<1>8. /\ v \in Summaries
      /\ \A status \in Statuses :
            v.rows[status] = s.rows[status] + Units(status = next) - Units(status = old)
      /\ v.face = s.face + sign * amount
      /\ v.paid = s.paid + sign * paid
      /\ v.shortfall = s.shortfall + sign * short
      /\ v.underpaid = s.underpaid + sign * under
  BY CountedMoves DEF BooksType
<1>9. /\ s.face \in Int /\ s.paid \in Int /\ s.shortfall \in Int /\ s.underpaid \in Int
      /\ s.rows["settled"] \in Int /\ s.rows["orphaned"] \in Int
  BY DEF BooksType, Summaries, Statuses
<1> DEFINE C == {i \in A : p[i] < f[i]}
           F == {i \in B : q[i] < g[i]}
<1>10. /\ s.rows["settled"] = Cardinality(A) /\ s.rows["orphaned"] = Cardinality(DOMAIN t \ A)
       /\ s.face = SumFunctionOnSet(f, A) /\ s.paid = SumFunctionOnSet(p, A)
       /\ s.shortfall = s.face - s.paid /\ s.underpaid = Cardinality(C)
  BY DEF SettlementsCounted
<1>11. /\ C \subseteq S /\ F \subseteq S /\ C \ {id} = F \ {id}
       /\ (id \in C) = (id \in A /\ short > 0) /\ (id \in F) = (id \in B /\ short > 0)
  BY <1>2, <1>3, <1>4, <1>5, <1>6
<1>12. v.face = SumFunctionOnSet(g, B)
  <2>1. /\ id \in B => SumFunctionOnSet(g, B) = s.face + amount
        /\ id \in A => SumFunctionOnSet(g, B) = s.face - amount
    <3>1. /\ \A i \in A : f[i] \in Int
          /\ \A i \in B : g[i] \in Int
          /\ \A i \in A \ {id} : f[i] = g[i]
          /\ id \in A => f[id] = amount
          /\ id \in B => g[id] = amount
          /\ IsFiniteSet(A) /\ IsFiniteSet(B) /\ A \ {id} = B \ {id}
          /\ (id \in A) # (id \in B)
      BY <1>2, <1>3, <1>4, <1>5, <1>6
    <3> HIDE DEF A, B, f, g
    <3>2. /\ id \in B => SumFunctionOnSet(g, B) = SumFunctionOnSet(f, A) + amount
          /\ id \in A => SumFunctionOnSet(g, B) = SumFunctionOnSet(f, A) - amount
      BY <3>1, SumSteps
    <3> QED
      BY <1>10, <3>2
  <2> HIDE DEF s, v, A, B
  <2> QED
    BY <1>7, <1>8, <1>9, <2>1
<1>13. v.paid = SumFunctionOnSet(q, B)
  <2>1. /\ id \in B => SumFunctionOnSet(q, B) = s.paid + paid
        /\ id \in A => SumFunctionOnSet(q, B) = s.paid - paid
    <3>1. /\ \A i \in A : p[i] \in Int
          /\ \A i \in B : q[i] \in Int
          /\ \A i \in A \ {id} : p[i] = q[i]
          /\ id \in A => p[id] = paid
          /\ id \in B => q[id] = paid
          /\ IsFiniteSet(A) /\ IsFiniteSet(B) /\ A \ {id} = B \ {id}
          /\ (id \in A) # (id \in B)
      BY <1>2, <1>3, <1>4, <1>5, <1>6
    <3> HIDE DEF A, B, p, q
    <3>2. /\ id \in B => SumFunctionOnSet(q, B) = SumFunctionOnSet(p, A) + paid
          /\ id \in A => SumFunctionOnSet(q, B) = SumFunctionOnSet(p, A) - paid
      BY <3>1, SumSteps
    <3> QED
      BY <1>10, <3>2
  <2> HIDE DEF s, v, A, B
  <2> QED
    BY <1>7, <1>8, <1>9, <2>1
<1>14. v.underpaid = Cardinality(F)
  <2>1. Cardinality(F) = Cardinality(C) + Units(id \in F) - Units(id \in C)
    <3> HIDE DEF C, F, S
    <3> QED
      BY <1>1, <1>11, CountMoves
  <2> HIDE DEF s, v, A, B, C, F
  <2> QED
    BY <1>7, <1>8, <1>9, <1>10, <1>11, <2>1 DEF Units
<1>15. v.rows["settled"] = Cardinality(B)
  <2>1. Cardinality(B) = Cardinality(A) + Units(id \in B) - Units(id \in A)
    <3> HIDE DEF A, B, S
    <3>1. A \in SUBSET S /\ B \in SUBSET S
      BY <1>2, <1>4
    <3> QED
      BY <1>1, <1>4, <3>1, CountMoves
  <2>2. v.rows["settled"] = s.rows["settled"] + Units(next = "settled") - Units(old = "settled")
    BY <1>8 DEF Statuses
  <2>3. (next = "settled") = (id \in B) /\ (old = "settled") = (id \in A)
    OBVIOUS
  <2> HIDE DEF s, v, A, B
  <2> QED
    BY <1>7, <1>9, <1>10, <2>1, <2>2, <2>3 DEF Units
<1>16. v.rows["orphaned"] = Cardinality(S \ B)
  <2> DEFINE G == DOMAIN t \ A
             H == S \ B
  <2>1. G \ {id} = H \ {id} /\ G \subseteq S /\ H \subseteq S
    BY <1>2, <1>4
  <2>2. Cardinality(H) = Cardinality(G) + Units(id \in H) - Units(id \in G)
    <3> HIDE DEF G, H, S
    <3> QED
      BY <1>1, <2>1, CountMoves
  <2>3. v.rows["orphaned"] = s.rows["orphaned"] + Units(next = "orphaned") - Units(old = "orphaned")
    BY <1>8 DEF Statuses
  <2>4. (next = "orphaned") = (id \in H) /\ (old = "orphaned") = (id \in G)
    BY <1>4
  <2>5. s.rows["orphaned"] = Cardinality(G)
    BY <1>10
  <2>6. v.rows["orphaned"] = Cardinality(H)
    <3> HIDE DEF s, v, A, B, G, H
    <3> QED
      BY <1>7, <1>9, <2>2, <2>3, <2>4, <2>5 DEF Units
  <2> QED
    BY <2>6
<1>17. v.shortfall = v.face - v.paid
  <2> HIDE DEF s, v, A, B
  <2> QED
    BY <1>7, <1>8, <1>9, <1>10
<1> QED
  BY <1>12, <1>13, <1>14, <1>15, <1>16, <1>17 DEF SettlementsCounted

-----------------------------------------------------------------------------
(***************************************************************************)
(* Rows change                                                             *)
(***************************************************************************)
\* Postings known of a table stay known while its rows keep their generation and do not
\* come back, or come back in a later one.
Ages(t, u) ==
    /\ DOMAIN t \subseteq DOMAIN u
    /\ \A id \in DOMAIN t :
          \/ u[id].generation = t[id].generation /\ (u[id].live => t[id].live)
          \/ u[id].generation > t[id].generation

\* Keys stay known while rows only age.
LEMMA KeysStayKnown ==
    ASSUME NEW b, BooksType(b), KeysKnown(b), NEW r, BooksType(r), r.keys = b.keys,
           Ages(b.events, r.events), Ages(b.settlements, r.settlements)
    PROVE  KeysKnown(r)
<1> SUFFICES ASSUME NEW key \in r.keys PROVE KeyKnown(key, r)
  BY DEF KeysKnown
<1>1. KeyKnown(key, b)
  BY DEF KeysKnown
<1>2. /\ \A id \in DOMAIN b.events : b.events[id].generation \in Nat
      /\ \A id \in DOMAIN b.settlements : b.settlements[id].generation \in Nat
      /\ \A id \in DOMAIN r.events : r.events[id].generation \in Nat
      /\ \A id \in DOMAIN r.settlements : r.settlements[id].generation \in Nat
  BY DEF BooksType, Table, Rows
<1>3. key.of \in {"settle", "orphan:settle"} =>
          /\ key.id \in DOMAIN r.settlements /\ key.generation \in Nat
          /\ key.generation <= r.settlements[key.id].generation
          /\ key.of = "orphan:settle" /\ r.settlements[key.id].live =>
                key.generation < r.settlements[key.id].generation
  BY <1>1, <1>2 DEF KeyKnown, Ages
<1>4. key.of \in {"event", "orphan:event"} =>
          /\ key.id \in DOMAIN r.events /\ key.generation \in Nat
          /\ key.generation <= r.events[key.id].generation
          /\ key.of = "orphan:event" /\ r.events[key.id].live =>
                key.generation < r.events[key.id].generation
  BY <1>1, <1>2 DEF KeyKnown, Ages
<1> QED
  BY <1>3, <1>4 DEF KeyKnown

\* A row orphaned keeps its generation.
LEMMA OrphanedAges ==
    ASSUME NEW t, NEW id \in DOMAIN t, NEW u, OrphanedTo(t, id, u)
    PROVE  Ages(t, u)
BY DEF Ages, OrphanedTo

\* A row raised has reached a later generation.
LEMMA RaisedAges ==
    ASSUME NEW t, Table(t), NEW e \in Events, NEW u, RaisedTo(t, e, u)
    PROVE  Ages(t, u)
<1>1. \A id \in DOMAIN t : t[id].generation \in Nat
  BY DEF Table, Rows
<1> QED
  BY <1>1 DEF Ages, RaisedTo

\* Rows left alone have not aged.
LEMMA AgesNot == ASSUME NEW t PROVE Ages(t, t)
BY DEF Ages

EventsBecome(b, r, t, ok) == r = [b EXCEPT !.events = t, !.ok = ok]

SettlementsBecome(b, r, t, old, next, e, ok) ==
    r = [b EXCEPT !.settlements = t, !.summary = Counted(b.summary, old, next, e), !.ok = ok]

\* A row of settlements changes, and is counted.
LEMMA SettlementChanges ==
    ASSUME NEW b, NEW D \in SUBSET Followed, InOrder(b, D),
           NEW t, Table(t), Ages(b.settlements, t),
           NEW id, NEW e \in Events, DOMAIN t = DOMAIN b.settlements \cup {id},
           \A other \in DOMAIN b.settlements \ {id} : t[other] = b.settlements[other],
           (id \in Live(b.settlements)) # (id \in Live(t)),
           id \in Live(b.settlements) => b.settlements[id].event = e,
           id \in Live(t) => t[id].event = e,
           NEW old, old = IF id \in Live(b.settlements) THEN "settled"
                          ELSE IF id \in DOMAIN b.settlements THEN "orphaned" ELSE "none",
           NEW next, next = IF id \in Live(t) THEN "settled" ELSE "orphaned",
           NEW ok \in BOOLEAN,
           NEW r, SettlementsBecome(b, r, t, old, next, e, ok)
    PROVE  /\ InOrder(r, D)
           /\ r.events = b.events /\ r.settlements = t /\ r.keys = b.keys
           /\ r.ledger = b.ledger /\ r.ok = ok
<1> DEFINE v == Counted(b.summary, old, next, e)
<1>1. BooksType(b)
  BY DEF InOrder
<1>2. v \in Summaries /\ v.held = b.summary.held /\ v.unfunded = b.summary.unfunded
  <2> PICK sign \in Int : sign = Units(next = "settled") - Units(old = "settled")
    BY DEF Units
  <2> QED
    BY <1>1, CountedMoves DEF BooksType
<1> HIDE DEF v
<1>3. /\ r.events = b.events /\ r.settlements = t /\ r.keys = b.keys
      /\ r.ledger = b.ledger /\ r.ok = ok /\ r.summary = v
      /\ r = [events |-> r.events, settlements |-> r.settlements, keys |-> r.keys, ok |-> r.ok,
              ledger |-> r.ledger, summary |-> r.summary]
  BY <1>1 DEF BooksType, v, SettlementsBecome
<1>4. BooksType(r)
  BY <1>1, <1>2, <1>3 DEF BooksType
<1>5. HeldOf(r, D)
  <2>1. \A c \in Buckets : Balances(r, c) = Balances(b, c)
    BY <1>3 DEF Balances
  <2> QED
    BY <1>2, <1>3, <2>1 DEF HeldOf, InOrder
<1>6. SettlementsCounted(r)
  <2>1. SettlementsCounted(b) /\ r.summary = Counted(b.summary, old, next, e)
    BY <1>3 DEF InOrder, v
  <2> QED
    BY <1>1, <1>3, <1>4, <2>1, RowRecounted
<1>7. KeysKnown(r)
  <2>1. Ages(b.events, r.events) /\ Ages(b.settlements, r.settlements)
    BY <1>3, AgesNot
  <2> QED
    BY <1>1, <1>3, <1>4, <2>1, KeysStayKnown DEF InOrder
<1> QED
  BY <1>3, <1>4, <1>5, <1>6, <1>7 DEF InOrder

\* A row of events changes.
LEMMA EventChanges ==
    ASSUME NEW b, NEW D \in SUBSET Followed, InOrder(b, D),
           NEW t, Table(t), Ages(b.events, t), NEW ok \in BOOLEAN,
           NEW r, EventsBecome(b, r, t, ok)
    PROVE  /\ InOrder(r, D)
           /\ r.events = t /\ r.settlements = b.settlements /\ r.keys = b.keys
           /\ r.ledger = b.ledger /\ r.ok = ok /\ r.summary = b.summary
<1>1. BooksType(b)
  BY DEF InOrder
<1>3. /\ r.events = t /\ r.settlements = b.settlements /\ r.keys = b.keys
      /\ r.ledger = b.ledger /\ r.ok = ok /\ r.summary = b.summary
      /\ r = [events |-> r.events, settlements |-> r.settlements, keys |-> r.keys, ok |-> r.ok,
              ledger |-> r.ledger, summary |-> r.summary]
  BY <1>1 DEF BooksType, EventsBecome
<1>4. BooksType(r)
  BY <1>1, <1>3 DEF BooksType
<1>5. HeldOf(r, D)
  <2>1. \A c \in Buckets : Balances(r, c) = Balances(b, c)
    BY <1>3 DEF Balances
  <2> QED
    BY <1>3, <2>1 DEF HeldOf, InOrder
<1>6. SettlementsCounted(r)
  BY <1>3 DEF SettlementsCounted, InOrder
<1>7. KeysKnown(r)
  <2>1. Ages(b.events, r.events) /\ Ages(b.settlements, r.settlements)
    BY <1>3, AgesNot
  <2> QED
    BY <1>1, <1>3, <1>4, <2>1, KeysStayKnown DEF InOrder
<1> QED
  BY <1>3, <1>4, <1>5, <1>6, <1>7 DEF InOrder

-----------------------------------------------------------------------------
(***************************************************************************)
(* Rewind                                                                  *)
(***************************************************************************)
LEMMA ReverseSettlementKeepsOrder ==
    ASSUME NEW b, InOrder(b, Followed), NEW id \in Live(b.settlements),
           NEW r, r = ReverseSettlement(id, b)
    PROVE  /\ InOrder(r, Followed)
           /\ r.settlements = Orphaned(b.settlements, id) /\ r.events = b.events
           /\ b.ok => r.ok
<1>1. BooksType(b) /\ Table(b.settlements) /\ id \in DOMAIN b.settlements /\ b.ok \in BOOLEAN
  BY LiveIsFinite DEF InOrder, BooksType
<1> PICK row : row = b.settlements[id]
  OBVIOUS
<1> PICK t : t = Orphaned(b.settlements, id)
  OBVIOUS
<1> PICK ok \in BOOLEAN : ok = b.ok
  BY <1>1
<1> PICK m : m = [b EXCEPT !.settlements = t,
                           !.summary = Counted(b.summary, "settled", "orphaned", row.event),
                           !.ok = ok]
  OBVIOUS
<1>2. row \in Rows /\ row.event \in Events /\ row.live
  BY <1>1 DEF Table, Rows, Live
<1>3. OrphanedTo(b.settlements, id, t)
  BY <1>1, OrphanedIsTable
<1>4. /\ Table(t) /\ Ages(b.settlements, t)
      /\ DOMAIN t = DOMAIN b.settlements \cup {id}
      /\ \A other \in DOMAIN b.settlements \ {id} : t[other] = b.settlements[other]
      /\ id \notin Live(t)
      /\ t[id].generation = row.generation /\ ~t[id].live
  BY <1>1, <1>3, OrphanedAges DEF OrphanedTo
<1>5. /\ InOrder(m, Followed)
      /\ m.events = b.events /\ m.settlements = t /\ m.keys = b.keys
      /\ m.ledger = b.ledger /\ m.ok = b.ok
  <2> PICK e \in Events : e = row.event
    BY <1>2
  <2> PICK old : old = "settled"
    OBVIOUS
  <2> PICK next : next = "orphaned"
    OBVIOUS
  <2>1. SettlementsBecome(b, m, t, old, next, e, ok)
    BY DEF SettlementsBecome
  <2>2. /\ (id \in Live(b.settlements)) # (id \in Live(t))
        /\ id \in Live(b.settlements) => b.settlements[id].event = e
        /\ id \in Live(t) => t[id].event = e
        /\ old = IF id \in Live(b.settlements) THEN "settled"
                 ELSE IF id \in DOMAIN b.settlements THEN "orphaned" ELSE "none"
        /\ next = IF id \in Live(t) THEN "settled" ELSE "orphaned"
    BY <1>4
  <2> PICK D \in SUBSET Followed : D = Followed
    OBVIOUS
  <2>3. InOrder(b, D)
    OBVIOUS
  <2>4. InOrder(m, D) /\ m.events = b.events /\ m.settlements = t /\ m.keys = b.keys
        /\ m.ledger = b.ledger /\ m.ok = ok
    BY <1>4, <2>1, <2>2, <2>3, SettlementChanges
  <2> QED
    BY <2>4
<1>6. r = ToEscrow(m, Key("orphan:settle", id, row.generation), row.event, "spend")
  <2>1. m = [b EXCEPT !.settlements = t,
                      !.summary = Counted(b.summary, "settled", "orphaned", row.event)]
    BY <1>1 DEF BooksType
  <2> QED
    BY <2>1 DEF ReverseSettlement
<1>7. KeyKnown(Key("orphan:settle", id, row.generation), m)
  BY <1>1, <1>2, <1>4, <1>5 DEF KeyKnown, Key, Rows
<1>8. Unused(m, "orphan:settle", id, row.generation)
  <2>1. \A key \in b.keys : KeyKnown(key, b)
    BY DEF InOrder, KeysKnown
  <2>2. \A key \in b.keys : key.of = "orphan:settle" /\ key.id = id => key.generation < row.generation /\ key.generation \in Nat
    BY <1>2, <2>1 DEF KeyKnown
  <2>3. row.generation \in Nat
    BY <1>2 DEF Rows
  <2> QED
    BY <1>5, <2>2, <2>3 DEF Unused
<1>9. KeepsOrder(m, r, Followed, "orphan:settle", id, row.generation)
  <2> PICK e \in Events : e = row.event
    BY <1>2
  <2> PICK g : g = row.generation
    OBVIOUS
  <2> PICK of : of = "orphan:settle"
    OBVIOUS
  <2>1. e.sender \in Followed /\ e.deposit \in Int /\ e.reserve \in Int
    BY DEF Events
  <2>2. KeyKnown(Key(of, id, g), m) /\ r = ToEscrow(m, Key(of, id, g), e, "spend")
    BY <1>6, <1>7
  <2>3. KeepsOrder(m, r, Followed, of, id, g)
    BY <1>5, <2>1, <2>2, EscrowPostingKeepsOrder
  <2> QED
    BY <2>3
<1> QED
  BY <1>5, <1>8, <1>9 DEF KeepsOrder, SameRows

\* A live escrow event reversed keeps the books in order, orphans its row and
\* is not refused.
LEMMA ReverseEventKeepsOrder ==
    ASSUME NEW b, InOrder(b, Followed), NEW id \in Live(b.events),
           NEW r, r = ReverseEvent(id, b)
    PROVE  /\ InOrder(r, Followed)
           /\ r.events = Orphaned(b.events, id) /\ r.settlements = b.settlements
           /\ b.ok => r.ok
<1>1. BooksType(b) /\ Table(b.events) /\ id \in DOMAIN b.events /\ b.ok \in BOOLEAN
  BY LiveIsFinite DEF InOrder, BooksType
<1> PICK row : row = b.events[id]
  OBVIOUS
<1> PICK t : t = Orphaned(b.events, id)
  OBVIOUS
<1> PICK ok \in BOOLEAN : ok = b.ok
  BY <1>1
<1> PICK m : m = [b EXCEPT !.events = t, !.ok = ok]
  OBVIOUS
<1>2. row \in Rows /\ row.event \in Events /\ row.live
  BY <1>1 DEF Table, Rows, Live
<1>3. OrphanedTo(b.events, id, t)
  BY <1>1, OrphanedIsTable
<1>4. /\ Table(t) /\ Ages(b.events, t)
      /\ DOMAIN t = DOMAIN b.events
      /\ t[id].generation = row.generation /\ ~t[id].live
  BY <1>1, <1>3, OrphanedAges DEF OrphanedTo
<1>5. /\ InOrder(m, Followed)
      /\ m.events = t /\ m.settlements = b.settlements /\ m.keys = b.keys
      /\ m.ledger = b.ledger /\ m.ok = b.ok
  <2> PICK D \in SUBSET Followed : D = Followed
    OBVIOUS
  <2>3. InOrder(b, D) /\ EventsBecome(b, m, t, ok)
    BY DEF EventsBecome
  <2>4. InOrder(m, D) /\ m.events = t /\ m.settlements = b.settlements /\ m.keys = b.keys
        /\ m.ledger = b.ledger /\ m.ok = ok
    BY <1>4, <2>3, EventChanges
  <2> QED
    BY <2>4
<1> PICK e \in Events : e = row.event
  BY <1>2
<1> PICK g \in Nat : g = row.generation
  BY <1>2 DEF Rows
<1> PICK of : of = "orphan:event"
  OBVIOUS
<1>6. r = CASE e.kind \in Funding -> Transfer(m, Key(of, id, g), e.sender, Bucket(e), "cash", e.amount)
            [] e.kind = "withdrawal" -> ToEscrow(m, Key(of, id, g), e, "cash")
            [] OTHER -> m
  <2>1. m = [b EXCEPT !.events = t]
    BY <1>1 DEF BooksType
  <2> QED
    BY <2>1 DEF ReverseEvent
<1>7. KeyKnown(Key(of, id, g), m)
  BY <1>1, <1>2, <1>4, <1>5 DEF KeyKnown, Key
<1>8. Unused(m, of, id, g)
  <2>1. \A key \in b.keys : KeyKnown(key, b)
    BY DEF InOrder, KeysKnown
  <2>2. \A key \in b.keys : key.of = "orphan:event" /\ key.id = id => key.generation < g /\ key.generation \in Nat
    BY <1>2, <2>1 DEF KeyKnown
  <2> QED
    BY <1>5, <2>2 DEF Unused
<1>9. e.sender \in Followed /\ e.deposit \in Int /\ e.reserve \in Int /\ e.amount \in Int
  BY DEF Events
<1>10. CASE e.kind \in Funding
  <2> PICK bucket : bucket = Bucket(e)
    OBVIOUS
  <2>1. bucket \in Accounts /\ "cash" \in Accounts /\ bucket # "cash"
    BY DEF Bucket, Accounts, Buckets
  <2>2. r = Transfer(m, Key(of, id, g), e.sender, bucket, "cash", e.amount)
    BY <1>6, <1>10 DEF Funding
  <2> PICK sender \in Followed : sender = e.sender
    BY <1>9
  <2> PICK units \in Int : units = e.amount
    BY <1>9
  <2>3. KeepsOrder(m, r, Followed, of, id, g)
    BY <1>5, <1>7, <2>1, <2>2, OneTransferKeepsOrder
  <2> QED
    BY <1>5, <1>8, <2>3 DEF KeepsOrder, SameRows
<1>11. CASE e.kind = "withdrawal"
  <2>1. r = ToEscrow(m, Key(of, id, g), e, "cash")
    BY <1>6, <1>11 DEF Funding
  <2>2. KeepsOrder(m, r, Followed, of, id, g)
    BY <1>5, <1>7, <1>9, <2>1, EscrowPostingKeepsOrder
  <2> QED
    BY <1>5, <1>8, <2>2 DEF KeepsOrder, SameRows
<1>12. CASE e.kind \notin Funding /\ e.kind # "withdrawal"
  <2>1. r = m
    BY <1>6, <1>12
  <2> QED
    BY <1>5, <2>1
<1> QED
  BY <1>10, <1>11, <1>12

SettlementFolds == INSTANCE FoldProofs WITH op <- ReverseSettlement
EventFolds == INSTANCE FoldProofs WITH op <- ReverseEvent

\* Reversing a set of settlements is the fold the lemmas on folds are about.
LEMMA SettlementFoldIs ==
    ASSUME NEW base, NEW S
    PROVE  SettlementFolds!SetFold(base, S) = FoldSet(ReverseSettlement, base, S)
BY DEF SettlementFolds!SetFold, SettlementFolds!FoldSet, SettlementFolds!MapThenFoldSet,
       FoldSet, MapThenFoldSet

\* Reversing a set of escrow events is the fold the lemmas on folds are about.
LEMMA EventFoldIs ==
    ASSUME NEW base, NEW S
    PROVE  EventFolds!SetFold(base, S) = FoldSet(ReverseEvent, base, S)
BY DEF EventFolds!SetFold, EventFolds!FoldSet, EventFolds!MapThenFoldSet,
       FoldSet, MapThenFoldSet

\* Settlements are reversed one at a time.
LEMMA SettlementFoldTrace ==
    ASSUME NEW S, IsFiniteSet(S), NEW base
    PROVE  \E t : SettlementFolds!SetTrace(t, base, S) /\ t[S] = FoldSet(ReverseSettlement, base, S)
<1>1. SettlementFolds!IsFiniteSet(S)
  BY DEF IsFiniteSet, SettlementFolds!IsFiniteSet
<1>2. \E t : SettlementFolds!SetTrace(t, base, S) /\ t[S] = SettlementFolds!SetFold(base, S)
  BY <1>1, SettlementFolds!SetTraceExists
<1> QED
  BY <1>2, SettlementFoldIs

\* Escrow events are reversed one at a time.
LEMMA EventFoldTrace ==
    ASSUME NEW S, IsFiniteSet(S), NEW base
    PROVE  \E t : EventFolds!SetTrace(t, base, S) /\ t[S] = FoldSet(ReverseEvent, base, S)
<1>1. EventFolds!IsFiniteSet(S)
  BY DEF IsFiniteSet, EventFolds!IsFiniteSet
<1>2. \E t : EventFolds!SetTrace(t, base, S) /\ t[S] = EventFolds!SetFold(base, S)
  BY <1>1, EventFolds!SetTraceExists
<1> QED
  BY <1>2, EventFoldIs

\* The live rows in S are orphaned, the others are as they were.
OrphanedAll(t, S, u) ==
    /\ DOMAIN u = DOMAIN t
    /\ Live(u) = Live(t) \ S
    /\ \A id \in DOMAIN t : u[id].event = t[id].event /\ u[id].generation = t[id].generation

\* One more row orphaned extends the set of rows orphaned.
LEMMA OneMoreOrphaned ==
    ASSUME NEW t, NEW S, NEW u, OrphanedAll(t, S, u), NEW id \in DOMAIN u, NEW v, OrphanedTo(u, id, v),
           NEW T, T = S \cup {id}
    PROVE  OrphanedAll(t, T, v)
<1>1. DOMAIN v = DOMAIN t /\ Live(v) = Live(t) \ T
  BY DEF OrphanedAll, OrphanedTo
<1>2. ASSUME NEW other \in DOMAIN t
      PROVE  v[other].event = t[other].event /\ v[other].generation = t[other].generation
  <2>1. u[other].event = t[other].event /\ u[other].generation = t[other].generation
    BY DEF OrphanedAll
  <2>2. other # id => v[other] = u[other]
    BY DEF OrphanedAll, OrphanedTo
  <2>3. v[id].event = u[id].event /\ v[id].generation = u[id].generation
    BY DEF OrphanedTo
  <2> QED
    BY <2>1, <2>2, <2>3
<1> QED
  BY <1>1, <1>2 DEF OrphanedAll

\* What reversing the settlements in S does.
SettlementsReversed(b, S, r) ==
    /\ InOrder(r, Followed) /\ (b.ok => r.ok)
    /\ r.events = b.events /\ OrphanedAll(b.settlements, S, r.settlements)

EventsReversed(b, S, r) ==
    /\ InOrder(r, Followed) /\ (b.ok => r.ok)
    /\ r.settlements = b.settlements /\ OrphanedAll(b.events, S, r.events)

\* Any set of live settlements is reversed in order, with nothing refused.
LEMMA ReverseSettlements ==
    ASSUME NEW b, InOrder(b, Followed), NEW S \in SUBSET Live(b.settlements),
           NEW r, r = FoldSet(ReverseSettlement, b, S)
    PROVE  SettlementsReversed(b, S, r)
<1>1. IsFiniteSet(S)
  BY LiveIsFinite, FS_Subset DEF InOrder, BooksType
<1>2. SettlementFolds!IsFiniteSet(S)
  BY <1>1 DEF IsFiniteSet, SettlementFolds!IsFiniteSet
<1> PICK t : SettlementFolds!SetTrace(t, b, S) /\ t[S] = FoldSet(ReverseSettlement, b, S)
  BY <1>1, SettlementFoldTrace
<1>3. /\ t[{}] = b /\ t[S] = FoldSet(ReverseSettlement, b, S)
      /\ \A T \in SUBSET S : T # {} => \E x \in T : t[T] = ReverseSettlement(x, t[T \ {x}])
  BY DEF SettlementFolds!SetTrace
<1> DEFINE F == {T \in SUBSET S : SettlementsReversed(b, T, t[T])}
<1>4. {} \in F
  BY <1>3 DEF SettlementsReversed, OrphanedAll
<1>5. ASSUME NEW T \in SUBSET S, T # {}, \A x \in T : T \ {x} \in F
      PROVE  T \in F
  <2>1. PICK x \in T : t[T] = ReverseSettlement(x, t[T \ {x}])
    BY <1>3, <1>5
  <2> PICK U : U = T \ {x}
    OBVIOUS
  <2> PICK c : c = t[U]
    OBVIOUS
  <2> PICK d : d = t[T]
    OBVIOUS
  <2>2. SettlementsReversed(b, U, c) /\ d = ReverseSettlement(x, c) /\ T = U \cup {x} /\ x \notin U
    BY <1>5, <2>1
  <2>3. x \in Live(c.settlements) /\ InOrder(c, Followed)
    BY <2>2 DEF SettlementsReversed, OrphanedAll
  <2>4. /\ InOrder(d, Followed)
        /\ d.settlements = Orphaned(c.settlements, x) /\ d.events = c.events
        /\ c.ok => d.ok
    BY <2>2, <2>3, ReverseSettlementKeepsOrder
  <2>5. x \in DOMAIN c.settlements /\ Table(c.settlements)
    BY <2>3, LiveIsFinite DEF InOrder, BooksType
  <2>6. OrphanedTo(c.settlements, x, d.settlements)
    BY <2>4, <2>5, OrphanedIsTable
  <2>7. OrphanedAll(b.settlements, T, d.settlements)
    BY <2>2, <2>5, <2>6, OneMoreOrphaned DEF SettlementsReversed
  <2> QED
    BY <2>2, <2>4, <2>7 DEF SettlementsReversed
<1> HIDE DEF F
<1>6. S \in F
  BY <1>2, <1>4, <1>5, SettlementFolds!FiniteInduction
<1> QED
  BY <1>3, <1>6 DEF F

\* Any set of live escrow events is reversed in order, with nothing refused.
LEMMA ReverseEvents ==
    ASSUME NEW b, InOrder(b, Followed), NEW S \in SUBSET Live(b.events),
           NEW r, r = FoldSet(ReverseEvent, b, S)
    PROVE  EventsReversed(b, S, r)
<1>1. IsFiniteSet(S)
  BY LiveIsFinite, FS_Subset DEF InOrder, BooksType
<1>2. EventFolds!IsFiniteSet(S)
  BY <1>1 DEF IsFiniteSet, EventFolds!IsFiniteSet
<1> PICK t : EventFolds!SetTrace(t, b, S) /\ t[S] = FoldSet(ReverseEvent, b, S)
  BY <1>1, EventFoldTrace
<1>3. /\ t[{}] = b /\ t[S] = FoldSet(ReverseEvent, b, S)
      /\ \A T \in SUBSET S : T # {} => \E x \in T : t[T] = ReverseEvent(x, t[T \ {x}])
  BY DEF EventFolds!SetTrace
<1> DEFINE F == {T \in SUBSET S : EventsReversed(b, T, t[T])}
<1>4. {} \in F
  BY <1>3 DEF EventsReversed, OrphanedAll
<1>5. ASSUME NEW T \in SUBSET S, T # {}, \A x \in T : T \ {x} \in F
      PROVE  T \in F
  <2>1. PICK x \in T : t[T] = ReverseEvent(x, t[T \ {x}])
    BY <1>3, <1>5
  <2> PICK U : U = T \ {x}
    OBVIOUS
  <2> PICK c : c = t[U]
    OBVIOUS
  <2> PICK d : d = t[T]
    OBVIOUS
  <2>2. EventsReversed(b, U, c) /\ d = ReverseEvent(x, c) /\ T = U \cup {x} /\ x \notin U
    BY <1>5, <2>1
  <2>3. x \in Live(c.events) /\ InOrder(c, Followed)
    BY <2>2 DEF EventsReversed, OrphanedAll
  <2>4. /\ InOrder(d, Followed)
        /\ d.events = Orphaned(c.events, x) /\ d.settlements = c.settlements
        /\ c.ok => d.ok
    BY <2>2, <2>3, ReverseEventKeepsOrder
  <2>5. x \in DOMAIN c.events /\ Table(c.events)
    BY <2>3, LiveIsFinite DEF InOrder, BooksType
  <2>6. OrphanedTo(c.events, x, d.events)
    BY <2>4, <2>5, OrphanedIsTable
  <2>7. OrphanedAll(b.events, T, d.events)
    BY <2>2, <2>5, <2>6, OneMoreOrphaned DEF EventsReversed
  <2> QED
    BY <2>2, <2>4, <2>7 DEF EventsReversed
<1> HIDE DEF F
<1>6. S \in F
  BY <1>2, <1>4, <1>5, EventFolds!FiniteInduction
<1> QED
  BY <1>3, <1>6 DEF F

\* Rewinding orphans what is above the ancestor.
THEOREM RewoundKeepsOrder ==
    ASSUME NEW b, InOrder(b, Followed), NEW number, NEW r, r = Rewound(b, number)
    PROVE  /\ InOrder(r, Followed) /\ (b.ok => r.ok)
           /\ OrphanedAll(b.settlements, Above(b.settlements, number), r.settlements)
           /\ OrphanedAll(b.events, Above(b.events, number), r.events)
<1> PICK S : S = Above(b.settlements, number)
  OBVIOUS
<1> PICK T : T = Above(b.events, number)
  OBVIOUS
<1>1. S \in SUBSET Live(b.settlements) /\ T \in SUBSET Live(b.events)
  BY DEF Above
<1> PICK m : m = FoldSet(ReverseSettlement, b, S)
  OBVIOUS
<1>2. r = FoldSet(ReverseEvent, m, T)
  BY DEF Rewound
<1>3. SettlementsReversed(b, S, m)
  BY <1>1, ReverseSettlements
<1>4. T \in SUBSET Live(m.events) /\ InOrder(m, Followed)
  BY <1>1, <1>3 DEF SettlementsReversed
<1>5. EventsReversed(m, T, r)
  BY <1>2, <1>4, ReverseEvents
<1> QED
  BY <1>3, <1>5 DEF SettlementsReversed, EventsReversed

-----------------------------------------------------------------------------
(***************************************************************************)
(* Apply                                                                   *)
(***************************************************************************)
\* The row of e is live, as it was or as a new generation.
LiveRow(t, e, u) == IF e.id \in Live(t) THEN u = t ELSE RaisedTo(t, e, u)

\* Nothing is posted yet for the generation that comes.
LEMMA NextSettlementIsUnused ==
    ASSUME NEW b, InOrder(b, Followed), NEW e \in Events, NEW u, RaisedTo(b.settlements, e, u)
    PROVE  Unused(b, "settle", e.id, u[e.id].generation)
<1>1. Table(b.settlements) /\ \A key \in b.keys : KeyKnown(key, b)
  BY DEF InOrder, BooksType, KeysKnown
<1>2. \A id \in DOMAIN b.settlements : b.settlements[id].generation \in Nat
  BY <1>1 DEF Table, Rows
<1>3. u[e.id].generation = IF e.id \in DOMAIN b.settlements THEN b.settlements[e.id].generation + 1 ELSE 0
  BY DEF RaisedTo
<1> SUFFICES ASSUME NEW key \in b.keys, key.of = "settle", key.id = e.id,
                    key.generation = u[e.id].generation
             PROVE  FALSE
  BY DEF Unused
<1>4. /\ e.id \in DOMAIN b.settlements /\ key.generation \in Nat
      /\ key.generation <= b.settlements[e.id].generation
  BY <1>1 DEF KeyKnown
<1> QED
  BY <1>2, <1>3, <1>4

\* The generation an escrow event is raised to has no key yet.
LEMMA NextEventIsUnused ==
    ASSUME NEW b, InOrder(b, Followed), NEW e \in Events, NEW u, RaisedTo(b.events, e, u)
    PROVE  Unused(b, "event", e.id, u[e.id].generation)
<1>1. Table(b.events) /\ \A key \in b.keys : KeyKnown(key, b)
  BY DEF InOrder, BooksType, KeysKnown
<1>2. \A id \in DOMAIN b.events : b.events[id].generation \in Nat
  BY <1>1 DEF Table, Rows
<1>3. u[e.id].generation = IF e.id \in DOMAIN b.events THEN b.events[e.id].generation + 1 ELSE 0
  BY DEF RaisedTo
<1> SUFFICES ASSUME NEW key \in b.keys, key.of = "event", key.id = e.id,
                    key.generation = u[e.id].generation
             PROVE  FALSE
  BY DEF Unused
<1>4. /\ e.id \in DOMAIN b.events /\ key.generation \in Nat
      /\ key.generation <= b.events[e.id].generation
  BY <1>1 DEF KeyKnown
<1> QED
  BY <1>2, <1>3, <1>4

\* What the transaction asks of a settlement.
SettlementFits(b, e) ==
    /\ SameData(b.settlements, e)
    /\ e.id \notin Live(b.settlements) => Paid(e) <= e.amount /\ SplitMatches(b, e)

\* A settlement applied keeps the books in order, and is refused only when it
\* does not fit the row.
LEMMA ApplySettlementKeepsOrder ==
    ASSUME NEW b, InOrder(b, Followed), NEW e \in Events, NEW r, r = ApplySettlement(b, e)
    PROVE  /\ InOrder(r, Followed) /\ r.events = b.events
           /\ LiveRow(b.settlements, e, r.settlements)
           /\ r.ok => b.ok /\ SettlementFits(b, e)
           /\ b.ok /\ SettlementFits(b, e) => r.ok
<1> PICK id : id = e.id
  OBVIOUS
<1>1. BooksType(b) /\ Table(b.settlements) /\ b.ok \in BOOLEAN
  BY DEF InOrder, BooksType
<1>2. CASE id \in Live(b.settlements)
  <2> PICK ok \in BOOLEAN : ok = (b.ok /\ SameData(b.settlements, e))
    OBVIOUS
  <2>1. r = [b EXCEPT !.ok = ok]
    BY <1>2 DEF ApplySettlement
  <2> PICK t : t = b.events
    OBVIOUS
  <2>2. EventsBecome(b, r, t, ok)
    BY <1>1, <2>1 DEF EventsBecome, BooksType
  <2>3. Table(t) /\ Ages(b.events, t)
    BY <1>1, AgesNot DEF BooksType
  <2> PICK D \in SUBSET Followed : D = Followed
    OBVIOUS
  <2>4. InOrder(b, D)
    OBVIOUS
  <2>5. InOrder(r, D) /\ r.events = t /\ r.settlements = b.settlements /\ r.ok = ok
    BY <2>2, <2>3, <2>4, EventChanges
  <2> QED
    BY <1>2, <2>5 DEF LiveRow, SettlementFits
<1>3. CASE id \notin Live(b.settlements)
  <2> PICK t : t = Raised(b.settlements, e)
    OBVIOUS
  <2>1. RaisedTo(b.settlements, e, t)
    BY <1>1, RaisedIsTable
  <2>2. /\ Table(t) /\ Ages(b.settlements, t)
        /\ DOMAIN t = DOMAIN b.settlements \cup {id}
        /\ \A other \in DOMAIN b.settlements \ {id} : t[other] = b.settlements[other]
        /\ id \in Live(t) /\ t[id].event = e
    BY <1>1, <2>1, RaisedAges DEF RaisedTo
  <2> PICK g \in Nat : g = t[id].generation
    BY <2>2 DEF Table, Rows
  <2>fits. PICK fits \in BOOLEAN : fits = (/\ Paid(e) <= e.amount
                                      /\ SameData(b.settlements, e)
                                      /\ SplitMatches(b, e))
    OBVIOUS
  <2>ok. PICK ok \in BOOLEAN : ok = (b.ok /\ fits)
    OBVIOUS
  <2>old. PICK old : old = IF id \in DOMAIN b.settlements THEN "orphaned" ELSE "none"
    OBVIOUS
  <2>next. PICK next : next = "settled"
    OBVIOUS
  <2>m. PICK m : m = [b EXCEPT !.settlements = t, !.summary = Counted(b.summary, old, next, e), !.ok = ok]
    OBVIOUS
  <2>3. SettlementsBecome(b, m, t, old, next, e, ok)
    BY <2>m DEF SettlementsBecome
  <2>4. r = FromEscrow(m, Key("settle", id, g), e, "spend")
    <3>1. m = [b EXCEPT !.settlements = t,
                        !.summary = Counted(@, old, "settled", e),
                        !.ok = /\ @ /\ Paid(e) <= e.amount
                               /\ SameData(b.settlements, e)
                               /\ SplitMatches(b, e)]
      BY <1>1, <2>m, <2>next, <2>ok, <2>fits DEF BooksType
    <3> QED
      BY <1>3, <2>old, <3>1 DEF ApplySettlement
  <2>5. InOrder(m, Followed) /\ m.events = b.events /\ m.settlements = t /\ m.keys = b.keys /\ m.ok = ok
    <3> PICK D \in SUBSET Followed : D = Followed
      OBVIOUS
    <3>1. InOrder(b, D)
      OBVIOUS
    <3>2. /\ (id \in Live(b.settlements)) # (id \in Live(t))
          /\ id \in Live(b.settlements) => b.settlements[id].event = e
          /\ id \in Live(t) => t[id].event = e
          /\ old = IF id \in Live(b.settlements) THEN "settled"
                   ELSE IF id \in DOMAIN b.settlements THEN "orphaned" ELSE "none"
          /\ next = IF id \in Live(t) THEN "settled" ELSE "orphaned"
      BY <1>3, <2>2, <2>old, <2>next
    <3>3. InOrder(m, D) /\ m.events = b.events /\ m.settlements = t /\ m.keys = b.keys
          /\ m.ledger = b.ledger /\ m.ok = ok
      BY <2>2, <2>3, <3>1, <3>2, SettlementChanges
    <3> QED
      BY <3>3
  <2> PICK of : of = "settle"
    OBVIOUS
  <2>6. Unused(m, of, id, g)
    BY <2>1, <2>5, NextSettlementIsUnused DEF Unused
  <2>7. KeyKnown(Key(of, id, g), m)
    BY <2>2, <2>5 DEF KeyKnown, Key
  <2>8. KeepsOrder(m, r, Followed, of, id, g)
    <3>1. e.sender \in Followed /\ e.deposit \in Int /\ e.reserve \in Int
      BY DEF Events
    <3> QED
      BY <2>4, <2>5, <2>7, <3>1, EscrowPostingKeepsOrder
  <2>9. r.ok => m.ok
    BY <2>6, <2>8 DEF KeepsOrder
  <2>10. m.ok => r.ok
    BY <2>6, <2>8 DEF KeepsOrder
  <2> QED
    BY <1>3, <2>1, <2>5, <2>8, <2>9, <2>10, <2>fits, <2>ok DEF KeepsOrder, SameRows, LiveRow, SettlementFits
<1> QED
  BY <1>2, <1>3

\* What the transaction asks of an event.
EventFits(b, e) ==
    /\ SameData(b.events, e)
    /\ e.kind = "winning_ticket_redeemed" => SettlementFits(b, e)
    /\ e.kind = "withdrawal" /\ e.id \notin Live(b.events) => ExactBalance(b, e)

\* The settlements that an event leads to.
SettledBy(t, e, u) == IF e.kind = "winning_ticket_redeemed" THEN LiveRow(t, e, u) ELSE u = t

\* The books with the event's row in, before its postings.
RowApplied(b, e, m) ==
    /\ InOrder(m, Followed)
    /\ LiveRow(b.events, e, m.events) /\ m.settlements = b.settlements
    /\ m.ledger = b.ledger /\ m.keys = b.keys

\* Applying an escrow event writes its row, or finds it live.
LEMMA RowOfEvent ==
    ASSUME NEW b, InOrder(b, Followed), NEW e \in Events, NEW ok \in BOOLEAN,
           NEW t, t = IF e.id \in Live(b.events) THEN b.events ELSE Raised(b.events, e),
           NEW m, EventsBecome(b, m, t, ok)
    PROVE  RowApplied(b, e, m) /\ m.ok = ok
<1>1. Table(b.events)
  BY DEF InOrder, BooksType
<1>2. Table(t) /\ Ages(b.events, t) /\ LiveRow(b.events, e, t)
  <2>1. CASE e.id \in Live(b.events)
    BY <1>1, <2>1, AgesNot DEF LiveRow
  <2>2. CASE e.id \notin Live(b.events)
    <3>1. RaisedTo(b.events, e, t)
      BY <1>1, <2>2, RaisedIsTable
    <3> QED
      BY <1>1, <2>2, <3>1, RaisedAges DEF LiveRow, RaisedTo
  <2> QED
    BY <2>1, <2>2
<1> PICK D \in SUBSET Followed : D = Followed
  OBVIOUS
<1>3. InOrder(b, D)
  OBVIOUS
<1>4. InOrder(m, D) /\ m.events = t /\ m.settlements = b.settlements /\ m.keys = b.keys
      /\ m.ledger = b.ledger /\ m.ok = ok
  BY <1>2, <1>3, EventChanges
<1> QED
  BY <1>2, <1>4 DEF RowApplied

\* What applying an event does.
EventApplied(b, e, r) ==
    /\ InOrder(r, Followed)
    /\ LiveRow(b.events, e, r.events) /\ SettledBy(b.settlements, e, r.settlements)
    /\ r.ok => b.ok /\ EventFits(b, e)
    /\ b.ok /\ EventFits(b, e) => r.ok

\* An escrow event applied keeps the books in order and leaves its row live.
LEMMA ApplyEscrowEventKeepsOrder ==
    ASSUME NEW b, InOrder(b, Followed), NEW e \in Events, NEW r, r = ApplyEscrowEvent(b, e)
    PROVE  EventApplied(b, e, r)
<1> DEFINE live == e.id \in Live(b.events)
<1>t. PICK t : t = IF e.id \in Live(b.events) THEN b.events ELSE Raised(b.events, e)
  OBVIOUS
<1>s. PICK same : same = [b EXCEPT !.ok = @ /\ SameData(b.events, e)]
  OBVIOUS
<1>m. PICK m : m = [same EXCEPT !.events = t]
  OBVIOUS
<1>1. BooksType(b) /\ b.ok \in BOOLEAN
  BY DEF InOrder, BooksType
<1>2. EventsBecome(b, m, t, b.ok /\ SameData(b.events, e))
  BY <1>1, <1>s, <1>m DEF EventsBecome, BooksType
<1>3. RowApplied(b, e, m) /\ m.ok = (b.ok /\ SameData(b.events, e))
  <2>ok. PICK ok \in BOOLEAN : ok = (b.ok /\ SameData(b.events, e))
    OBVIOUS
  <2>1. EventsBecome(b, m, t, ok)
    BY <1>2, <2>ok
  <2>2. RowApplied(b, e, m) /\ m.ok = ok
    BY <1>t, <2>1, RowOfEvent
  <2> QED
    BY <2>2, <2>ok
<1>4. live => m = same
  BY <1>1, <1>m, <1>s, <1>t DEF BooksType
<1>5. ~live => m = [same EXCEPT !.events = Raised(b.events, e)]
  BY <1>m, <1>t
<1> PICK g : g = Raised(b.events, e)[e.id].generation
  OBVIOUS
<1>6. /\ e.kind = "winning_ticket_redeemed" => r = ApplySettlement(m, e)
      /\ e.kind # "winning_ticket_redeemed" /\ live => r = m
      /\ e.kind \in Funding /\ ~live =>
            r = Transfer(m, Key("event", e.id, g), e.sender, "cash", Bucket(e), e.amount)
      /\ e.kind = "withdrawal" /\ ~live =>
            r = FromEscrow([m EXCEPT !.ok = @ /\ ExactBalance(b, e)], Key("event", e.id, g), e, "cash")
      /\ e.kind \notin Funding \cup {"winning_ticket_redeemed", "withdrawal"} /\ ~live => r = m
  <2>1. CASE live
    <3>1. r = IF e.kind = "winning_ticket_redeemed" THEN ApplySettlement(same, e) ELSE same
      BY <1>s, <2>1 DEF ApplyEscrowEvent, Funding
    <3> QED
      BY <1>4, <2>1, <3>1
  <2>2. CASE ~live
    <3> HIDE DEF live
    <3>1. /\ e.kind = "winning_ticket_redeemed" => r = ApplySettlement(m, e)
          /\ e.kind \in Funding =>
                r = Transfer(m, Key("event", e.id, g), e.sender, "cash", Bucket(e), e.amount)
          /\ e.kind = "withdrawal" =>
                r = FromEscrow([m EXCEPT !.ok = @ /\ ExactBalance(b, e)], Key("event", e.id, g), e, "cash")
          /\ e.kind \notin Funding \cup {"winning_ticket_redeemed", "withdrawal"} => r = m
      BY <1>5, <1>s, <2>2 DEF ApplyEscrowEvent, Funding, live
    <3> QED
      BY <2>2, <3>1
  <2> QED
    BY <2>1, <2>2
<1> HIDE DEF live
<1>7. e.sender \in Followed /\ e.deposit \in Int /\ e.reserve \in Int /\ e.amount \in Int
      /\ e.kind \in EventKinds
  BY DEF Events
<1>8. CASE e.kind = "winning_ticket_redeemed"
  <2>1. r = ApplySettlement(m, e)
    BY <1>6, <1>8
  <2>2. InOrder(m, Followed)
    BY <1>3 DEF RowApplied
  <2>3. /\ InOrder(r, Followed) /\ r.events = m.events
        /\ LiveRow(m.settlements, e, r.settlements)
        /\ r.ok => m.ok /\ SettlementFits(m, e)
        /\ m.ok /\ SettlementFits(m, e) => r.ok
    BY <2>1, <2>2, ApplySettlementKeepsOrder
  <2>4. SettlementFits(m, e) <=> SettlementFits(b, e)
    BY <1>3 DEF RowApplied, SettlementFits, SplitMatches
  <2>5. EventFits(b, e) <=> (SameData(b.events, e) /\ SettlementFits(b, e))
    BY <1>8 DEF EventFits
  <2> QED
    BY <1>3, <1>8, <2>3, <2>4, <2>5 DEF RowApplied, EventApplied, SettledBy
<1>9. ASSUME e.kind # "winning_ticket_redeemed" /\ r = m, e.kind = "withdrawal" => live
      PROVE  EventApplied(b, e, r)
  <2>1. EventFits(b, e) <=> SameData(b.events, e)
    BY <1>9 DEF EventFits, live
  <2> QED
    BY <1>3, <1>9, <2>1 DEF RowApplied, EventApplied, SettledBy
<1>10. CASE e.kind # "winning_ticket_redeemed" /\ live
  BY <1>6, <1>9, <1>10
<1> PICK of : of = "event"
  OBVIOUS
<1>11. ASSUME ~live
       PROVE  KeyKnown(Key(of, e.id, g), m) /\ Unused(m, of, e.id, g)
  <2>1. RaisedTo(b.events, e, m.events) /\ m.events = Raised(b.events, e) /\ m.keys = b.keys
    BY <1>3, <1>2, <1>11, <1>t, <1>1 DEF live, RowApplied, LiveRow, EventsBecome, BooksType
  <2>2. g = m.events[e.id].generation /\ g \in Nat /\ e.id \in DOMAIN m.events
    BY <2>1 DEF RaisedTo, Table, Rows
  <2>3. Unused(b, of, e.id, g)
    BY <2>1, <2>2, NextEventIsUnused
  <2>4. Unused(m, of, e.id, g)
    BY <2>1, <2>3 DEF Unused
  <2> QED
    BY <2>2, <2>4 DEF KeyKnown, Key
<1>12. CASE e.kind \in Funding /\ ~live
  <2> PICK bucket : bucket = Bucket(e)
    OBVIOUS
  <2>1. bucket \in Accounts /\ "cash" \in Accounts /\ bucket # "cash"
    BY DEF Bucket, Accounts, Buckets
  <2> PICK sender \in Followed : sender = e.sender
    BY <1>7
  <2> PICK units \in Int : units = e.amount
    BY <1>7
  <2>2. r = Transfer(m, Key(of, e.id, g), sender, "cash", bucket, units)
    BY <1>6, <1>12 DEF Funding
  <2>3. KeepsOrder(m, r, Followed, of, e.id, g)
    BY <1>3, <1>11, <1>12, <2>1, <2>2, OneTransferKeepsOrder DEF RowApplied
  <2>4. (EventFits(b, e) <=> SameData(b.events, e)) /\ e.kind # "winning_ticket_redeemed"
    BY <1>12 DEF EventFits, Funding
  <2> QED
    BY <1>3, <1>11, <1>12, <2>3, <2>4 DEF RowApplied, KeepsOrder, SameRows, EventApplied, SettledBy
<1>13. CASE e.kind = "withdrawal" /\ ~live
  <2>fits. PICK fits \in BOOLEAN : fits = ExactBalance(b, e)
    BY DEF ExactBalance
  <2>n. PICK n : n = [m EXCEPT !.ok = @ /\ fits]
    OBVIOUS
  <2>1. r = FromEscrow(n, Key(of, e.id, g), e, "cash")
    BY <1>6, <1>13, <2>fits, <2>n DEF Funding
  <2>2. InOrder(n, Followed) /\ n.events = m.events /\ n.settlements = m.settlements
        /\ n.keys = m.keys /\ n.ok = (m.ok /\ fits)
    <3>1. InOrder(m, Followed) /\ BooksType(m)
      BY <1>3 DEF RowApplied, InOrder
    <3>ok. PICK ok \in BOOLEAN : ok = (m.ok /\ fits)
      OBVIOUS
    <3>u. PICK u : u = m.events
      OBVIOUS
    <3>2. EventsBecome(m, n, u, ok)
      BY <2>n, <3>1, <3>ok, <3>u DEF EventsBecome, BooksType
    <3>3. Table(u) /\ Ages(m.events, u)
      BY <3>1, <3>u, AgesNot DEF BooksType
    <3>d. PICK D \in SUBSET Followed : D = Followed
      OBVIOUS
    <3>4. InOrder(m, D)
      BY <3>1, <3>d
    <3>5. InOrder(n, D) /\ n.events = u /\ n.settlements = m.settlements /\ n.keys = m.keys
          /\ n.ledger = m.ledger /\ n.ok = ok
      BY <3>2, <3>3, <3>4, EventChanges
    <3> QED
      BY <3>5, <3>d, <3>u, <3>ok
  <2>3. KeyKnown(Key(of, e.id, g), n) /\ Unused(n, of, e.id, g)
    BY <1>11, <1>13, <2>2 DEF KeyKnown, Unused
  <2>4. KeepsOrder(n, r, Followed, of, e.id, g)
    BY <1>7, <2>1, <2>2, <2>3, EscrowPostingKeepsOrder
  <2>5. EventFits(b, e) <=> (SameData(b.events, e) /\ fits)
    BY <1>13, <2>fits DEF EventFits, live
  <2> QED
    BY <1>3, <1>13, <2>2, <2>3, <2>4, <2>5 DEF RowApplied, KeepsOrder, SameRows, EventApplied, SettledBy
<1>14. CASE e.kind \notin Funding \cup {"winning_ticket_redeemed", "withdrawal"} /\ ~live
  <2>1. r = m
    BY <1>6, <1>14
  <2> QED
    BY <1>9, <1>14, <2>1
<1> QED
  BY <1>8, <1>10, <1>12, <1>13, <1>14

ApplyFolds == INSTANCE FoldProofs WITH op <- ApplyEscrowEvent

\* Events are applied one at a time.
LEMMA ApplyFoldTrace ==
    ASSUME NEW n \in Nat, NEW seq, DOMAIN seq = 1 .. n, NEW base
    PROVE  \E t : ApplyFolds!Trace(t, base, n, seq) /\ t[n] = FoldLeft(ApplyEscrowEvent, base, seq)
<1>1. \E t : ApplyFolds!Trace(t, base, n, seq) /\ t[n] = ApplyFolds!LeftFold(base, seq)
  BY ApplyFolds!TraceExists
<1>2. ApplyFolds!LeftFold(base, seq) = FoldLeft(ApplyEscrowEvent, base, seq)
  BY DEF ApplyFolds!LeftFold, ApplyFolds!FoldLeft, ApplyFolds!MapThenFoldSet, ApplyFolds!Max,
         FoldLeft, MapThenFoldSet, Max
<1> QED
  BY <1>1, <1>2

\* The first k events, and the redemptions among them, by identity.
Those(events, k) == {events[i].id : i \in 1 .. k}
Redeemed(events, k) ==
    {events[i].id : i \in {j \in 1 .. k : events[j].kind = "winning_ticket_redeemed"}}

\* What applying the first k events does.
EventsApplied(b, events, k, r) ==
    /\ InOrder(r, Followed) /\ (r.ok => b.ok)
    /\ DOMAIN r.events = DOMAIN b.events \cup Those(events, k)
    /\ Live(r.events) = Live(b.events) \cup Those(events, k)
    /\ DOMAIN r.settlements = DOMAIN b.settlements \cup Redeemed(events, k)
    /\ Live(r.settlements) = Live(b.settlements) \cup Redeemed(events, k)

\* A row applied joins the table and its live rows.
LEMMA LiveRowJoins ==
    ASSUME NEW t, NEW e, NEW u, LiveRow(t, e, u)
    PROVE  DOMAIN u = DOMAIN t \cup {e.id} /\ Live(u) = Live(t) \cup {e.id}
<1>1. Live(t) \subseteq DOMAIN t
  BY DEF Live
<1> QED
  BY <1>1 DEF LiveRow, RaisedTo

\* Applying any events keeps the books in order, through every statement of the
\* transaction (Store.ApplyChain).
THEOREM AppliedKeepsOrder ==
    ASSUME NEW b, InOrder(b, Followed), NEW n \in Nat, NEW events, DOMAIN events = 1 .. n,
           \A i \in 1 .. n : events[i] \in Events, NEW r, r = Applied(b, events)
    PROVE  EventsApplied(b, events, n, r)
<1>1. PICK t : ApplyFolds!Trace(t, b, n, events) /\ t[n] = r
  BY ApplyFoldTrace DEF Applied
<1>2. t[0] = b /\ \A i \in 1 .. n : t[i] = ApplyEscrowEvent(t[i - 1], events[i])
  BY <1>1 DEF ApplyFolds!Trace
<1> DEFINE F == {i \in 0 .. n : EventsApplied(b, events, i, t[i])}
<1>3. 0 \in F
  <2>1. 1 .. 0 = {}
    OBVIOUS
  <2>2. Those(events, 0) = {} /\ Redeemed(events, 0) = {}
    BY <2>1 DEF Those, Redeemed
  <2> QED
    BY <1>2, <2>2 DEF EventsApplied
<1>4. ASSUME NEW i \in 1 .. n, i - 1 \in F PROVE i \in F
  <2>j. PICK j : j = i - 1
    OBVIOUS
  <2>c. PICK c : c = t[j]
    OBVIOUS
  <2>d. PICK d : d = t[i]
    OBVIOUS
  <2>e. PICK e \in Events : e = events[i]
    OBVIOUS
  <2>1. EventsApplied(b, events, j, c) /\ d = ApplyEscrowEvent(c, e)
    BY <1>2, <1>4, <2>j, <2>c, <2>d, <2>e
  <2>2. EventApplied(c, e, d)
    BY <2>1, ApplyEscrowEventKeepsOrder DEF EventsApplied
  <2>3. 1 .. i = (1 .. j) \cup {i} /\ i \notin 1 .. j
    BY <2>j
  <2>4. Those(events, i) = Those(events, j) \cup {e.id}
    BY <2>3, <2>e DEF Those
  <2>5. Redeemed(events, i) = IF e.kind = "winning_ticket_redeemed"
                              THEN Redeemed(events, j) \cup {e.id} ELSE Redeemed(events, j)
    <3> DEFINE J == {k \in 1 .. j : events[k].kind = "winning_ticket_redeemed"}
               I == {k \in 1 .. i : events[k].kind = "winning_ticket_redeemed"}
    <3>1. I = IF e.kind = "winning_ticket_redeemed" THEN J \cup {i} ELSE J
      BY <2>3, <2>e
    <3>2. Redeemed(events, i) = {events[k].id : k \in I} /\ Redeemed(events, j) = {events[k].id : k \in J}
      BY DEF Redeemed
    <3> HIDE DEF I, J
    <3> QED
      BY <2>e, <3>1, <3>2
  <2>6. /\ DOMAIN d.events = DOMAIN c.events \cup {e.id}
        /\ Live(d.events) = Live(c.events) \cup {e.id}
    BY <2>2, LiveRowJoins DEF EventApplied
  <2>7. IF e.kind = "winning_ticket_redeemed"
        THEN /\ DOMAIN d.settlements = DOMAIN c.settlements \cup {e.id}
             /\ Live(d.settlements) = Live(c.settlements) \cup {e.id}
        ELSE d.settlements = c.settlements
    BY <2>2, LiveRowJoins DEF EventApplied, SettledBy
  <2>8. InOrder(d, Followed) /\ (d.ok => c.ok)
    BY <2>2 DEF EventApplied
  <2>9. EventsApplied(b, events, i, d)
    BY <2>1, <2>4, <2>5, <2>6, <2>7, <2>8 DEF EventsApplied
  <2> QED
    BY <2>9, <2>d
<1> HIDE DEF F
<1>5. n \in F
  BY <1>3, <1>4, ApplyFolds!TraceInduction
<1> QED
  BY <1>1, <1>5 DEF F

-----------------------------------------------------------------------------
(***************************************************************************)
(* The opening snapshot                                                    *)
(***************************************************************************)
\* The books when the escrows of the senders in D are open.
OpenedOf(b, D) ==
    /\ InOrder(b, D) /\ b.ok
    /\ b.events = EmptyBooks.events /\ b.settlements = EmptyBooks.settlements
    /\ \A key \in b.keys : key.of = "snapshot" /\ key.id \in D

\* An empty row of both buckets is registered for a sender.
Registers(b, r) == r = [b EXCEPT !.summary.unfunded = [c \in Buckets |-> @[c] + 1]]

\* A signer's accounts, opened empty, keep the books in order.
LEMMA RegisteredKeepsOrder ==
    ASSUME NEW b, NEW D \in SUBSET Followed, InOrder(b, D), NEW sender \in Followed \ D,
           NEW r, Registers(b, r), NEW E, E = D \cup {sender}
    PROVE  /\ InOrder(r, E) /\ r.ok = b.ok /\ r.keys = b.keys
           /\ r.events = b.events /\ r.settlements = b.settlements
           /\ r.ledger = b.ledger
<1>1. BooksType(b)
  BY DEF InOrder
<1> DEFINE s == b.summary
           unfunded == [c \in Buckets |-> s.unfunded[c] + 1]
           v == [s EXCEPT !.unfunded = unfunded]
<1>2. s \in Summaries /\ s.unfunded \in [Buckets -> Int]
  BY <1>1 DEF BooksType, Summaries
<1>3. unfunded \in [Buckets -> Int]
  BY <1>2
<1>4. /\ v \in Summaries /\ v.unfunded = unfunded /\ v.held = s.held /\ SameCounts(s, v)
  <2> HIDE DEF unfunded, s
  <2> QED
    BY <1>2, <1>3 DEF Summaries, SameCounts
<1>5. r = [b EXCEPT !.summary = v]
  BY <1>1 DEF BooksType, Summaries, Registers
<1> HIDE DEF v
<1>6. /\ r.events = b.events /\ r.settlements = b.settlements /\ r.keys = b.keys
      /\ r.ledger = b.ledger /\ r.ok = b.ok /\ r.summary = v
      /\ r = [events |-> r.events, settlements |-> r.settlements, keys |-> r.keys, ok |-> r.ok,
              ledger |-> r.ledger, summary |-> r.summary]
  BY <1>1, <1>5 DEF BooksType
<1>7. BooksType(r)
  BY <1>1, <1>4, <1>6 DEF BooksType
<1>8. SettlementsCounted(r) /\ KeysKnown(r)
  <2>1. SameRows(b, r)
    BY <1>4, <1>6 DEF SameRows
  <2>2. SettlementsCounted(r)
    BY <2>1, CountedKept DEF InOrder
  <2>3. KeysKnown(r)
    BY <1>6, <2>1, KnownOfSameRows DEF InOrder, KeysKnown
  <2> QED
    BY <2>2, <2>3
<1>9. HeldOf(r, E)
  <2> SUFFICES ASSUME NEW c \in Buckets
               PROVE  /\ v.held[c] = SumFunctionOnSet(Balances(r, c), E)
                      /\ v.unfunded[c] = Cardinality({x \in E : r.ledger[x][c] = 0})
                      /\ \A x \in Followed \ E : r.ledger[x][c] = 0
    BY <1>6 DEF HeldOf
  <2>1. /\ s.held[c] = SumFunctionOnSet(Balances(b, c), D)
        /\ s.unfunded[c] = Cardinality({x \in D : b.ledger[x][c] = 0})
        /\ \A x \in Followed \ D : b.ledger[x][c] = 0
    BY DEF InOrder, HeldOf
  <2>f. PICK f : f = Balances(b, c)
    OBVIOUS
  <2>2. f = Balances(r, c)
    BY <1>6, <2>f DEF Balances
  <2>3. (\A x \in Followed : f[x] \in Int /\ f[x] = b.ledger[x][c]) /\ f[sender] = 0
    <3>1. c \in Accounts
      BY DEF Accounts
    <3>2. \A x \in Followed : b.ledger[x] \in [Accounts -> Int]
      BY <1>1 DEF BooksType
    <3> QED
      BY <2>1, <2>f, <3>1, <3>2 DEF Balances
  <2>4. IsFiniteSet(D)
    BY FollowedIsFinite, FS_Subset
  <2>5. SumFunctionOnSet(f, E) = SumFunctionOnSet(f, D) + f[sender]
    <3>1. sender \notin D /\ f[sender] \in Int /\ \A y \in D : f[y] \in Int /\ f[y] = f[y]
      BY <2>3
    <3> QED
      BY <2>4, <3>1, SumJoins
  <2>6. SumFunctionOnSet(f, D) \in Int
    BY <2>3, <2>4, SumOfInts
  <2>7. v.held[c] = SumFunctionOnSet(Balances(r, c), E)
    BY <1>4, <2>1, <2>2, <2>3, <2>5, <2>6, <2>f
  <2> DEFINE A == {x \in D : b.ledger[x][c] = 0}
             B == {x \in E : r.ledger[x][c] = 0}
  <2>8. B = A \cup {sender} /\ sender \notin A /\ IsFiniteSet(A)
    <3>1. B = A \cup {sender} /\ sender \notin A /\ A \subseteq D
      BY <1>6, <2>1
    <3> QED
      BY <2>4, <3>1, FS_Subset
  <2>9. v.unfunded[c] = Cardinality(B)
    <3>1. v.unfunded[c] = s.unfunded[c] + 1
      BY <1>4
    <3>2. s.unfunded[c] = Cardinality(A)
      BY <2>1
    <3> HIDE DEF A, B
    <3>3. Cardinality(B) = Cardinality(A) + 1
      BY <2>8, FS_AddElement
    <3> QED
      BY <3>1, <3>2, <3>3
  <2> QED
    BY <1>6, <2>1, <2>7, <2>9
<1> QED
  BY <1>6, <1>7, <1>8, <1>9 DEF InOrder

\* A signer's opening balances keep the books as they are opened.
LEMMA OpenedKeepsOrder ==
    ASSUME NEW b, NEW D \in SUBSET Followed, OpenedOf(b, D),
           NEW split, split.sender \in Followed \ D, split.deposit \in Int, split.reserve \in Int,
           NEW r, r = Opened(b, split), NEW E, E = D \cup {split.sender}
    PROVE  OpenedOf(r, E)
<1>m. PICK m : m = [b EXCEPT !.summary.unfunded = [c \in Buckets |-> @[c] + 1]]
  OBVIOUS
<1>s. PICK sender \in Followed \ D : sender = split.sender
  OBVIOUS
<1>1. /\ InOrder(m, E) /\ m.ok = b.ok /\ m.keys = b.keys
      /\ m.events = b.events /\ m.settlements = b.settlements
  <2>1. Registers(b, m) /\ InOrder(b, D) /\ E = D \cup {sender}
    BY <1>m, <1>s DEF Registers, OpenedOf
  <2> QED
    BY <2>1, RegisteredKeepsOrder
<1>2. r = ToEscrow(m, Key("snapshot", sender, 0), split, "cash")
  BY <1>m, <1>s DEF Opened
<1>of. PICK of : of = "snapshot"
  OBVIOUS
<1>3. KeyKnown(Key(of, sender, 0), m)
  BY <1>of DEF KeyKnown, Key
<1>4. Unused(m, of, sender, 0)
  BY <1>1 DEF OpenedOf, Unused
<1>5. KeepsOrder(m, r, E, of, sender, 0)
  <2>1. E \in SUBSET Followed /\ split.sender \in E
    BY <1>s
  <2>2. r = ToEscrow(m, Key(of, sender, 0), split, "cash")
    BY <1>2, <1>of
  <2>z. PICK zero : zero = 0
    OBVIOUS
  <2>3. KeepsOrder(m, r, E, of, sender, zero)
    BY <1>1, <1>3, <2>1, <2>2, <2>z, EscrowPostingKeepsOrder
  <2> QED
    BY <2>3, <2>z
<1> QED
  BY <1>1, <1>4, <1>5, <1>of, <1>s DEF KeepsOrder, SameRows, OpenedOf

-----------------------------------------------------------------------------
(***************************************************************************)
(* What the contract says                                                  *)
(***************************************************************************)
Escrows == [deposit : Nat, reserve : Nat, paid : Nat]

LogRecords == [kind : EventKinds, tx : Nat, sender : Signers, recipient : STRING,
               amount : Nat, deposit : Nat, reserve : Nat]

CallRecords == [kind : Kinds, tx : Nat, sender : Signers, recipient : STRING,
                amount : Nat, claimable : Nat]

Contracts == [escrow : [Signers -> Escrows], logs : Seq(LogRecords)]

\* The lesser of two numbers is no more than either.
LEMMA LesserIs ==
    ASSUME NEW m \in Nat, NEW n \in Nat
    PROVE  Lesser(m, n) \in Nat /\ Lesser(m, n) <= m /\ Lesser(m, n) <= n
BY DEF Lesser

\* A call takes no more than there is, and no more than its face value.
LEMMA SplitIs ==
    ASSUME NEW e \in Escrows, NEW call \in CallRecords, NEW split, split = Split(e, call)
    PROVE  /\ split = [deposit |-> split.deposit, reserve |-> split.reserve]
           /\ split.deposit \in Nat /\ split.reserve \in Nat
           /\ call.kind \in {"redeem", "withdraw"} =>
                 split.deposit <= e.deposit /\ split.reserve <= e.reserve
           /\ call.kind = "redeem" => split.deposit + split.reserve <= call.amount
<1>1. /\ call.kind \in Kinds /\ call.amount \in Nat /\ call.claimable \in Nat
      /\ e.deposit \in Nat /\ e.reserve \in Nat
  BY DEF CallRecords, Escrows
<1> DEFINE d == Lesser(call.amount, e.deposit)
<1>2. d \in Nat /\ d <= call.amount /\ d <= e.deposit
  BY <1>1, LesserIs
<1> HIDE DEF d
<1>3. call.amount - d \in Nat
  BY <1>1, <1>2
<1>m. PICK missing \in Nat : missing = call.amount - d
  BY <1>3
<1>c. PICK claimed \in Nat : claimed = Lesser(call.claimable, missing) /\ claimed <= missing
  BY <1>1, LesserIs
<1>r. PICK reserve \in Nat : reserve = Lesser(e.reserve, claimed) /\ reserve <= e.reserve /\ reserve <= claimed
  BY <1>1, LesserIs
<1>4. /\ call.kind = "deposit" => split = [deposit |-> call.amount, reserve |-> 0]
      /\ call.kind = "reserve" => split = [deposit |-> 0, reserve |-> call.amount]
      /\ call.kind = "withdraw" => split = [deposit |-> e.deposit, reserve |-> e.reserve]
      /\ call.kind = "redeem" => split = [deposit |-> d, reserve |-> reserve]
  BY <1>m, <1>c, <1>r DEF Split, d
<1>5. call.kind \in {"deposit", "reserve", "withdraw", "redeem"}
  BY <1>1 DEF Kinds
<1> QED
  BY <1>1, <1>2, <1>m, <1>c, <1>r, <1>4, <1>5

\* A log of the call, and a sequence of it when it moves something.
LogFor(call, kind, amount, deposit, reserve) ==
    [kind |-> kind, tx |-> call.tx, sender |-> call.sender, recipient |-> call.recipient,
     amount |-> amount, deposit |-> deposit, reserve |-> reserve]

Positive(log) == IF log.amount > 0 THEN <<log>> ELSE <<>>

\* What each call of the contract logs.
LEMMA EmittedIs ==
    ASSUME NEW e, NEW call \in CallRecords, NEW split, split = Split(e, call)
    PROVE  /\ call.kind = "deposit" =>
                 Emitted(e, call) = <<LogFor(call, "deposit_funded", call.amount, 0, 0)>>
           /\ call.kind = "reserve" =>
                 Emitted(e, call) = <<LogFor(call, "reserve_funded", call.amount, 0, 0)>>
           /\ call.kind = "withdraw" =>
                 Emitted(e, call) = <<LogFor(call, "withdrawal", 0, split.deposit, split.reserve)>>
           /\ call.kind = "redeem" =>
                 Emitted(e, call) =
                    Positive(LogFor(call, "reserve_claimed", split.reserve, 0, 0))
                      \o Positive(LogFor(call, "winning_ticket_transfer",
                                         split.deposit + split.reserve, 0, 0))
                      \o <<LogFor(call, "winning_ticket_redeemed", call.amount, 0, 0)>>
BY DEF Emitted, Positive, LogFor

\* What a call logs is a log, if it moves anything.
LEMMA LogForIsRecord ==
    ASSUME NEW call \in CallRecords, NEW kind \in EventKinds, NEW amount \in Nat,
           NEW deposit \in Nat, NEW reserve \in Nat,
           NEW log, log = LogFor(call, kind, amount, deposit, reserve)
    PROVE  log \in LogRecords /\ <<log>> \in Seq(LogRecords) /\ Positive(log) \in Seq(LogRecords)
<1>1. log \in LogRecords
  BY DEF LogFor, LogRecords, CallRecords
<1> QED
  BY <1>1 DEF Positive

\* A call emits logs.
LEMMA EmittedAreLogs ==
    ASSUME NEW e \in Escrows, NEW call \in CallRecords
    PROVE  Emitted(e, call) \in Seq(LogRecords)
<1>s. PICK split : split = Split(e, call)
  OBVIOUS
<1>1. split.deposit \in Nat /\ split.reserve \in Nat /\ split.deposit + split.reserve \in Nat
      /\ call.amount \in Nat /\ call.kind \in Kinds
  BY <1>s, SplitIs DEF CallRecords
<1>2. "deposit_funded" \in EventKinds /\ "reserve_funded" \in EventKinds
      /\ "withdrawal" \in EventKinds /\ "reserve_claimed" \in EventKinds
      /\ "winning_ticket_transfer" \in EventKinds /\ "winning_ticket_redeemed" \in EventKinds
      /\ 0 \in Nat
  BY DEF EventKinds, Funding
<1>3. /\ <<LogFor(call, "deposit_funded", call.amount, 0, 0)>> \in Seq(LogRecords)
      /\ <<LogFor(call, "reserve_funded", call.amount, 0, 0)>> \in Seq(LogRecords)
      /\ <<LogFor(call, "withdrawal", 0, split.deposit, split.reserve)>> \in Seq(LogRecords)
      /\ <<LogFor(call, "winning_ticket_redeemed", call.amount, 0, 0)>> \in Seq(LogRecords)
  BY <1>1, <1>2, LogForIsRecord
<1>4. /\ Positive(LogFor(call, "reserve_claimed", split.reserve, 0, 0)) \in Seq(LogRecords)
      /\ Positive(LogFor(call, "winning_ticket_transfer", split.deposit + split.reserve, 0, 0))
            \in Seq(LogRecords)
  BY <1>1, <1>2, LogForIsRecord
<1>5. call.kind \in {"deposit", "reserve", "withdraw", "redeem"}
  BY <1>1 DEF Kinds
<1>6. CASE call.kind = "redeem"
  <2>a. PICK a \in Seq(LogRecords) : a = Positive(LogFor(call, "reserve_claimed", split.reserve, 0, 0))
    BY <1>4
  <2>b. PICK b \in Seq(LogRecords) :
          b = Positive(LogFor(call, "winning_ticket_transfer", split.deposit + split.reserve, 0, 0))
    BY <1>4
  <2>c. PICK c \in Seq(LogRecords) : c = <<LogFor(call, "winning_ticket_redeemed", call.amount, 0, 0)>>
    BY <1>3
  <2>1. Emitted(e, call) = a \o b \o c
    BY <1>6, <1>s, <2>a, <2>b, <2>c, EmittedIs
  <2>2. a \o b \in Seq(LogRecords)
    BY ConcatProperties
  <2>3. (a \o b) \o c \in Seq(LogRecords)
    BY <2>2, ConcatProperties
  <2> QED
    BY <2>1, <2>3
<1>7. CASE call.kind # "redeem"
  BY <1>3, <1>5, <1>7, <1>s, EmittedIs
<1> QED
  BY <1>6, <1>7

\* A call leaves a state of the contract.
LEMMA CallKeepsContract ==
    ASSUME NEW c \in Contracts, NEW call \in CallRecords
    PROVE  Call(c, call) \in Contracts
<1>e. PICK e \in Escrows : e = c.escrow[call.sender]
  BY DEF Contracts, CallRecords
<1>s. PICK split : split = Split(e, call)
  OBVIOUS
<1>1. /\ split.deposit \in Nat /\ split.reserve \in Nat
      /\ call.kind \in {"redeem", "withdraw"} =>
            split.deposit <= e.deposit /\ split.reserve <= e.reserve
      /\ e.deposit \in Nat /\ e.reserve \in Nat /\ e.paid \in Nat
      /\ call.kind \in Kinds
  BY <1>s, SplitIs DEF Escrows, CallRecords
<1>2. CASE Reverts(e, call)
  BY <1>2, <1>e DEF Call
<1>3. CASE ~Reverts(e, call)
  <2> DEFINE sign == IF call.kind \in {"deposit", "reserve"} THEN 1 ELSE -1
             after == [deposit |-> e.deposit + sign * split.deposit,
                       reserve |-> e.reserve + sign * split.reserve,
                       paid    |-> IF call.kind = "redeem" THEN e.paid + split.deposit + split.reserve
                                                           ELSE e.paid]
             escrow == [c.escrow EXCEPT ![call.sender] = after]
             emitted == c.logs \o Emitted(e, call)
  <2>1. after \in Escrows
    BY <1>1 DEF Escrows, Kinds
  <2>2. escrow \in [Signers -> Escrows]
    <3> HIDE DEF after
    <3> QED
      BY <2>1 DEF Contracts
  <2>3. emitted \in Seq(LogRecords)
    BY EmittedAreLogs, ConcatProperties DEF Contracts
  <2>4. Call(c, call) = [escrow |-> escrow, logs |-> emitted]
    BY <1>3, <1>e, <1>s DEF Call
  <2> HIDE DEF escrow, emitted
  <2> QED
    BY <2>2, <2>3, <2>4 DEF Contracts
<1> QED
  BY <1>2, <1>3

CallFolds == INSTANCE FoldProofs WITH op <- Call
BlockFolds == INSTANCE FoldProofs WITH op <- Block

\* The calls of a block are the fold the lemmas on folds are about.
LEMMA CallFoldIs ==
    ASSUME NEW base, NEW seq
    PROVE  CallFolds!LeftFold(base, seq) = FoldLeft(Call, base, seq)
BY DEF CallFolds!LeftFold, CallFolds!FoldLeft, CallFolds!MapThenFoldSet, CallFolds!Max,
       FoldLeft, MapThenFoldSet, Max

\* The blocks of a chain are the fold the lemmas on folds are about.
LEMMA BlockFoldIs ==
    ASSUME NEW base, NEW seq
    PROVE  BlockFolds!LeftFold(base, seq) = FoldLeft(Block, base, seq)
BY DEF BlockFolds!LeftFold, BlockFolds!FoldLeft, BlockFolds!MapThenFoldSet, BlockFolds!Max,
       FoldLeft, MapThenFoldSet, Max

\* A payload is a sequence of calls.
LEMMA CallsAre ==
    ASSUME NEW p \in Payloads
    PROVE  /\ Len(Calls[p]) \in Nat /\ DOMAIN Calls[p] = 1 .. Len(Calls[p])
           /\ \A i \in 1 .. Len(Calls[p]) : Calls[p][i] \in CallRecords
<1>1. Calls[p] \in Seq(CallRecords)
  BY CallsAssumption DEF CallRecords
<1> QED
  BY <1>1

\* A block leaves a state of the contract.
LEMMA BlockKeepsContract ==
    ASSUME NEW c \in Contracts, NEW p \in Payloads
    PROVE  Block(c, p) \in Contracts
<1>n. PICK n \in Nat : n = Len(Calls[p])
  BY CallsAre
<1>q. PICK calls : calls = Calls[p]
  OBVIOUS
<1>b. PICK base : base = [c EXCEPT !.logs = <<>>]
  OBVIOUS
<1>e. PICK none \in Seq(LogRecords) : none = <<>>
  BY EmptySeq
<1>1. base \in Contracts
  <2>1. base = [c EXCEPT !.logs = none]
    BY <1>b, <1>e
  <2> QED
    BY <2>1 DEF Contracts
<1>2. DOMAIN calls = 1 .. n /\ \A i \in 1 .. n : calls[i] \in CallRecords
  BY <1>n, <1>q, CallsAre
<1>3. \A d \in Contracts, call \in CallRecords : Call(d, call) \in Contracts
  BY CallKeepsContract
<1>4. CallFolds!LeftFold(base, calls) \in Contracts
  BY <1>1, <1>2, <1>3, CallFolds!FoldLeftKeeps
<1> QED
  BY <1>4, <1>b, <1>q, CallFoldIs DEF Block

Genesis == [escrow |-> [s \in Signers |-> [deposit |-> 0, reserve |-> 0, paid |-> 0]],
            logs   |-> <<>>]

\* The contract starts in one of its states.
LEMMA GenesisIsContract == Genesis \in Contracts
BY DEF Genesis, Contracts, Escrows

\* The contract at a block is what its chain of blocks makes of the start.
LEMMA ContractOfHash ==
    ASSUME NEW h \in Hashes
    PROVE  Contract[h] = FoldLeft(Block, Genesis, h)
BY DEF Contract, Tabulated, Genesis

\* A block's hash is the chain of payloads up to it.
LEMMA HashIs ==
    ASSUME NEW h \in Hashes
    PROVE  /\ Len(h) \in Nat /\ Len(h) <= MaxHeight /\ DOMAIN h = 1 .. Len(h)
           /\ h \in Seq(Payloads) /\ \A i \in 1 .. Len(h) : h[i] \in Payloads
<1>1. PICK n \in 0 .. MaxHeight : h \in [1 .. n -> Payloads]
  BY DEF Hashes
<1>2. h \in Seq(Payloads) /\ Len(h) = n
  BY <1>1, MaxHeightAssumption
<1> QED
  BY <1>1, <1>2, MaxHeightAssumption

\* After any chain the contract is an escrow for each signer, none negative, and logs.
THEOREM ContractIs == \A h \in Hashes : Contract[h] \in Contracts
<1> TAKE h \in Hashes
<1>n. PICK n \in Nat : n = Len(h)
  BY HashIs
<1>1. DOMAIN h = 1 .. n /\ \A i \in 1 .. n : h[i] \in Payloads
  BY <1>n, HashIs
<1>2. \A d \in Contracts, p \in Payloads : Block(d, p) \in Contracts
  BY BlockKeepsContract
<1>3. BlockFolds!LeftFold(Genesis, h) \in Contracts
  BY <1>1, <1>2, GenesisIsContract, BlockFolds!FoldLeftKeeps
<1> QED
  BY <1>3, BlockFoldIs, ContractOfHash

-----------------------------------------------------------------------------
(***************************************************************************)
(* The logs asked for                                                      *)
(***************************************************************************)
\* The identities of the logs of a block that name a followed signer.
IdsOf(h) ==
    {[block |-> h, index |-> i] : i \in {j \in 1 .. Len(Contract[h].logs) :
                                            Contract[h].logs[j].sender \in Followed}}

AskFolds == INSTANCE FoldProofs WITH op <- Asked
JoinFolds == INSTANCE FoldProofs WITH op <- \o

\* Collecting the queries is the fold the lemmas on folds are about.
LEMMA AskFoldIs ==
    ASSUME NEW base, NEW seq
    PROVE  AskFolds!LeftFold(base, seq) = FoldLeft(Asked, base, seq)
BY DEF AskFolds!LeftFold, AskFolds!FoldLeft, AskFolds!MapThenFoldSet, AskFolds!Max,
       FoldLeft, MapThenFoldSet, Max

\* Joining the blocks' logs is the fold the lemmas on folds are about.
LEMMA JoinFoldIs ==
    ASSUME NEW base, NEW seq
    PROVE  JoinFolds!LeftFold(base, seq) = FoldLeft(\o, base, seq)
BY DEF JoinFolds!LeftFold, JoinFolds!FoldLeft, JoinFolds!MapThenFoldSet, JoinFolds!Max,
       FoldLeft, MapThenFoldSet, Max

\* A sequence of identities, and the set of them.
Lists(seq, S) == seq \in Seq(Ids) /\ ToSet(seq) = S

\* The elements of a sequence are those at its indices.
LEMMA ToSetOfSeq ==
    ASSUME NEW T, NEW seq \in Seq(T), NEW n, n = Len(seq)
    PROVE  ToSet(seq) = {seq[i] : i \in 1 .. n} /\ ToSet(seq) \subseteq T
BY DEF ToSet

\* Appending adds one element.
LEMMA ToSetOfAppended ==
    ASSUME NEW T, NEW seq \in Seq(T), NEW x \in T
    PROVE  Append(seq, x) \in Seq(T) /\ ToSet(Append(seq, x)) = ToSet(seq) \cup {x}
<1>n. PICK n \in Nat : n = Len(seq)
  OBVIOUS
<1>a. PICK longer \in Seq(T) : longer = Append(seq, x)
  BY AppendProperties
<1>k. PICK k \in Nat : k = n + 1
  OBVIOUS
<1>1. Len(longer) = k /\ longer[n + 1] = x /\ \A i \in 1 .. n : longer[i] = seq[i]
  <2>1. /\ Len(longer) = Len(seq) + 1 /\ longer[Len(seq) + 1] = x
        /\ \A i \in 1 .. Len(seq) : longer[i] = seq[i]
    BY <1>a, AppendProperties
  <2> QED
    BY <1>n, <1>k, <2>1
<1>2. ToSet(seq) = {seq[i] : i \in 1 .. n} /\ ToSet(longer) = {longer[i] : i \in 1 .. n + 1}
  <2>1. ToSet(longer) = {longer[i] : i \in 1 .. k}
    BY <1>1, ToSetOfSeq
  <2>2. ToSet(seq) = {seq[i] : i \in 1 .. n}
    BY <1>n, ToSetOfSeq
  <2> QED
    BY <1>k, <2>1, <2>2
<1>3. 1 .. n + 1 = (1 .. n) \cup {n + 1}
  OBVIOUS
<1>4. ToSet(longer) = ToSet(seq) \cup {x}
  BY <1>1, <1>2, <1>3
<1> QED
  BY <1>4, <1>a

\* Joining adds the other's elements.
LEMMA ToSetOfJoined ==
    ASSUME NEW T, NEW seq \in Seq(T), NEW rest \in Seq(T)
    PROVE  seq \o rest \in Seq(T) /\ ToSet(seq \o rest) = ToSet(seq) \cup ToSet(rest)
<1>m. PICK m \in Nat : m = Len(seq)
  OBVIOUS
<1>n. PICK n \in Nat : n = Len(rest)
  OBVIOUS
<1>1. seq \o rest \in Seq(T) /\ Len(seq \o rest) = m + n
  BY <1>m, <1>n, ConcatProperties
<1>2. \A i \in 1 .. m : (seq \o rest)[i] = seq[i]
  BY <1>m, <1>n, ConcatProperties
<1>3. \A i \in 1 .. n : (seq \o rest)[m + i] = rest[i]
  BY <1>m, <1>n, ConcatProperties
<1>4. \A i \in 1 .. m + n : i \in 1 .. m \/ (i - m \in 1 .. n /\ i = m + (i - m))
  OBVIOUS
<1>5. \A i \in 1 .. n : m + i \in 1 .. m + n
  OBVIOUS
<1>6. 1 .. m \subseteq 1 .. m + n
  OBVIOUS
<1>j. PICK joined \in Seq(T) : joined = seq \o rest
  BY <1>1
<1>7. ToSet(joined) = {joined[i] : i \in 1 .. m + n} /\ ToSet(seq) = {seq[i] : i \in 1 .. m}
      /\ ToSet(rest) = {rest[i] : i \in 1 .. n}
  <2>k. PICK k \in Nat : k = m + n
    OBVIOUS
  <2>0. k = Len(joined)
    BY <1>1, <1>j, <2>k
  <2>1. ToSet(joined) = {joined[i] : i \in 1 .. k}
    BY <2>0, ToSetOfSeq
  <2>2. ToSet(seq) = {seq[i] : i \in 1 .. m}
    BY <1>m, ToSetOfSeq
  <2>3. ToSet(rest) = {rest[i] : i \in 1 .. n}
    BY <1>n, ToSetOfSeq
  <2> QED
    BY <2>k, <2>1, <2>2, <2>3
<1>8. \A i \in 1 .. m : joined[i] = seq[i]
  BY <1>2, <1>j
<1>9. \A i \in 1 .. n : joined[m + i] = rest[i]
  BY <1>3, <1>j
<1>10. ToSet(joined) \subseteq ToSet(seq) \cup ToSet(rest)
  <2> SUFFICES ASSUME NEW i \in 1 .. m + n PROVE joined[i] \in ToSet(seq) \cup ToSet(rest)
    BY <1>7
  <2>1. CASE i \in 1 .. m
    BY <1>7, <1>8, <2>1
  <2>2. CASE i \notin 1 .. m
    <3>k. PICK k \in 1 .. n : i = m + k
      BY <1>4, <2>2
    <3> QED
      BY <1>7, <1>9, <3>k
  <2> QED
    BY <2>1, <2>2
<1>11. ToSet(seq) \cup ToSet(rest) \subseteq ToSet(joined)
  <2>1. ToSet(seq) \subseteq ToSet(joined)
    BY <1>6, <1>7, <1>8
  <2>2. ToSet(rest) \subseteq ToSet(joined)
    BY <1>5, <1>7, <1>9
  <2> QED
    BY <2>1, <2>2
<1> QED
  BY <1>1, <1>10, <1>11, <1>j

\* The queries for a block list the logs of the signers followed in it.
LEMMA FollowedLogsAre ==
    ASSUME NEW h \in Hashes
    PROVE  Lists(FollowedLogs[h], IdsOf(h))
<1>l. PICK list \in Seq(LogRecords) : list = Contract[h].logs
  BY ContractIs DEF Contracts
<1>n. PICK n \in Nat : n = Len(list)
  OBVIOUS
<1>i. PICK ids : ids = LogIds(h)
  OBVIOUS
<1>1. DOMAIN ids = 1 .. n /\ \A i \in 1 .. n : ids[i] = [block |-> h, index |-> i]
  BY <1>l, <1>n, <1>i DEF LogIds
<1>2. PICK t : AskFolds!Trace(t, <<>>, n, ids) /\ t[n] = AskFolds!LeftFold(<<>>, ids)
  BY <1>1, AskFolds!TraceExists
<1>3. t[0] = <<>> /\ \A i \in 1 .. n : t[i] = Asked(t[i - 1], ids[i])
  BY <1>2 DEF AskFolds!Trace
<1> DEFINE J(k) == {j \in 1 .. k : list[j].sender \in Followed}
           I(k) == {[block |-> h, index |-> i] : i \in J(k)}
           F == {k \in 0 .. n : Lists(t[k], I(k))}
<1>4. 0 \in F
  <2>1. J(0) = {}
    OBVIOUS
  <2>2. t[0] \in Seq(Ids) /\ ToSet(t[0]) = {}
    BY <1>3 DEF ToSet
  <2> QED
    BY <2>1, <2>2 DEF Lists
<1>5. ASSUME NEW k \in 1 .. n, k - 1 \in F PROVE k \in F
  <2>j. PICK m : m = k - 1
    OBVIOUS
  <2>s. PICK s \in Seq(Ids) : s = t[m] /\ ToSet(s) = I(m)
    BY <1>5, <2>j DEF Lists
  <2>k. k \in Nat /\ k \in 0 .. n
    OBVIOUS
  <2>x. PICK x \in Ids : x = [block |-> h, index |-> k]
    BY <2>k DEF Ids
  <2>1. t[k] = IF list[k].sender \in Followed THEN Append(s, x) ELSE s
    BY <1>1, <1>3, <1>l, <2>j, <2>s, <2>x DEF Asked, LogOf
  <2>2. J(k) = IF list[k].sender \in Followed THEN J(m) \cup {k} ELSE J(m)
    BY <2>j
  <2>3. I(k) = IF list[k].sender \in Followed THEN I(m) \cup {x} ELSE I(m)
    <3> HIDE DEF J
    <3> QED
      BY <2>2, <2>x
  <2>4. Lists(t[k], I(k))
    <3> HIDE DEF I, J
    <3>r. PICK r : r = t[k]
      OBVIOUS
    <3>v. PICK V : V = I(m)
      OBVIOUS
    <3>w. PICK W : W = I(k)
      OBVIOUS
    <3>1. Append(s, x) \in Seq(Ids) /\ ToSet(Append(s, x)) = V \cup {x}
      BY <2>s, <3>v, ToSetOfAppended
    <3>2. r = (IF list[k].sender \in Followed THEN Append(s, x) ELSE s)
          /\ W = (IF list[k].sender \in Followed THEN V \cup {x} ELSE V)
      BY <2>1, <2>3, <3>r, <3>v, <3>w
    <3>3. r \in Seq(Ids) /\ ToSet(r) = W
      BY <2>s, <3>1, <3>2, <3>v
    <3> QED
      BY <3>3, <3>r, <3>w DEF Lists
  <2> QED
    BY <2>4, <2>k
<1> HIDE DEF F
<1>6. n \in F
  BY <1>4, <1>5, AskFolds!TraceInduction
<1>7. I(n) = IdsOf(h)
  BY <1>l, <1>n DEF IdsOf
<1>8. FollowedLogs[h] = t[n]
  <2>1. FollowedLogs[h] = FoldLeft(Asked, <<>>, LogIds(h))
    BY DEF FollowedLogs, Tabulated
  <2> QED
    BY <1>2, <1>i, <2>1, AskFoldIs
<1> HIDE DEF I
<1> QED
  BY <1>6, <1>7, <1>8 DEF F

\* A block has an ancestor at each height up to its own.
LEMMA AncestorIs ==
    ASSUME NEW h \in Hashes, NEW n \in 0 .. Len(h)
    PROVE  Ancestor(h, n) \in Hashes /\ Len(Ancestor(h, n)) = n
<1>1. Len(h) \in Nat /\ Len(h) <= MaxHeight /\ h \in Seq(Payloads)
      /\ \A i \in 1 .. Len(h) : h[i] \in Payloads
  BY HashIs
<1>2. Ancestor(h, n) = [i \in 1 .. n |-> h[i]]
  BY <1>1 DEF Ancestor
<1>3. Ancestor(h, n) \in [1 .. n -> Payloads] /\ n \in 0 .. MaxHeight
  BY <1>1, <1>2, MaxHeightAssumption
<1>4. Len(Ancestor(h, n)) = n
  BY <1>1, <1>2
<1> QED
  BY <1>3, <1>4 DEF Hashes

\* The identities of the logs of the blocks first .. last of a branch.
IdsWithin(h, first, last) ==
    UNION {IdsOf(Ancestor(h, n)) : n \in first .. Lesser(last, Len(h))}

\* The logs the node answers with are those of the blocks between the two
\* heights.
LEMMA LogsAre ==
    ASSUME NEW h \in Hashes, NEW first \in Nat \ {0}, NEW last \in Int
    PROVE  Lists(Logs(h, first, last), IdsWithin(h, first, last))
<1>l. PICK l \in Int : l = Lesser(last, Len(h)) /\ l <= Len(h)
  BY HashIs DEF Lesser
<1>h. Len(h) \in Nat
  BY HashIs
<1>n. PICK n \in Nat : IF first <= l THEN n = l - first + 1 ELSE n = 0
  OBVIOUS
<1>s. PICK seq : seq = [i \in 1 .. l - first + 1 |-> FollowedLogs[Ancestor(h, first + i - 1)]]
  OBVIOUS
<1>1. DOMAIN seq = 1 .. n
  BY <1>n, <1>s
<1> DEFINE B(i) == IdsOf(Ancestor(h, first + i - 1))
<1>2. \A i \in 1 .. n : Lists(seq[i], B(i))
  <2> TAKE i \in 1 .. n
  <2>1. i \in 1 .. l - first + 1 /\ first + i - 1 \in 0 .. Len(h)
    BY <1>h, <1>l, <1>n
  <2>k. PICK k \in 0 .. Len(h) : k = first + i - 1
    BY <2>1
  <2>2. Lists(FollowedLogs[Ancestor(h, k)], IdsOf(Ancestor(h, k)))
    BY AncestorIs, FollowedLogsAre
  <2> QED
    BY <1>s, <2>1, <2>2, <2>k
<1>3. PICK t : JoinFolds!Trace(t, <<>>, n, seq) /\ t[n] = JoinFolds!LeftFold(<<>>, seq)
  BY <1>1, JoinFolds!TraceExists
<1>4. t[0] = <<>> /\ \A i \in 1 .. n : t[i] = t[i - 1] \o seq[i]
  BY <1>3 DEF JoinFolds!Trace
<1> DEFINE I(k) == UNION {B(i) : i \in 1 .. k}
           F == {k \in 0 .. n : Lists(t[k], I(k))}
<1> HIDE DEF B
<1>5. 0 \in F
  <2>1. I(0) = {}
    OBVIOUS
  <2>2. t[0] \in Seq(Ids) /\ ToSet(t[0]) = {}
    BY <1>4 DEF ToSet
  <2> QED
    BY <2>1, <2>2 DEF Lists
<1>6. ASSUME NEW k \in 1 .. n, k - 1 \in F PROVE k \in F
  <2>j. PICK m : m = k - 1
    OBVIOUS
  <2>s. PICK s \in Seq(Ids) : s = t[m] /\ ToSet(s) = I(m)
    BY <1>6, <2>j DEF Lists
  <2>r. PICK r \in Seq(Ids) : r = seq[k] /\ ToSet(r) = B(k)
    BY <1>2 DEF Lists
  <2>1. t[k] = s \o r
    BY <1>4, <2>j, <2>s, <2>r
  <2>2. I(k) = I(m) \cup B(k)
    <3>1. 1 .. k = (1 .. m) \cup {k}
      BY <2>j
    <3> QED
      BY <3>1
  <2>3. s \o r \in Seq(Ids) /\ ToSet(s \o r) = ToSet(s) \cup ToSet(r)
    BY ToSetOfJoined
  <2>4. Lists(t[k], I(k))
    <3> HIDE DEF I
    <3> QED
      BY <2>1, <2>2, <2>3, <2>s, <2>r DEF Lists
  <2>5. k \in 0 .. n
    OBVIOUS
  <2> QED
    BY <2>4, <2>5
<1> HIDE DEF F
<1>7. n \in F
  BY <1>5, <1>6, JoinFolds!TraceInduction
<1>8. I(n) = IdsWithin(h, first, last)
  <2>1. \A i \in 1 .. n : first + i - 1 \in first .. l
    BY <1>n
  <2>2. \A k \in first .. l : k - first + 1 \in 1 .. n /\ first + (k - first + 1) - 1 = k
    BY <1>n
  <2> QED
    BY <1>l, <2>1, <2>2 DEF B, IdsWithin
<1>9. Logs(h, first, last) = t[n]
  BY <1>3, <1>l, <1>s, JoinFoldIs DEF Logs
<1> HIDE DEF I
<1> QED
  BY <1>7, <1>8, <1>9 DEF F

-----------------------------------------------------------------------------
(***************************************************************************)
(* Sorted, each once                                                       *)
(***************************************************************************)
\* Of two different identities one comes first.
Ordered(S) ==
    /\ \A id \in S : Len(id.block) \in Int /\ id.index \in Int
    /\ \A p, q \in S : p # q => Precedes(p, q) \/ Precedes(q, p)

Before(S, id) == {other \in S : Precedes(other, id)}

\* Logs sorted and stripped of their duplicates are in the chain's order, each
\* once.
LEMMA OrderedUniqueLists ==
    ASSUME NEW seq, NEW S, S = ToSet(seq), IsFiniteSet(S), Ordered(S), S \subseteq Ids
    PROVE  Lists(OrderedUnique(seq), S)
<1>c. PICK c : c = Cardinality(S)
  OBVIOUS
<1>1. \A p, q \in S : Precedes(p, q) => Before(S, p) \subseteq Before(S, q) /\ p \in Before(S, q) /\ p \notin Before(S, p)
  BY DEF Ordered, Precedes, Before
<1>2. \A id \in S : id \notin Before(S, id)
  BY DEF Ordered, Precedes, Before
<1>3. \A id \in S : IsFiniteSet(Before(S, id)) /\ Cardinality(Before(S, id)) \in Nat
  <2> TAKE id \in S
  <2>1. Before(S, id) \in SUBSET S
    BY DEF Before
  <2> QED
    BY <2>1, FS_Subset, FS_CardinalityType
<1>4. \A p, q \in S : Precedes(p, q) => Cardinality(Before(S, p)) < Cardinality(Before(S, q))
  <2> TAKE p, q \in S
  <2> SUFFICES ASSUME Precedes(p, q) PROVE Cardinality(Before(S, p)) < Cardinality(Before(S, q))
    OBVIOUS
  <2>1. Before(S, p) \in SUBSET Before(S, q) /\ Before(S, p) # Before(S, q)
    BY <1>1
  <2>2. Cardinality(Before(S, p)) <= Cardinality(Before(S, q)) /\ Cardinality(Before(S, p)) # Cardinality(Before(S, q))
    BY <1>3, <2>1, FS_Subset
  <2> QED
    BY <1>3, <2>2
<1>5a. c \in Nat
  BY <1>c, FS_CardinalityType
<1>5. \A id \in S : Cardinality(Before(S, id)) < c
  <2> TAKE id \in S
  <2>2. Before(S, id) \in SUBSET S /\ Before(S, id) # S
    BY <1>2 DEF Before
  <2>3. Cardinality(Before(S, id)) <= c /\ Cardinality(Before(S, id)) # c
    BY <1>c, <2>2, FS_Subset
  <2> QED
    BY <1>3, <1>5a, <2>3
<1>p. PICK f : f = [id \in S |-> Cardinality({other \in S : Precedes(other, id)}) + 1]
  OBVIOUS
<1>f. DOMAIN f = S /\ \A id \in S : f[id] = Cardinality(Before(S, id)) + 1
  BY <1>p DEF Before
<1>o. PICK sorted : sorted = OrderedUnique(seq)
  OBVIOUS
<1>8. sorted = [n \in 1 .. c |-> CHOOSE id \in S : f[id] = n]
  BY <1>c, <1>o, <1>p DEF OrderedUnique
<1>g. f = [id \in S |-> f[id]]
  BY <1>p
<1>6. f \in [S -> 1 .. c] /\ \A p, q \in S : p # q => f[p] # f[q]
  <2>1. f \in [S -> 1 .. c]
    <3>1. \A id \in S : f[id] \in 1 .. c
      BY <1>3, <1>5a, <1>5, <1>f
    <3> QED
      BY <1>g, <3>1
  <2>2. ASSUME NEW p \in S, NEW q \in S, p # q PROVE f[p] # f[q]
    <3>1. Precedes(p, q) \/ Precedes(q, p)
      BY <2>2 DEF Ordered
    <3>2. Cardinality(Before(S, p)) \in Nat /\ Cardinality(Before(S, q)) \in Nat
          /\ Cardinality(Before(S, p)) # Cardinality(Before(S, q))
      BY <1>3, <1>4, <3>1
    <3> QED
      BY <1>f, <3>2
  <2> QED
    BY <2>1, <2>2
<1>7. f \in Surjection(S, 1 .. c)
  <2>1. IsFiniteSet(1 .. c) /\ Cardinality(1 .. c) = c
    BY <1>5a, FS_Interval
  <2>2. f \in Injection(S, 1 .. c)
    BY <1>6 DEF Injection, IsInjective
  <2> QED
    BY <1>c, <2>1, <2>2, FS_Injection
<1>9. \A n \in 1 .. c : sorted[n] \in S /\ f[sorted[n]] = n
  <2> TAKE n \in 1 .. c
  <2>1. \E id \in S : f[id] = n
    BY <1>7 DEF Surjection
  <2> QED
    BY <1>8, <2>1
<1>10. \A id \in S : sorted[f[id]] = id /\ f[id] \in 1 .. c
  BY <1>6, <1>9
<1>11. DOMAIN sorted = 1 .. c /\ sorted \in [1 .. c -> Ids]
  BY <1>8, <1>9
<1>12. sorted \in Seq(Ids)
  BY <1>5a, <1>11
<1>13. ToSet(sorted) = S
  <2>1. ToSet(sorted) = {sorted[n] : n \in 1 .. c}
    BY <1>11 DEF ToSet
  <2>2. \A id \in S : \E n \in 1 .. c : sorted[n] = id
    BY <1>10
  <2> QED
    BY <1>9, <2>1, <2>2
<1> QED
  BY <1>12, <1>13, <1>o DEF Lists

\* An identity that the node may name: of a log of a followed signer.
Followable(id) == id \in Ids /\ LogOf(id) \in LogRecords /\ LogOf(id).sender \in Followed

\* The logs between two heights are of followed signers and of the ancestors at
\* those heights.
LEMMA IdsWithinAre ==
    ASSUME NEW h \in Hashes, NEW first \in Nat \ {0}, NEW last \in Int,
           NEW S, S = IdsWithin(h, first, last)
    PROVE  /\ S \subseteq Ids /\ IsFiniteSet(S) /\ Ordered(S)
           /\ \A id \in S : /\ Followable(id)
                            /\ Len(id.block) \in first .. last /\ Len(id.block) <= Len(h)
                            /\ id.block = Ancestor(h, Len(id.block))
<1>l. PICK l \in Int : l = Lesser(last, Len(h)) /\ l <= Len(h) /\ l <= last
  BY HashIs DEF Lesser
<1>h. Len(h) \in Nat
  BY HashIs
<1>1. ASSUME NEW id \in S
      PROVE  /\ Followable(id) /\ id.index \in Nat
             /\ Len(id.block) \in first .. last /\ Len(id.block) <= Len(h)
             /\ id.block = Ancestor(h, Len(id.block)) /\ id = [block |-> id.block, index |-> id.index]
  <2>n. PICK n \in first .. l : id \in IdsOf(Ancestor(h, n))
    BY <1>l, <1>1 DEF IdsWithin
  <2>1. n \in 0 .. Len(h) /\ n \in first .. last
    BY <1>h, <1>l
  <2>b. PICK b \in Hashes : b = Ancestor(h, n) /\ Len(b) = n
    BY <2>1, AncestorIs
  <2>g. PICK list \in Seq(LogRecords) : list = Contract[b].logs
    BY ContractIs DEF Contracts
  <2>i. PICK i \in 1 .. Len(list) : list[i].sender \in Followed /\ id = [block |-> b, index |-> i]
    BY <2>n, <2>b, <2>g DEF IdsOf
  <2>2. i \in Nat /\ list[i] \in LogRecords
    OBVIOUS
  <2>3. id.block = b /\ id.index = i /\ LogOf(id) = list[i] /\ id \in Ids
    BY <2>g, <2>i, <2>2 DEF LogOf, Ids
  <2> QED
    BY <2>1, <2>2, <2>3, <2>b, <2>i DEF Followable
<1>2. IsFiniteSet(S)
  <2>q. PICK seq \in Seq(Ids) : ToSet(seq) = S
    BY LogsAre DEF Lists
  <2>n. PICK n \in Nat : n = Len(seq)
    OBVIOUS
  <2> QED
    BY <2>q, <2>n, ElementsAreFinite
<1>3. ASSUME NEW p \in S, NEW q \in S, p # q PROVE Precedes(p, q) \/ Precedes(q, p)
  <2>1. /\ Len(p.block) \in Int /\ Len(q.block) \in Int /\ p.index \in Int /\ q.index \in Int
        /\ p.block = Ancestor(h, Len(p.block)) /\ q.block = Ancestor(h, Len(q.block))
        /\ p = [block |-> p.block, index |-> p.index] /\ q = [block |-> q.block, index |-> q.index]
    BY <1>1
  <2>2. Len(p.block) # Len(q.block) \/ p.index # q.index
    BY <1>3, <2>1
  <2> QED
    BY <2>1, <2>2 DEF Precedes
<1>4. \A id \in S : Len(id.block) \in Int /\ id.index \in Int
  BY <1>1
<1>5. S \subseteq Ids
  BY <1>1 DEF Followable
<1> QED
  BY <1>1, <1>2, <1>3, <1>4, <1>5 DEF Ordered

\* A list reversed, or a list after its reverse, lists the same logs.
LEMMA ReverseLists ==
    ASSUME NEW seq, NEW S, Lists(seq, S)
    PROVE  Lists(Reverse(seq), S) /\ Lists(Reverse(seq) \o seq, S)
<1>q. PICK q \in Seq(Ids) : q = seq /\ ToSet(q) = S
  BY DEF Lists
<1>n. PICK n \in Nat : n = Len(q)
  OBVIOUS
<1>r. PICK r : r = Reverse(q)
  OBVIOUS
<1>1. DOMAIN r = 1 .. n /\ \A i \in 1 .. n : r[i] = q[n - i + 1]
  BY <1>n, <1>r DEF Reverse
<1>2. \A i \in 1 .. n : n - i + 1 \in 1 .. n /\ n - (n - i + 1) + 1 = i
  OBVIOUS
<1>3. r \in Seq(Ids) /\ Len(r) = n
  <2>1. \A i \in 1 .. n : q[i] \in Ids
    BY <1>n
  <2>2. \A i \in 1 .. n : r[i] \in Ids
    BY <1>1, <1>2, <2>1
  <2>3. r = [i \in 1 .. n |-> r[i]]
    BY <1>n, <1>r, <1>1 DEF Reverse
  <2>4. r \in [1 .. n -> Ids]
    BY <2>2, <2>3
  <2> QED
    BY <2>4
<1>4. ToSet(r) = ToSet(q)
  <2>1. ToSet(q) = {q[i] : i \in 1 .. n} /\ ToSet(r) = {r[i] : i \in 1 .. n}
    BY <1>n, <1>1 DEF ToSet
  <2>2. \A i \in 1 .. n : \E j \in 1 .. n : r[i] = q[j]
    BY <1>1, <1>2
  <2>3. \A i \in 1 .. n : \E j \in 1 .. n : q[i] = r[j]
    BY <1>1, <1>2
  <2> QED
    BY <2>1, <2>2, <2>3
<1>5. r \o q \in Seq(Ids) /\ ToSet(r \o q) = ToSet(r) \cup ToSet(q)
  BY <1>3, ToSetOfJoined
<1> QED
  BY <1>q, <1>r, <1>3, <1>4, <1>5 DEF Lists

-----------------------------------------------------------------------------
(***************************************************************************)
(* The events of the logs                                                  *)
(***************************************************************************)
ForLog(e, id) == e \in Events /\ e.id = id /\ e.kind = LogOf(id).kind

\* A log is decoded to the event it tells of.
LEMMA DecodeIs ==
    ASSUME NEW id, Followable(id)
    PROVE  ForLog(Decode(id), id)
BY DEF Followable, ForLog, Decode, Events, LogRecords

CorrelateFolds == INSTANCE FoldProofs WITH op <- Correlate

\* Events are correlated one at a time.
LEMMA CorrelateFoldTrace ==
    ASSUME NEW n \in Nat, NEW seq, DOMAIN seq = 1 .. n, NEW base
    PROVE  \E t : CorrelateFolds!Trace(t, base, n, seq) /\ t[n] = FoldLeft(Correlate, base, seq)
<1>1. \E t : CorrelateFolds!Trace(t, base, n, seq) /\ t[n] = CorrelateFolds!LeftFold(base, seq)
  BY CorrelateFolds!TraceExists
<1>2. CorrelateFolds!LeftFold(base, seq) = FoldLeft(Correlate, base, seq)
  BY DEF CorrelateFolds!LeftFold, CorrelateFolds!FoldLeft, CorrelateFolds!MapThenFoldSet,
         CorrelateFolds!Max, FoldLeft, MapThenFoldSet, Max
<1> QED
  BY <1>1, <1>2

\* The first k logs have an event each, and the pending payment is of events.
Correlation(c, ids, k) ==
    /\ c = [claim |-> c.claim, transfer |-> c.transfer, events |-> c.events, ok |-> c.ok]
    /\ c.events \in Seq(Events) /\ Len(c.events) = k
    /\ \A i \in 1 .. k : ForLog(c.events[i], ids[i])
    /\ c.claim \in Events \cup {NoEvent} /\ c.transfer \in Events \cup {NoEvent}

\* An event correlated joins those of the logs before it.
LEMMA CorrelateKeeps ==
    ASSUME NEW ids, NEW m \in Nat, NEW k \in Nat, k = m + 1, NEW c, Correlation(c, ids, m),
           NEW e, ForLog(e, ids[k]), NEW d, d = Correlate(c, e)
    PROVE  Correlation(d, ids, k)
<1>1. e \in Events /\ e.amount \in Nat
  BY DEF ForLog, Events
<1>2. PICK f : ForLog(f, ids[k]) /\ d.events = Append(c.events, f)
               /\ d = [claim |-> d.claim, transfer |-> d.transfer, events |-> d.events, ok |-> d.ok]
               /\ d.claim \in {c.claim, e, NoEvent} /\ d.transfer \in {c.transfer, e, NoEvent}
  <2>1. CASE e.kind = "winning_ticket_redeemed"
    <3> DEFINE paid == IF c.transfer = NoEvent THEN 0 ELSE c.transfer.amount
               claimed == IF c.claim = NoEvent THEN 0 ELSE c.claim.amount
               f == [e EXCEPT !.deposit = paid - claimed, !.reserve = claimed]
    <3>1. paid \in Int /\ claimed \in Int
      BY DEF Correlation, Events
    <3> HIDE DEF paid, claimed
    <3>2. ForLog(f, ids[k])
      <4>r. PICK rest \in Int : rest = paid - claimed
        BY <3>1
      <4>1. f = [e EXCEPT !.deposit = rest, !.reserve = claimed]
        BY <4>r
      <4>2. f \in Events /\ f.id = e.id /\ f.kind = e.kind
        <5> HIDE DEF f
        <5> QED
          BY <1>1, <3>1, <4>1 DEF Events
      <4> HIDE DEF f
      <4> QED
        BY <4>2 DEF ForLog
    <3>3. d = CorrelateRedemption(c, e)
      BY <2>1 DEF Correlate
    <3>4. d.events = Append(c.events, f) /\ d.claim = NoEvent /\ d.transfer = NoEvent
          /\ d = [claim |-> d.claim, transfer |-> d.transfer, events |-> d.events, ok |-> d.ok]
      BY <3>3 DEF CorrelateRedemption, paid, claimed
    <3> HIDE DEF f
    <3> QED
      BY <3>2, <3>4
  <2>2. CASE e.kind # "winning_ticket_redeemed"
    <3>1. d.events = Append(c.events, e)
          /\ d = [claim |-> d.claim, transfer |-> d.transfer, events |-> d.events, ok |-> d.ok]
          /\ d.claim \in {c.claim, e} /\ d.transfer \in {c.transfer, e}
      <4>s. PICK s : s = [c EXCEPT !.events = Append(@, e)]
        OBVIOUS
      <4>1. /\ s.events = Append(c.events, e) /\ s.claim = c.claim /\ s.transfer = c.transfer
            /\ s = [claim |-> s.claim, transfer |-> s.transfer, events |-> s.events, ok |-> s.ok]
        BY <4>s DEF Correlation
      <4>2. CASE e.kind = "reserve_claimed"
        <5>1. PICK ok : d = [s EXCEPT !.claim = e, !.ok = ok]
          BY <4>2, <4>s DEF Correlate
        <5> QED
          BY <4>1, <5>1
      <4>3. CASE e.kind = "winning_ticket_transfer"
        <5>1. PICK ok : d = [s EXCEPT !.transfer = e, !.ok = ok]
          BY <4>3, <4>s DEF Correlate
        <5> QED
          BY <4>1, <5>1
      <4>4. CASE e.kind \notin {"reserve_claimed", "winning_ticket_transfer"}
        <5>1. PICK ok : d = [s EXCEPT !.ok = ok]
          BY <2>2, <4>4, <4>s DEF Correlate
        <5> QED
          BY <4>1, <5>1
      <4> QED
        BY <4>2, <4>3, <4>4
    <3> QED
      BY <3>1
  <2> QED
    BY <2>1, <2>2
<1>3. d.claim \in Events \cup {NoEvent} /\ d.transfer \in Events \cup {NoEvent}
  BY <1>1, <1>2 DEF Correlation
<1>q. PICK q \in Seq(Events) : q = c.events /\ Len(q) = m
  BY DEF Correlation
<1>f. f \in Events
  BY <1>2 DEF ForLog
<1>4. /\ Append(q, f) \in Seq(Events) /\ Len(Append(q, f)) = k /\ Append(q, f)[k] = f
      /\ \A i \in 1 .. m : Append(q, f)[i] = q[i]
  BY <1>q, <1>f, AppendProperties
<1>5. \A i \in 1 .. k : i \in 1 .. m \/ i = k
  OBVIOUS
<1>6. \A i \in 1 .. m : ForLog(q[i], ids[i])
  BY <1>q DEF Correlation
<1>7. \A i \in 1 .. k : ForLog(Append(q, f)[i], ids[i])
  BY <1>2, <1>4, <1>5, <1>6
<1> QED
  BY <1>2, <1>3, <1>4, <1>7, <1>q DEF Correlation

\* Each log has its event, in the order of the logs (correlateRedemptions).
THEOREM CorrelatedIs ==
    ASSUME NEW ids, NEW n \in Nat, DOMAIN ids = 1 .. n, \A i \in 1 .. n : Followable(ids[i])
    PROVE  Correlation(Correlated(ids), ids, n)
<1>e. PICK events : events = [i \in DOMAIN ids |-> Decode(ids[i])]
  OBVIOUS
<1>b. PICK base : base = [claim |-> NoEvent, transfer |-> NoEvent, events |-> <<>>, ok |-> TRUE]
  OBVIOUS
<1>1. DOMAIN events = 1 .. n /\ \A i \in 1 .. n : ForLog(events[i], ids[i])
  BY <1>e, DecodeIs
<1>2. PICK t : CorrelateFolds!Trace(t, base, n, events) /\ t[n] = FoldLeft(Correlate, base, events)
  BY <1>1, CorrelateFoldTrace
<1>3. t[0] = base /\ \A i \in 1 .. n : t[i] = Correlate(t[i - 1], events[i])
  BY <1>2 DEF CorrelateFolds!Trace
<1> DEFINE F == {k \in 0 .. n : Correlation(t[k], ids, k)}
<1>4. 0 \in F
  <2>1. Correlation(base, ids, 0)
    BY <1>b DEF Correlation
  <2> QED
    BY <1>3, <2>1
<1>5. ASSUME NEW k \in 1 .. n, k - 1 \in F PROVE k \in F
  <2>m. PICK m \in Nat : m = k - 1 /\ k \in Nat /\ k = m + 1 /\ k \in 0 .. n
    OBVIOUS
  <2>1. Correlation(t[m], ids, m) /\ t[k] = Correlate(t[m], events[k]) /\ ForLog(events[k], ids[k])
    BY <1>1, <1>3, <1>5, <2>m
  <2>2. Correlation(t[k], ids, k)
    BY <2>1, <2>m, CorrelateKeeps
  <2> QED
    BY <2>2, <2>m
<1> HIDE DEF F
<1>6. n \in F
  BY <1>4, <1>5, CorrelateFolds!TraceInduction
<1> QED
  BY <1>2, <1>6, <1>b, <1>e DEF F, Correlated

-----------------------------------------------------------------------------
(***************************************************************************)
(* In the order of the chain                                               *)
(***************************************************************************)
Increasing(seq) == \A i, j \in 1 .. Len(seq) : i < j => Precedes(seq[i], seq[j])

\* A log after all others extends an increasing sequence.
LEMMA IncreasingAppended ==
    ASSUME NEW seq \in Seq(Ids), Increasing(seq), NEW x \in Ids,
           \A i \in 1 .. Len(seq) : Precedes(seq[i], x),
           NEW longer, longer = Append(seq, x)
    PROVE  Increasing(longer)
<1>n. PICK n \in Nat : n = Len(seq)
  OBVIOUS
<1>1. Len(longer) = n + 1 /\ longer[n + 1] = x /\ \A i \in 1 .. n : longer[i] = seq[i]
  BY <1>n, AppendProperties
<1> SUFFICES ASSUME NEW i \in 1 .. n + 1, NEW j \in 1 .. n + 1, i < j
             PROVE  Precedes(longer[i], longer[j])
  BY <1>1 DEF Increasing
<1>2. i \in 1 .. n /\ (j \in 1 .. n \/ j = n + 1)
  OBVIOUS
<1> QED
  BY <1>1, <1>2, <1>n DEF Increasing

\* Increasing sequences, one after the other, join into one.
LEMMA IncreasingJoined ==
    ASSUME NEW seq \in Seq(Ids), Increasing(seq), NEW rest \in Seq(Ids), Increasing(rest),
           \A i \in 1 .. Len(seq) : \A j \in 1 .. Len(rest) : Precedes(seq[i], rest[j]),
           NEW joined, joined = seq \o rest
    PROVE  Increasing(joined)
<1>m. PICK m \in Nat : m = Len(seq)
  OBVIOUS
<1>n. PICK n \in Nat : n = Len(rest)
  OBVIOUS
<1>1. /\ Len(joined) = m + n
      /\ \A i \in 1 .. m + n : joined[i] = IF i <= m THEN seq[i] ELSE rest[i - m]
  BY <1>m, <1>n, ConcatProperties
<1> SUFFICES ASSUME NEW i \in 1 .. m + n, NEW j \in 1 .. m + n, i < j
             PROVE  Precedes(joined[i], joined[j])
  BY <1>1 DEF Increasing
<1>2. CASE j <= m
  <2>1. i \in 1 .. m /\ j \in 1 .. m /\ i <= m
    BY <1>2
  <2>2. Precedes(seq[i], seq[j])
    BY <1>m, <2>1 DEF Increasing
  <2> QED
    BY <1>1, <1>2, <2>1, <2>2
<1>3. CASE ~(j <= m) /\ i <= m
  <2>1. i \in 1 .. m /\ j - m \in 1 .. n
    BY <1>3
  <2>2. Precedes(seq[i], rest[j - m])
    BY <1>m, <1>n, <2>1
  <2> QED
    BY <1>1, <1>3, <2>2
<1>4. CASE ~(i <= m)
  <2>1. i - m \in 1 .. n /\ j - m \in 1 .. n /\ i - m < j - m /\ ~(j <= m)
    BY <1>4
  <2>2. Precedes(rest[i - m], rest[j - m])
    BY <1>n, <2>1 DEF Increasing
  <2> QED
    BY <1>1, <1>4, <2>1, <2>2
<1> QED
  BY <1>2, <1>3, <1>4

\* There is one list in order of a set of identities, and orderedUniqueLogs returns it.
LEMMA OrderedUniqueIs ==
    ASSUME NEW list \in Seq(Ids), Increasing(list), NEW S, S = ToSet(list), Ordered(S),
           NEW seq, ToSet(seq) = S
    PROVE  OrderedUnique(seq) = list
<1>n. PICK n \in Nat : n = Len(list)
  OBVIOUS
<1>1. \A i, j \in 1 .. n : i < j => Precedes(list[i], list[j])
  BY <1>n DEF Increasing
<1>2. S = {list[i] : i \in 1 .. n} /\ \A i \in 1 .. n : list[i] \in S
  BY <1>n, ToSetOfSeq
<1>3. \A p \in S : ~Precedes(p, p)
  BY DEF Ordered, Precedes
<1>4. \A p, q \in S : ~(Precedes(p, q) /\ Precedes(q, p))
  BY DEF Ordered, Precedes
<1>5. \A i, j \in 1 .. n : list[i] = list[j] => i = j
  <2> TAKE i, j \in 1 .. n
  <2>1. i < j \/ j < i \/ i = j
    OBVIOUS
  <2> QED
    BY <1>1, <1>2, <1>3, <2>1
<1>6. \A i, j \in 1 .. n : Precedes(list[i], list[j]) <=> i < j
  <2> TAKE i, j \in 1 .. n
  <2>1. i < j \/ j < i \/ i = j
    OBVIOUS
  <2> QED
    BY <1>1, <1>2, <1>3, <1>4, <2>1
<1>7. ASSUME NEW m \in 0 .. n PROVE Cardinality({list[i] : i \in 1 .. m}) = m
  <2> DEFINE T == {list[i] : i \in 1 .. m}
             f == [i \in 1 .. m |-> list[i]]
  <2>1. f \in Bijection(1 .. m, T)
    BY <1>5 DEF Bijection, Injection, Surjection, IsInjective
  <2>2. ExistsBijection(1 .. m, T)
    BY <2>1 DEF ExistsBijection
  <2> QED
    BY <2>2, FS_CountingElements
<1>8. ASSUME NEW m \in 1 .. n PROVE Cardinality(Before(S, list[m])) = m - 1
  <2>1. Before(S, list[m]) = {list[i] : i \in 1 .. m - 1}
    <3>1. \A i \in 1 .. n : Precedes(list[i], list[m]) <=> i \in 1 .. m - 1
      BY <1>6
    <3>2. \A i \in 1 .. m - 1 : i \in 1 .. n
      OBVIOUS
    <3> QED
      BY <1>2, <3>1, <3>2 DEF Before
  <2> QED
    BY <1>7, <2>1
<1> DEFINE place == [id \in S |-> Cardinality({other \in S : Precedes(other, id)}) + 1]
<1>9. \A m \in 1 .. n : place[list[m]] = m
  <2> TAKE m \in 1 .. n
  <2>x. PICK x \in S : x = list[m]
    BY <1>2
  <2>1. Cardinality(Before(S, x)) = m - 1
    BY <1>8, <2>x
  <2>2. place[x] = Cardinality(Before(S, x)) + 1
    BY DEF Before
  <2>3. place[x] = m
    BY <2>1, <2>2
  <2> QED
    BY <2>3, <2>x
<1>10. Cardinality(S) = n
  BY <1>2, <1>7
<1>11. OrderedUnique(seq) = [m \in 1 .. n |-> CHOOSE id \in S : place[id] = m]
  BY <1>10 DEF OrderedUnique
<1> HIDE DEF place
<1>12. \A m \in 1 .. n : (CHOOSE id \in S : place[id] = m) = list[m]
  BY <1>2, <1>9
<1>13. list = [m \in 1 .. n |-> list[m]]
  BY <1>n
<1> QED
  BY <1>11, <1>12, <1>13

\* The logs of a block come in its order.
LEMMA FollowedLogsIncrease ==
    ASSUME NEW h \in Hashes
    PROVE  Increasing(FollowedLogs[h])
<1>l. PICK list \in Seq(LogRecords) : list = Contract[h].logs
  BY ContractIs DEF Contracts
<1>n. PICK n \in Nat : n = Len(list)
  OBVIOUS
<1>i. PICK ids : ids = LogIds(h)
  OBVIOUS
<1>1. DOMAIN ids = 1 .. n /\ \A i \in 1 .. n : ids[i] = [block |-> h, index |-> i]
  BY <1>l, <1>n, <1>i DEF LogIds
<1>2. PICK t : AskFolds!Trace(t, <<>>, n, ids) /\ t[n] = AskFolds!LeftFold(<<>>, ids)
  BY <1>1, AskFolds!TraceExists
<1>3. t[0] = <<>> /\ \A i \in 1 .. n : t[i] = Asked(t[i - 1], ids[i])
  BY <1>2 DEF AskFolds!Trace
<1> DEFINE Within(s, k) == /\ s \in Seq(Ids) /\ Increasing(s)
                           /\ \A i \in 1 .. Len(s) : s[i].block = h /\ s[i].index <= k
           F == {k \in 0 .. n : Within(t[k], k)}
<1>4. 0 \in F
  <2>1. <<>> \in Seq(Ids) /\ Len(<<>>) = 0
    BY EmptySeq
  <2>2. Within(<<>>, 0)
    BY <2>1 DEF Increasing
  <2> HIDE DEF Within
  <2> QED
    BY <1>3, <2>2
<1>5. ASSUME NEW k \in 1 .. n, k - 1 \in F PROVE k \in F
  <2>m. PICK m \in Nat : m = k - 1 /\ k = m + 1 /\ k \in Nat /\ k \in 0 .. n
    OBVIOUS
  <2>s. PICK s \in Seq(Ids) : s = t[m] /\ Within(s, m)
    BY <1>5, <2>m
  <2>x. PICK x \in Ids : x = [block |-> h, index |-> k]
    BY <2>m DEF Ids
  <2>a. PICK longer : longer = Append(s, x)
    OBVIOUS
  <2>1. t[k] = longer \/ t[k] = s
    BY <1>1, <1>3, <2>m, <2>s, <2>x, <2>a DEF Asked
  <2>2. \A i \in 1 .. Len(s) : s[i] \in Ids /\ s[i].block = h /\ s[i].index <= m
    BY <2>s
  <2>3. ASSUME NEW i \in 1 .. Len(s) PROVE Precedes(s[i], x)
    <3>i. PICK id \in Ids : id = s[i] /\ id.block = h /\ id.index <= m /\ id.index \in Nat
      BY <2>2 DEF Ids
    <3>x. x.block = h /\ x.index = m + 1
      BY <2>m, <2>x
    <3>1. Len(id.block) = Len(x.block) /\ id.index < x.index
      BY <2>m, <3>i, <3>x
    <3> QED
      BY <3>i, <3>1 DEF Precedes
  <2>4. Within(longer, k)
    <3>1. longer \in Seq(Ids) /\ Len(longer) = Len(s) + 1 /\ longer[Len(s) + 1] = x
          /\ \A i \in 1 .. Len(s) : longer[i] = s[i]
      BY <2>a, AppendProperties
    <3>2. Increasing(longer)
      BY <2>a, <2>s, <2>3, IncreasingAppended
    <3>3. \A i \in 1 .. Len(longer) : i \in 1 .. Len(s) \/ i = Len(s) + 1
      BY <3>1
    <3>4. \A i \in 1 .. Len(s) : s[i].index \in Nat
      BY <2>2 DEF Ids
    <3>5. \A i \in 1 .. Len(longer) : longer[i].block = h /\ longer[i].index <= k
      <4> SUFFICES ASSUME NEW i \in 1 .. Len(longer)
                   PROVE  longer[i].block = h /\ longer[i].index <= k
        OBVIOUS
      <4>1. CASE i \in 1 .. Len(s)
        <5>1. longer[i] = s[i]
          BY <3>1, <4>1
        <5>2. PICK j \in Nat : j = s[i].index /\ j <= m
          BY <2>2, <3>4, <4>1
        <5>3. j <= k
          BY <2>m, <5>2
        <5> QED
          BY <2>2, <4>1, <5>1, <5>2, <5>3
      <4>2. CASE i = Len(s) + 1
        <5>1. longer[i] = x
          BY <3>1, <4>2
        <5>2. x.block = h /\ x.index = k
          BY <2>x
        <5> QED
          BY <2>m, <5>1, <5>2
      <4> QED
        BY <3>3, <4>1, <4>2
    <3> QED
      BY <3>1, <3>2, <3>5
  <2>5. Within(s, k)
    <3>1. \A i \in 1 .. Len(s) : s[i].index \in Nat
      BY <2>2 DEF Ids
    <3> QED
      BY <2>2, <2>m, <2>s, <3>1
  <2> HIDE DEF Within
  <2> QED
    BY <2>1, <2>4, <2>5, <2>m
<1> HIDE DEF F
<1>6. n \in F
  BY <1>4, <1>5, AskFolds!TraceInduction
<1>7. FollowedLogs[h] = t[n]
  <2>1. FollowedLogs[h] = FoldLeft(Asked, <<>>, LogIds(h))
    BY DEF FollowedLogs, Tabulated
  <2> QED
    BY <1>2, <1>i, <2>1, AskFoldIs
<1> QED
  BY <1>6, <1>7 DEF F

\* The logs of a stretch of a branch come in its order.
LEMMA LogsIncrease ==
    ASSUME NEW h \in Hashes, NEW first \in Nat \ {0}, NEW last \in Int
    PROVE  Increasing(Logs(h, first, last))
<1>l. PICK l \in Int : l = Lesser(last, Len(h)) /\ l <= Len(h)
  BY HashIs DEF Lesser
<1>h. Len(h) \in Nat
  BY HashIs
<1>n. PICK n \in Nat : IF first <= l THEN n = l - first + 1 ELSE n = 0
  OBVIOUS
<1>s. PICK seq : seq = [i \in 1 .. l - first + 1 |-> FollowedLogs[Ancestor(h, first + i - 1)]]
  OBVIOUS
<1>1. DOMAIN seq = 1 .. n
  BY <1>n, <1>s
<1> DEFINE Of(s, k) == /\ s \in Seq(Ids) /\ Increasing(s)
                       /\ \A i \in 1 .. Len(s) : Len(s[i].block) = k
           UpTo(s, k) == /\ s \in Seq(Ids) /\ Increasing(s)
                         /\ \A i \in 1 .. Len(s) : Len(s[i].block) <= k
<1>2. \A i \in 1 .. n : Of(seq[i], first + i - 1)
  <2> TAKE i \in 1 .. n
  <2>1. i \in 1 .. l - first + 1 /\ first + i - 1 \in 0 .. Len(h)
    BY <1>h, <1>l, <1>n
  <2>k. PICK k \in 0 .. Len(h) : k = first + i - 1
    BY <2>1
  <2>b. PICK b \in Hashes : b = Ancestor(h, k) /\ Len(b) = k
    BY AncestorIs
  <2>q. PICK q \in Seq(Ids) : q = FollowedLogs[b] /\ ToSet(q) = IdsOf(b)
    BY FollowedLogsAre DEF Lists
  <2>2. Increasing(q)
    BY <2>q, FollowedLogsIncrease
  <2>3. \A j \in 1 .. Len(q) : q[j] \in IdsOf(b)
    BY <2>q, ToSetOfSeq
  <2>4. \A id \in IdsOf(b) : id.block = b
    BY DEF IdsOf
  <2>5. Of(q, k)
    BY <2>b, <2>2, <2>3, <2>4
  <2> QED
    BY <1>s, <2>1, <2>5, <2>b, <2>k, <2>q
<1>3. PICK t : JoinFolds!Trace(t, <<>>, n, seq) /\ t[n] = JoinFolds!LeftFold(<<>>, seq)
  BY <1>1, JoinFolds!TraceExists
<1>4. t[0] = <<>> /\ \A i \in 1 .. n : t[i] = t[i - 1] \o seq[i]
  BY <1>3 DEF JoinFolds!Trace
<1> DEFINE F == {k \in 0 .. n : UpTo(t[k], first + k - 1)}
<1>5. 0 \in F
  <2>1. <<>> \in Seq(Ids) /\ Len(<<>>) = 0
    BY EmptySeq
  <2>a. PICK a : a = first + 0 - 1
    OBVIOUS
  <2>2. UpTo(<<>>, a)
    BY <2>1 DEF Increasing
  <2> HIDE DEF UpTo
  <2> QED
    BY <1>4, <2>2, <2>a
<1>6. ASSUME NEW k \in 1 .. n, k - 1 \in F PROVE k \in F
  <2>m. PICK m \in Nat : m = k - 1 /\ k \in 0 .. n
    OBVIOUS
  <2>a. PICK a \in Int : a = first + m - 1
    OBVIOUS
  <2>c. PICK c \in Int : c = first + k - 1 /\ c = a + 1
    BY <2>a, <2>m
  <2>s. PICK s \in Seq(Ids) : s = t[m] /\ UpTo(s, a)
    BY <1>6, <2>a, <2>m
  <2>r. PICK r \in Seq(Ids) : r = seq[k] /\ Of(r, c)
    BY <1>2, <2>c
  <2>j. PICK joined : joined = s \o r
    OBVIOUS
  <2>p. PICK p \in Nat : p = Len(s)
    OBVIOUS
  <2>q. PICK q \in Nat : q = Len(r)
    OBVIOUS
  <2>1. t[k] = joined
    BY <1>4, <2>j, <2>m, <2>r, <2>s
  <2>2. \A i \in 1 .. p : Len(s[i].block) \in Nat /\ Len(s[i].block) <= a
    <3>1. \A i \in 1 .. p : s[i] \in Ids
      BY <2>p
    <3> QED
      BY <2>s, <2>p, <3>1, HashIs DEF Ids
  <2>3. \A j \in 1 .. q : Len(r[j].block) = c
    BY <2>r, <2>q
  <2>4. Increasing(joined)
    <3>1. \A i \in 1 .. p : \A j \in 1 .. q : Precedes(s[i], r[j])
      BY <2>2, <2>3, <2>c DEF Precedes
    <3> QED
      BY <2>j, <2>p, <2>q, <2>r, <2>s, <3>1, IncreasingJoined
  <2>5. /\ joined \in Seq(Ids) /\ Len(joined) = p + q
        /\ \A i \in 1 .. p + q : joined[i] = IF i <= p THEN s[i] ELSE r[i - p]
    BY <2>j, <2>p, <2>q, ConcatProperties
  <2>6. \A i \in 1 .. p + q : Len(joined[i].block) <= c
    <3> TAKE i \in 1 .. p + q
    <3>1. CASE i <= p
      <4>1. i \in 1 .. p
        BY <3>1
      <4> QED
        BY <2>2, <2>5, <2>c, <3>1, <4>1
    <3>2. CASE ~(i <= p)
      <4>1. i - p \in 1 .. q
        BY <3>2
      <4> QED
        BY <2>3, <2>5, <3>2, <4>1
    <3> QED
      BY <3>1, <3>2
  <2>7. UpTo(joined, c)
    BY <2>4, <2>5, <2>6
  <2> HIDE DEF UpTo
  <2> QED
    BY <2>1, <2>7, <2>c, <2>m
<1> HIDE DEF F
<1>7. n \in F
  BY <1>5, <1>6, JoinFolds!TraceInduction
<1>8. Logs(h, first, last) = t[n]
  BY <1>3, <1>l, <1>s, JoinFoldIs DEF Logs
<1> QED
  BY <1>7, <1>8 DEF F

\* In whatever order the node lists the logs of a stretch, and how often, they are
\* brought into the order of the chain.
THEOREM AnswersAreOrdered ==
    ASSUME NEW h \in Hashes, NEW first \in Nat \ {0}, NEW last \in Int,
           NEW list, list = Logs(h, first, last), NEW seq, ToSet(seq) = ToSet(list)
    PROVE  OrderedUnique(seq) = list
<1>1. Lists(list, IdsWithin(h, first, last))
  BY LogsAre
<1>2. Ordered(IdsWithin(h, first, last))
  BY IdsWithinAre
<1>3. Increasing(list)
  BY LogsIncrease
<1> QED
  BY <1>1, <1>2, <1>3, OrderedUniqueIs DEF Lists

-----------------------------------------------------------------------------
(***************************************************************************)
(* Branches                                                                *)
(***************************************************************************)
Branches == Seq(Payloads)

\* An ancestor is a branch of its own, of its height.
LEMMA AncestorIsBranch ==
    ASSUME NEW h \in Branches, NEW n \in Int, n <= Len(h)
    PROVE  /\ Ancestor(h, n) \in Branches
           /\ n \in Nat => Len(Ancestor(h, n)) = n
<1>1. \A i \in 1 .. n : h[i] \in Payloads
  BY ElementOfSeq DEF Branches
<1> QED
  BY <1>1, SubSeqProperties DEF Ancestor, Branches

\* A block is its own ancestor at its height.
LEMMA AncestorOfItself == \A h \in Branches : Ancestor(h, Len(h)) = h
BY SubSeqFull DEF Ancestor, Branches

\* An ancestor's ancestors are the block's own.
LEMMA AncestorOfAncestor ==
    ASSUME NEW h \in Branches, NEW m \in 0 .. Len(h), NEW n \in 0 .. m
    PROVE  Ancestor(Ancestor(h, m), n) = Ancestor(h, n)
<1>1. CASE n = 0
  BY <1>1, SubSeqEmpty DEF Ancestor
<1>2. CASE n # 0
  <2>1. m \in 1 .. Len(h) /\ 1 \in 1 .. Len(h) /\ 1 \in 1 .. m - 1 + 1 /\ n \in 1 .. m - 1 + 1
    BY <1>2 DEF Branches
  <2>2. SubSeq(SubSeq(h, 1, m), 1, n) = SubSeq(h, 1 + 1 - 1, 1 + n - 1)
    BY <2>1, SubSeqOfSubSeq DEF Branches
  <2>3. 1 + 1 - 1 = 1 /\ 1 + n - 1 = n
    OBVIOUS
  <2> QED
    BY <2>2, <2>3 DEF Ancestor
<1> QED
  BY <1>1, <1>2

\* A set of heights has a greatest.
LEMMA Greatest ==
    ASSUME NEW n \in Nat, NEW S \in SUBSET (0 .. n), S # {}
    PROVE  \E k \in S : \A m \in S : m <= k
<1> DEFINE above(i) == {j \in S : i <= j}
           T == {above(i) : i \in S}
<1>1. IsFiniteSet(S)
  <2>1. IsFiniteSet(0 .. n)
    BY FS_Interval
  <2> QED
    BY <2>1, FS_Subset
<1>2. T \subseteq FiniteSubsetsOf(S) /\ T # {}
  <2>1. T \subseteq SUBSET S /\ T # {}
    OBVIOUS
  <2> QED
    BY <1>1, <2>1, FS_FiniteSubsetsOfFinite
<1> HIDE DEF T
<1>3. PICK U \in T : \A V \in T : <<V, U>> \notin StrictSubsetOrdering(S)
  BY <1>2, FS_StrictSubsetOrderingWellFounded, WFMin
<1>4. PICK i \in S : U = above(i)
  BY DEF T
<1>5. ASSUME NEW j \in S, ~(j <= i) PROVE FALSE
  <2>1. above(j) \in T /\ above(j) \subseteq S /\ above(i) \subseteq S
    BY DEF T
  <2>2. i \in Int /\ j \in Int /\ i < j /\ \A k \in S : k \in Int
    BY <1>5
  <2>3. \A k : k \in above(j) => k \in above(i)
    BY <2>2
  <2>4. i \in above(i) /\ i \notin above(j)
    BY <1>5, <2>2
  <2>5. <<above(j), above(i)>> \in StrictSubsetOrdering(S)
    BY <2>1, <2>3, <2>4 DEF StrictSubsetOrdering
  <2> QED
    BY <1>3, <1>4, <2>1, <2>5
<1> QED
  BY <1>5

\* Headers that name each other as parents are those of one branch, whatever the chain
\* did while they were read.
LEMMA LinkedIsBranch ==
    ASSUME NEW a \in Nat \ {0}, NEW b \in Nat, a <= b, NEW f, NEW root \in Branches,
           Len(root) = a - 1,
           \A n \in a .. b : f[n] \in Branches /\ Len(f[n]) = n,
           \A n \in a .. b : Front(f[n]) = IF n = a THEN root ELSE f[n - 1]
    PROVE  /\ \A n \in a .. b : f[n] = Ancestor(f[b], n)
           /\ \A n \in 0 .. a - 1 : Ancestor(root, n) = Ancestor(f[b], n)
<1> DEFINE bad == {n \in a .. b : f[n] # Ancestor(f[b], n)}
<1>1. f[b] \in Branches /\ Len(f[b]) = b
  OBVIOUS
<1>2. bad = {}
  <2>1. SUFFICES ASSUME bad # {} PROVE FALSE
    OBVIOUS
  <2>2. bad \in SUBSET (0 .. b)
    OBVIOUS
  <2>3. PICK x \in bad : \A y \in bad : y <= x
    BY <2>1, <2>2, Greatest
  <2>4. x \in a .. b /\ f[x] # Ancestor(f[b], x)
    OBVIOUS
  <2>5. x # b
    BY <1>1, <2>4, AncestorOfItself
  <2>6. x + 1 \in a .. b /\ x + 1 # a /\ (x + 1) - 1 = x /\ x + 1 \notin bad
    BY <2>3, <2>4, <2>5
  <2>7. f[x + 1] = Ancestor(f[b], x + 1) /\ Len(f[x + 1]) = x + 1
    BY <2>6
  <2>8. Front(f[x + 1]) = f[x]
    BY <2>6
  <2>9. Front(f[x + 1]) = Ancestor(Ancestor(f[b], x + 1), x)
    BY <2>6, <2>7 DEF Front, Ancestor
  <2>10. Ancestor(Ancestor(f[b], x + 1), x) = Ancestor(f[b], x)
    BY <1>1, <2>4, <2>6, AncestorOfAncestor
  <2> QED
    BY <2>4, <2>8, <2>9, <2>10
<1>3. \A n \in a .. b : f[n] = Ancestor(f[b], n)
  BY <1>2
<1>4. root = Ancestor(f[b], a - 1)
  <2>1. Front(f[a]) = root /\ Len(f[a]) = a /\ f[a] = Ancestor(f[b], a)
    BY <1>3
  <2>2. Front(f[a]) = Ancestor(Ancestor(f[b], a), a - 1)
    BY <2>1 DEF Front, Ancestor
  <2>3. Ancestor(Ancestor(f[b], a), a - 1) = Ancestor(f[b], a - 1)
    BY <1>1, AncestorOfAncestor
  <2> QED
    BY <2>1, <2>2, <2>3
<1>5. \A n \in 0 .. a - 1 : Ancestor(root, n) = Ancestor(f[b], n)
  BY <1>1, <1>4, AncestorOfAncestor
<1> QED
  BY <1>3, <1>5

-----------------------------------------------------------------------------
(***************************************************************************)
(* A chain that turns                                                      *)
(***************************************************************************)
\* h is a block of the chain c.
On(h, c) == Len(h) <= Len(c) /\ h = Ancestor(c, Len(h))

\* A block's hash is a branch.
LEMMA HashesAreBranches ==
    ASSUME NEW h \in Hashes
    PROVE  h \in Branches /\ Len(h) \in Nat
BY HashIs DEF Branches

\* A block is on its own branch.
LEMMA OnItself ==
    ASSUME NEW h \in Hashes
    PROVE  On(h, h)
BY HashesAreBranches, AncestorOfItself DEF On

\* A block's ancestors are on its branch.
LEMMA AncestorIsOn ==
    ASSUME NEW h \in Hashes, NEW n \in 0 .. Len(h)
    PROVE  On(Ancestor(h, n), h)
<1>1. Len(Ancestor(h, n)) = n /\ Len(h) \in Nat
  BY AncestorIs, HashesAreBranches
<1> QED
  BY <1>1 DEF On

\* What is on an ancestor's branch is on the block's, at the same height.
LEMMA OnIsTransitive ==
    ASSUME NEW c \in Hashes, NEW h \in Hashes, On(h, c), NEW n \in 0 .. Len(h)
    PROVE  Ancestor(h, n) = Ancestor(c, n) /\ n \in 0 .. Len(c) /\ On(Ancestor(h, n), c)
<1>1. c \in Branches /\ Len(c) \in Nat /\ Len(h) \in Nat
  BY HashesAreBranches
<1>m. PICK m \in 0 .. Len(c) : m = Len(h) /\ h = Ancestor(c, m)
  BY <1>1 DEF On
<1>2. Ancestor(Ancestor(c, m), n) = Ancestor(c, n)
  BY <1>1, <1>m, AncestorOfAncestor
<1>3. n \in 0 .. Len(c)
  BY <1>1, <1>m
<1> QED
  BY <1>2, <1>3, <1>m, AncestorIsOn

\* A block mined keeps the ancestors of the block below it.
LEMMA AncestorOfLonger ==
    ASSUME NEW b \in Hashes, NEW payload \in Payloads, NEW d, d = Append(b, payload)
    PROVE  /\ Len(d) = Len(b) + 1 /\ d[Len(b) + 1] = payload
           /\ \A k \in 0 .. Len(b) : Ancestor(d, k) = Ancestor(b, k)
<1>n. PICK n \in Nat : n = Len(b)
  BY HashesAreBranches
<1>1. b \in Seq(Payloads) /\ d \in Seq(Payloads) /\ Len(d) = n + 1 /\ d[n + 1] = payload
      /\ \A i \in 1 .. n : d[i] = b[i]
  BY <1>n, HashesAreBranches, AppendProperties DEF Branches
<1>2. ASSUME NEW k \in 0 .. n PROVE Ancestor(d, k) = Ancestor(b, k)
  <2>1. Ancestor(d, k) = [i \in 1 .. k |-> d[i]] /\ Ancestor(b, k) = [i \in 1 .. k |-> b[i]]
    BY <1>1, <1>n DEF Ancestor
  <2>2. \A i \in 1 .. k : i \in 1 .. n
    OBVIOUS
  <2> QED
    BY <1>1, <2>1, <2>2
<1> QED
  BY <1>1, <1>2, <1>n

\* The chain d follows b with one block.
LEMMA OnLonger ==
    ASSUME NEW b \in Hashes, NEW payload \in Payloads, NEW d \in Hashes, d = Append(b, payload),
           NEW h \in Hashes
    PROVE  /\ On(h, b) => On(h, d)
           /\ On(h, d) => On(h, b) \/ h = d
<1>n. PICK n \in Nat : n = Len(b)
  BY HashesAreBranches
<1>m. PICK m \in Nat : m = Len(h)
  BY HashesAreBranches
<1>1. Len(d) = n + 1 /\ \A k \in 0 .. n : Ancestor(d, k) = Ancestor(b, k)
  BY <1>n, AncestorOfLonger
<1>2. CASE m <= n
  BY <1>1, <1>2, <1>m, <1>n DEF On
<1>3. CASE ~(m <= n)
  <2>1. On(h, d) => m = n + 1
    BY <1>1, <1>3, <1>m DEF On
  <2>2. Ancestor(d, n + 1) = d
    BY <1>1, HashesAreBranches, AncestorOfItself
  <2> QED
    BY <1>3, <1>m, <1>n, <2>1, <2>2 DEF On
<1> QED
  BY <1>2, <1>3

\* The chain c turns into d above its block n, and loses the block x.
Turns(c, d, n, payload, x) ==
    /\ n < Len(c) /\ payload # c[n + 1]
    /\ d = Append(Ancestor(c, n), payload)
    /\ x = Ancestor(c, n + 1)

\* The block h is on d if it was on c, or stands on x, the block that left at n.
Turned(c, d, n, x, h) ==
    /\ x \in Hashes /\ ~On(x, d)
    /\ On(h, d) => On(h, c) \/ h = d
    /\ On(h, c) => On(h, d) \/ (n + 1 <= Len(h) /\ Ancestor(h, n + 1) = x)

\* When the chain turns at a height, what stays on it is what was below.
LEMMA OnTurned ==
    ASSUME NEW c \in Hashes, NEW d \in Hashes, NEW n \in Nat, NEW payload \in Payloads, NEW x,
           Turns(c, d, n, payload, x), NEW h \in Hashes
    PROVE  Turned(c, d, n, x, h)
<1>0. /\ n < Len(c) /\ payload # c[n + 1]
      /\ d = Append(Ancestor(c, n), payload)
      /\ x = Ancestor(c, n + 1)
  BY DEF Turns
<1>1. Len(c) \in Nat /\ n \in 0 .. Len(c) /\ n + 1 \in 0 .. Len(c) /\ c \in Seq(Payloads)
  BY <1>0, HashesAreBranches DEF Branches
<1>b. PICK b \in Hashes : b = Ancestor(c, n) /\ Len(b) = n
  BY <1>1, AncestorIs
<1>2. x \in Hashes /\ Len(x) = n + 1
  BY <1>0, <1>1, AncestorIs
<1>3. Len(d) = n + 1 /\ d[n + 1] = payload
  BY <1>0, <1>b, AncestorOfLonger
<1>4. ~On(x, d)
  <2>1. x[n + 1] = c[n + 1]
    BY <1>0, <1>1 DEF Ancestor
  <2>2. Ancestor(d, n + 1) = d
    BY <1>3, HashesAreBranches, AncestorOfItself
  <2> QED
    BY <1>0, <1>2, <1>3, <2>1, <2>2 DEF On
<1>5. On(b, c)
  BY <1>1, <1>b, AncestorIsOn
<1>6. ASSUME On(h, d) PROVE On(h, c) \/ h = d
  <2>1. On(h, b) \/ h = d
    BY <1>0, <1>6, <1>b, OnLonger
  <2>2. ASSUME On(h, b) PROVE On(h, c)
    <3>m. PICK m \in 0 .. Len(b) : m = Len(h) /\ h = Ancestor(b, m)
      BY <1>b, <2>2, HashesAreBranches DEF On
    <3>1. On(Ancestor(b, m), c)
      BY <1>5, OnIsTransitive
    <3> QED
      BY <3>1, <3>m
  <2> QED
    BY <2>1, <2>2
<1>7. ASSUME On(h, c) PROVE On(h, d) \/ (n + 1 <= Len(h) /\ Ancestor(h, n + 1) = x)
  <2>m. PICK m \in Nat : m = Len(h)
    BY HashesAreBranches
  <2>1. CASE m <= n
    <3>1. h = Ancestor(c, m) /\ m \in 0 .. n
      BY <1>7, <2>1, <2>m DEF On
    <3>2. Ancestor(b, m) = h
      BY <1>1, <1>b, <3>1, HashesAreBranches, AncestorOfAncestor
    <3>3. On(h, b)
      BY <1>b, <2>1, <2>m, <3>2 DEF On
    <3> QED
      BY <1>0, <1>b, <3>3, OnLonger
  <2>2. CASE ~(m <= n)
    <3>k. PICK k \in 0 .. Len(h) : k = n + 1
      BY <2>2, <2>m
    <3>1. Ancestor(h, k) = Ancestor(c, k)
      BY <1>7, OnIsTransitive
    <3> QED
      BY <1>0, <2>2, <2>m, <3>1, <3>k
  <2> QED
    BY <2>1, <2>2
<1> QED
  BY <1>2, <1>4, <1>6, <1>7 DEF Turned

\* The logs of a stretch are those of any chain that the blocks are on.
LEMMA LogsOfAncestor ==
    ASSUME NEW c \in Hashes, NEW h \in Hashes, On(h, c), NEW first \in Nat \ {0},
           NEW last \in Nat, last = Len(h)
    PROVE  Logs(c, first, last) = Logs(h, first, last)
<1>1. Lesser(last, Len(c)) = last /\ Lesser(last, Len(h)) = last
  BY HashesAreBranches DEF On, Lesser
<1>2. ASSUME NEW i \in 1 .. last - first + 1
      PROVE  Ancestor(c, first + i - 1) = Ancestor(h, first + i - 1)
  <2>k. PICK k \in 0 .. Len(h) : k = first + i - 1
    OBVIOUS
  <2> QED
    BY <2>k, OnIsTransitive
<1>3. [i \in 1 .. last - first + 1 |-> FollowedLogs[Ancestor(c, first + i - 1)]]
        = [i \in 1 .. last - first + 1 |-> FollowedLogs[Ancestor(h, first + i - 1)]]
  BY <1>2
<1> QED
  BY <1>1, <1>3 DEF Logs

-----------------------------------------------------------------------------
(***************************************************************************)
(* The events of a branch                                                  *)
(***************************************************************************)
\* The logs of the branch h after the block s.
Since(h, s) == IdsWithin(h, Len(s) + 1, Len(h))

RedemptionsOf(S) == {id \in S : LogOf(id).kind = "winning_ticket_redeemed"}

\* Nothing has happened since a block at that block.
LEMMA SinceItself ==
    ASSUME NEW h \in Hashes
    PROVE  Since(h, h) = {}
<1>n. PICK n \in Nat : n = Len(h)
  BY HashesAreBranches
<1>1. n + 1 .. Lesser(n, n) = {}
  BY DEF Lesser
<1> QED
  BY <1>1, <1>n DEF Since, IdsWithin

\* A block's logs are of that block.
LEMMA IdsOfBlock ==
    ASSUME NEW h, NEW id \in IdsOf(h)
    PROVE  id.block = h
BY DEF IdsOf

\* A rewind to g leaves the logs up to g.
LEMMA SinceAncestor ==
    ASSUME NEW h \in Hashes, NEW g \in Hashes, NEW s \in Hashes, On(g, h), On(s, g)
    PROVE  /\ On(s, h)
           /\ Since(g, s) = {id \in Since(h, s) : Len(id.block) <= Len(g)}
<1>n. PICK n \in Nat : n = Len(h)
  BY HashesAreBranches
<1>m. PICK m \in 0 .. n : m = Len(g) /\ g = Ancestor(h, m)
  BY <1>n, HashesAreBranches DEF On
<1>k. PICK k \in 0 .. m : k = Len(s) /\ s = Ancestor(g, k)
  BY <1>m, HashesAreBranches DEF On
<1>1. On(s, h)
  BY <1>k, <1>m, OnIsTransitive
<1>2. \A i \in 0 .. m : Ancestor(g, i) = Ancestor(h, i)
  BY <1>m, OnIsTransitive
<1>3. \A i \in 0 .. n : Len(Ancestor(h, i)) = i
  BY <1>n, AncestorIs
<1>4. Since(h, s) = UNION {IdsOf(Ancestor(h, i)) : i \in k + 1 .. n}
      /\ Since(g, s) = UNION {IdsOf(Ancestor(g, i)) : i \in k + 1 .. m}
  <2>1. Lesser(n, n) = n /\ Lesser(m, m) = m
    BY DEF Lesser
  <2> QED
    BY <1>k, <1>m, <1>n, <2>1 DEF Since, IdsWithin
<1>5. \A i \in k + 1 .. m : i \in 0 .. m /\ i \in k + 1 .. n
  OBVIOUS
<1>6. ASSUME NEW id PROVE id \in Since(g, s) <=> id \in Since(h, s) /\ Len(id.block) <= m
  <2>1. ASSUME id \in Since(g, s) PROVE id \in Since(h, s) /\ Len(id.block) <= m
    <3>i. PICK i \in k + 1 .. m : id \in IdsOf(Ancestor(g, i))
      BY <1>4, <2>1
    <3>1. id \in IdsOf(Ancestor(h, i)) /\ i \in k + 1 .. n /\ i \in 0 .. n /\ i <= m
      BY <1>2, <1>5, <3>i
    <3>2. id.block = Ancestor(h, i)
      BY <3>1, IdsOfBlock
    <3> QED
      BY <1>3, <1>4, <3>1, <3>2
  <2>2. ASSUME id \in Since(h, s), Len(id.block) <= m PROVE id \in Since(g, s)
    <3>i. PICK i \in k + 1 .. n : id \in IdsOf(Ancestor(h, i))
      BY <1>4, <2>2
    <3>1. id.block = Ancestor(h, i) /\ i \in 0 .. n
      BY <3>i, IdsOfBlock
    <3>2. i <= m
      BY <1>3, <2>2, <3>1
    <3>3. i \in k + 1 .. m /\ i \in 0 .. m
      BY <3>2
    <3> QED
      BY <1>2, <1>4, <3>3, <3>i
  <2> QED
    BY <2>1, <2>2
<1>7. Since(g, s) \subseteq Since(h, s)
  BY <1>6
<1> QED
  BY <1>1, <1>6, <1>m

\* A batch on top of g adds its logs.
LEMMA SinceJoined ==
    ASSUME NEW h \in Hashes, NEW g \in Hashes, NEW s \in Hashes, On(g, h), On(s, g)
    PROVE  Since(h, s) = Since(g, s) \cup Since(h, g)
<1>n. PICK n \in Nat : n = Len(h)
  BY HashesAreBranches
<1>m. PICK m \in 0 .. n : m = Len(g) /\ g = Ancestor(h, m)
  BY <1>n, HashesAreBranches DEF On
<1>k. PICK k \in 0 .. m : k = Len(s) /\ s = Ancestor(g, k)
  BY <1>m, HashesAreBranches DEF On
<1>1. Lesser(n, n) = n
  BY DEF Lesser
<1>2. Since(h, s) = UNION {IdsOf(Ancestor(h, i)) : i \in k + 1 .. n}
      /\ Since(h, g) = UNION {IdsOf(Ancestor(h, i)) : i \in m + 1 .. n}
  BY <1>1, <1>k, <1>m, <1>n DEF Since, IdsWithin
<1>3. Since(g, s) = UNION {IdsOf(Ancestor(h, i)) : i \in k + 1 .. m}
  <2>1. Lesser(m, m) = m
    BY DEF Lesser
  <2>2. Since(g, s) = UNION {IdsOf(Ancestor(g, i)) : i \in k + 1 .. m}
    BY <1>k, <1>m, <2>1 DEF Since, IdsWithin
  <2>3. \A i \in 0 .. m : Ancestor(g, i) = Ancestor(h, i)
    BY <1>m, OnIsTransitive
  <2>4. \A i \in k + 1 .. m : i \in 0 .. m
    OBVIOUS
  <2> QED
    BY <2>2, <2>3, <2>4
<1>4. k + 1 .. n = (k + 1 .. m) \cup (m + 1 .. n)
  OBVIOUS
<1> QED
  BY <1>2, <1>3, <1>4

\* The first k elements of a sequence.
Firsts(seq, k) == {seq[i] : i \in 1 .. k}
=============================================================================
