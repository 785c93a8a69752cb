---------------------------- MODULE ServiceProofs ----------------------------
(***************************************************************************)
(* Two parts of the service that run beside the accounting.                *)
(*                                                                         *)
(* Attribution and pagination, for any number of sessions, redemption logs *)
(* and ticket pairs, any limits and any interleaving: attribution is       *)
(* inductive once a redemption without a row is known to have no           *)
(* attribution, and a walk with two facts about the cursor: no row of the  *)
(* pages so far is beyond it, and the rows the filter matched all along    *)
(* still match.                                                            *)
(*                                                                         *)
(* Processes and migrations, for any number of processes, components,      *)
(* locks and releases, and without the bound on starts.  There are four    *)
(* invariants, each inductive with the types: what a process holds while   *)
(* it may run components, whose evidence is stored meanwhile, what it      *)
(* knows of the schema once it has migrated, and why an outcome that it    *)
(* has yet to receive is an error.                                         *)
(***************************************************************************)
EXTENDS Pagination, Supervisor, FiniteSetTheorems, TLAPS

\* The type of the attribution without that of the counts, which follows from
\* SettlementCountsMatch.
AttrTyping ==
    /\ signed \subseteq Sessions \X Tickets
    /\ state \in [Settlements -> States \cup {"absent"}]
    /\ match \in [Settlements -> Matches]
    /\ session \in [Settlements -> Sessions \cup {NoSession}]
    /\ counts = [b \in States \X Matches |-> counts[b]]

AttrInv == AttrTyping /\ AttributionIsCurrent /\ SettlementCountsMatch

\* The settlements a count is about, by the status and the match each of them has.
Bucket(now, by, b) == {x \in Settlements : <<now[x], by[x]>> = b}

-----------------------------------------------------------------------------
(***************************************************************************)
(* Attribution                                                             *)
(***************************************************************************)
\* What rematch decides is of its type, whatever the signers.
LEMMA AttributedIsMatch ==
    ASSUME NEW G \in SUBSET Sessions
    PROVE  Attributed(G) \in Matches /\ SignerOf(G) \in Sessions \cup {NoSession}
<1>1. CASE Attributed(G) = "matched"
  <2>1. G # {}
    BY <1>1 DEF Attributed
  <2>2. (CHOOSE s \in G : TRUE) \in G
    BY <2>1
  <2> QED
    BY <1>1, <2>2 DEF SignerOf, Matches
<1>2. CASE Attributed(G) # "matched"
  BY <1>2 DEF SignerOf, Matches, Attributed
<1> QED
  BY <1>1, <1>2

\* Two signers are ambiguous, and stay so when others sign.
LEMMA AmbiguityGrows ==
    ASSUME NEW G, NEW H, G \subseteq H, Attributed(G) = "ambiguous"
    PROVE  Attributed(H) = "ambiguous" /\ SignerOf(H) = NoSession
<1>1. G # {} /\ \A s \in G : G # {s}
  BY DEF Attributed
<1>2. PICK s \in G, t \in G : s # t
  BY <1>1
<1>3. Attributed(H) = "ambiguous"
  BY <1>2 DEF Attributed
<1> QED
  BY <1>3 DEF SignerOf

\* Whoever signed a ticket is a session.
LEMMA SignersAreSessions == \A rows_, t : Signers(rows_, t) \in SUBSET Sessions
BY DEF Signers

\* A ticket of one pair changes the signers of no other.
LEMMA SignersOfOthers ==
    ASSUME NEW s \in Sessions, NEW t \in Tickets, NEW u \in Tickets, u # t
    PROVE  Signers(signed \cup {<<s, t>>}, u) = Signers(signed, u)
BY DEF Signers

\* After rematch the pair's settlements say what its signers say; the others are as
\* they were.
LEMMA RematchAttributes ==
    ASSUME AttrTyping, NEW t, NEW G \in SUBSET Sessions, NEW now, NEW k, Rematch(t, G, now, k)
    PROVE  /\ match' \in [Settlements -> Matches]
           /\ session' \in [Settlements -> Sessions \cup {NoSession}]
           /\ \A x \in Settlements :
                 IF now[x] # "absent" /\ TicketOf[x] = t
                   THEN match'[x] = Attributed(G) /\ session'[x] = SignerOf(G)
                   ELSE match'[x] = match[x] /\ session'[x] = session[x]
<1> DEFINE m == Attributed(G)
           s == SignerOf(G)
           changed == Stale(t, now, m, s)
<1>1. m \in Matches /\ s \in Sessions \cup {NoSession}
  BY AttributedIsMatch
<1>2. /\ match' = [x \in Settlements |-> IF x \in changed THEN m ELSE match[x]]
      /\ session' = [x \in Settlements |-> IF x \in changed THEN s ELSE session[x]]
  BY DEF Rematch
<1>3. \A x \in Settlements :
          x \in changed <=> now[x] # "absent" /\ TicketOf[x] = t /\ (match[x] # m \/ session[x] # s)
  BY DEF Stale
<1> HIDE DEF m, s, changed
<1>4. /\ match' \in [Settlements -> Matches]
      /\ session' \in [Settlements -> Sessions \cup {NoSession}]
  BY <1>1, <1>2 DEF AttrTyping
<1>5. \A x \in Settlements :
          IF now[x] # "absent" /\ TicketOf[x] = t
            THEN match'[x] = m /\ session'[x] = s
            ELSE match'[x] = match[x] /\ session'[x] = session[x]
  BY <1>2, <1>3
<1> QED
  BY <1>4, <1>5 DEF m, s

-----------------------------------------------------------------------------
\* Counting: rows that join and rows that leave.
LEMMA CountJoined ==
    ASSUME NEW A, NEW B, IsFiniteSet(A), IsFiniteSet(B), A \cap B = {}
    PROVE  Cardinality(A \cup B) = Cardinality(A) + Cardinality(B)
<1>1. Cardinality(A \cup B) = Cardinality(A) + Cardinality(B) - Cardinality(A \cap B)
  BY FS_Union
<1>2. Cardinality(A \cap B) = 0
  BY FS_EmptySet
<1>3. Cardinality(A) \in Nat /\ Cardinality(B) \in Nat
  BY FS_CardinalityType
<1> QED
  BY <1>1, <1>2, <1>3

\* What is taken out of a finite set is missing from its count.
LEMMA CountLeft ==
    ASSUME NEW A, NEW B, IsFiniteSet(A), B \subseteq A
    PROVE  Cardinality(A \ B) = Cardinality(A) - Cardinality(B)
<1>1. A \cap B = B
  OBVIOUS
<1>2. Cardinality(A \ B) = Cardinality(A) - Cardinality(A \cap B)
  BY FS_Difference
<1> QED
  BY <1>1, <1>2

\* Every set of settlements is finite.
LEMMA SettlementsFinite == \A A \in SUBSET Settlements : IsFiniteSet(A)
BY SettlementsAssumption, FS_Subset

\* If the counts at some point of the transaction are those of a scan of its rows, they
\* still are after rematch.
LEMMA RematchCounts ==
    ASSUME AttrTyping, NEW t, NEW G \in SUBSET Sessions, NEW now, NEW k, Rematch(t, G, now, k),
           \A b \in States \X Matches :
               k[b] = Cardinality(Bucket(now, match, b))
    PROVE  \A b \in States \X Matches :
               counts'[b] = Cardinality(Bucket(now, match', b))
<1> DEFINE m == Attributed(G)
           changed == Stale(t, now, m, SignerOf(G))
<1> SUFFICES ASSUME NEW b \in States \X Matches
             PROVE  counts'[b] = Cardinality(Bucket(now, match', b))
  OBVIOUS
<1> DEFINE before == Bucket(now, match, b)
           after == Bucket(now, match', b)
           moved == {x \in changed : now[x] = b[1] /\ match[x] # m}
           gone == {x \in moved : match[x] = b[2]}
<1>1. counts'[b] = IF b[2] = m THEN k[b] + Cardinality(moved) ELSE k[b] - Cardinality(gone)
  BY DEF Rematch
<1>2. match' = [x \in Settlements |-> IF x \in changed THEN m ELSE match[x]]
  BY DEF Rematch
<1>3. changed \subseteq Settlements
  BY DEF Stale
<1>4. k[b] = Cardinality(before)
  OBVIOUS
<1>5. b = <<b[1], b[2]>>
  OBVIOUS
<1> HIDE DEF m, changed
<1>6. IsFiniteSet(before) /\ IsFiniteSet(moved)
  BY <1>3, SettlementsFinite DEF Bucket
<1>7. CASE b[2] = m
  <2>1. after = before \cup moved
    BY <1>2, <1>3, <1>5, <1>7 DEF Bucket
  <2>2. before \cap moved = {}
    BY <1>5, <1>7 DEF Bucket
  <2> HIDE DEF before, moved, after
  <2>3. Cardinality(after) = Cardinality(before) + Cardinality(moved)
    BY <1>6, <2>1, <2>2, CountJoined
  <2> QED
    BY <1>1, <1>4, <1>7, <2>3 DEF after
<1>8. CASE b[2] # m
  <2>1. after = before \ gone
    BY <1>2, <1>3, <1>5, <1>8 DEF Bucket
  <2>2. gone \subseteq before
    BY <1>3, <1>5 DEF Bucket
  <2> HIDE DEF before, gone, after
  <2>3. Cardinality(after) = Cardinality(before) - Cardinality(gone)
    BY <1>6, <2>1, <2>2, CountLeft
  <2> QED
    BY <1>1, <1>4, <1>8, <2>3 DEF after
<1> QED
  BY <1>7, <1>8

\* A settlement moves from its status, if it has one, to another.
LEMMA RecountCounts ==
    ASSUME AttrTyping, SettlementCountsMatch, NEW x \in Settlements, NEW next \in States, state[x] # next
    PROVE  \A b \in States \X Matches :
               Recount(x, next)[b] =
                   Cardinality(Bucket([state EXCEPT ![x] = next], match, b))
<1> DEFINE now == [state EXCEPT ![x] = next]
<1> SUFFICES ASSUME NEW b \in States \X Matches
             PROVE  Recount(x, next)[b] = Cardinality(Bucket(now, match, b))
  OBVIOUS
<1> DEFINE before == Bucket(state, match, b)
           after == Bucket(now, match, b)
<1>1. counts[b] = Cardinality(before)
  BY DEF SettlementCountsMatch, Bucket
<1>2. \A y \in Settlements : now[y] = IF y = x THEN next ELSE state[y]
  BY DEF AttrTyping
<1>3. IsFiniteSet(before)
  BY SettlementsFinite DEF Bucket
<1>4. Recount(x, next)[b] = IF b = <<next, match[x]>> THEN counts[b] + 1
                            ELSE IF b = <<state[x], match[x]>> THEN counts[b] - 1
                            ELSE counts[b]
  BY DEF Recount
<1> HIDE DEF now
<1>5. CASE b = <<next, match[x]>>
  <2>1. after = before \cup {x} /\ x \notin before
    BY <1>2, <1>5 DEF Bucket
  <2> HIDE DEF before, after
  <2>2. Cardinality(after) = Cardinality(before) + 1
    BY <1>3, <2>1, FS_AddElement
  <2> QED
    BY <1>1, <1>4, <1>5, <2>2 DEF after
<1>6. CASE b # <<next, match[x]>> /\ b = <<state[x], match[x]>>
  <2>1. after = before \ {x} /\ x \in before
    BY <1>2, <1>6 DEF Bucket
  <2> HIDE DEF before, after
  <2>2. Cardinality(after) = Cardinality(before) - 1
    BY <1>3, <2>1, FS_RemoveElement
  <2> QED
    BY <1>1, <1>4, <1>6, <2>2 DEF after
<1>7. CASE b # <<next, match[x]>> /\ b # <<state[x], match[x]>>
  <2>1. after = before
    BY <1>2, <1>7 DEF Bucket
  <2> QED
    BY <1>1, <1>4, <1>7, <2>1
<1> QED
  BY <1>5, <1>6, <1>7

-----------------------------------------------------------------------------
\* The attribution starts in order.
LEMMA AttrInvInit == AttrInit => AttrInv
<1> SUFFICES ASSUME AttrInit PROVE AttrInv
  OBVIOUS
<1>1. AttrTyping
  BY DEF AttrInit, AttrTyping, Matches
<1>2. AttributionIsCurrent
  BY DEF AttrInit, AttributionIsCurrent
<1>3. SettlementCountsMatch
  <2>1. \A b \in States \X Matches : Bucket(state, match, b) = {}
    BY DEF AttrInit, States, Bucket
  <2> QED
    BY <2>1, FS_EmptySet DEF AttrInit, SettlementCountsMatch, Bucket
<1> QED
  BY <1>1, <1>2, <1>3 DEF AttrInv

\* A ticket signed keeps the invariant.
LEMMA SignStep ==
    ASSUME AttrInv, NEW s \in Sessions, NEW t \in Tickets, Sign(s, t)
    PROVE  AttrInv'
<1> DEFINE G == Signers(signed', t)
<1>1. AttrTyping /\ AttributionIsCurrent /\ SettlementCountsMatch
  BY DEF AttrInv
<1>2. /\ signed' = signed \cup {<<s, t>>} /\ state' = state
      /\ Rematch(t, G, state, counts)
  BY DEF Sign
<1>3. G \in SUBSET Sessions
  BY SignersAreSessions
<1> HIDE DEF G
<1>4. /\ match' \in [Settlements -> Matches]
      /\ session' \in [Settlements -> Sessions \cup {NoSession}]
      /\ \A x \in Settlements :
            IF state[x] # "absent" /\ TicketOf[x] = t
              THEN match'[x] = Attributed(G) /\ session'[x] = SignerOf(G)
              ELSE match'[x] = match[x] /\ session'[x] = session[x]
  BY <1>1, <1>2, <1>3, RematchAttributes
<1>5. AttrTyping'
  BY <1>1, <1>2, <1>4 DEF AttrTyping, Rematch
<1>6. AttributionIsCurrent'
  <2> SUFFICES ASSUME NEW x \in Settlements, state'[x] # "absent"
               PROVE  /\ match'[x] = Attributed(Signers(signed', TicketOf[x]))
                      /\ session'[x] = SignerOf(Signers(signed', TicketOf[x]))
    BY DEF AttributionIsCurrent
  <2>1. TicketOf[x] \in Tickets
    BY TicketOfAssumption
  <2>2. CASE TicketOf[x] = t
    BY <1>2, <1>4, <2>2 DEF G
  <2>3. CASE TicketOf[x] # t
    <3>1. Signers(signed', TicketOf[x]) = Signers(signed, TicketOf[x])
      BY <1>2, <2>1, <2>3, SignersOfOthers
    <3>2. match'[x] = match[x] /\ session'[x] = session[x]
      BY <1>4, <2>3
    <3> QED
      BY <1>1, <1>2, <3>1, <3>2 DEF AttributionIsCurrent
  <2> QED
    BY <2>2, <2>3
<1>7. SettlementCountsMatch'
  <2>1. \A b \in States \X Matches :
            counts[b] = Cardinality(Bucket(state, match, b))
    BY <1>1 DEF SettlementCountsMatch, Bucket
  <2>2. \A b \in States \X Matches :
            counts'[b] = Cardinality(Bucket(state, match', b))
    BY <1>1, <1>2, <1>3, <2>1, RematchCounts
  <2> QED
    BY <1>2, <2>2 DEF SettlementCountsMatch, Bucket
<1> QED
  BY <1>5, <1>6, <1>7 DEF AttrInv

\* A settlement recorded keeps the invariant.
LEMMA SettleStep ==
    ASSUME AttrInv, NEW x \in Settlements, Settle(x)
    PROVE  AttrInv'
<1> DEFINE now == [state EXCEPT ![x] = "settled"]
           t == TicketOf[x]
           G == Signers(signed, t)
           k == Recount(x, "settled")
<1>1. AttrTyping /\ AttributionIsCurrent /\ SettlementCountsMatch
  BY DEF AttrInv
<1>2. /\ state[x] # "settled" /\ state' = now /\ signed' = signed
      /\ Rematch(t, G, now, k)
  BY DEF Settle
<1>3. G \in SUBSET Sessions
  BY SignersAreSessions
<1>4. \A b \in States \X Matches :
          k[b] = Cardinality(Bucket(now, match, b))
  BY <1>1, <1>2, RecountCounts DEF States
<1>5. now \in [Settlements -> States \cup {"absent"}]
  BY <1>1 DEF AttrTyping, States
<1>6. \A y \in Settlements : now[y] = IF y = x THEN "settled" ELSE state[y]
  BY <1>1 DEF AttrTyping
<1> HIDE DEF now, G, k
<1>7. /\ match' \in [Settlements -> Matches]
      /\ session' \in [Settlements -> Sessions \cup {NoSession}]
      /\ \A y \in Settlements :
            IF now[y] # "absent" /\ TicketOf[y] = t
              THEN match'[y] = Attributed(G) /\ session'[y] = SignerOf(G)
              ELSE match'[y] = match[y] /\ session'[y] = session[y]
  BY <1>1, <1>2, <1>3, RematchAttributes
<1>8. AttrTyping'
  BY <1>1, <1>2, <1>5, <1>7 DEF AttrTyping, Rematch
<1>9. AttributionIsCurrent'
  <2> SUFFICES ASSUME NEW y \in Settlements, state'[y] # "absent"
               PROVE  /\ match'[y] = Attributed(Signers(signed', TicketOf[y]))
                      /\ session'[y] = SignerOf(Signers(signed', TicketOf[y]))
    BY DEF AttributionIsCurrent
  <2>1. CASE TicketOf[y] = t
    BY <1>2, <1>7, <2>1 DEF G
  <2>2. CASE TicketOf[y] # t
    <3>1. y # x
      BY <2>2
    <3>2. state[y] # "absent"
      BY <1>2, <1>6, <3>1
    <3> QED
      BY <1>1, <1>2, <1>7, <2>2, <3>2 DEF AttributionIsCurrent
  <2> QED
    BY <2>1, <2>2
<1>10. SettlementCountsMatch'
  <2>1. \A b \in States \X Matches :
            counts'[b] = Cardinality(Bucket(now, match', b))
    BY <1>1, <1>2, <1>3, <1>4, RematchCounts
  <2> QED
    BY <1>2, <2>1 DEF SettlementCountsMatch, Bucket
<1> QED
  BY <1>8, <1>9, <1>10 DEF AttrInv

\* A settlement orphaned keeps the invariant.
LEMMA OrphanStep ==
    ASSUME AttrInv, NEW x \in Settlements, Orphan(x)
    PROVE  AttrInv'
<1>1. AttrTyping /\ AttributionIsCurrent /\ SettlementCountsMatch
  BY DEF AttrInv
<1>2. /\ state[x] = "settled" /\ state' = [state EXCEPT ![x] = "orphaned"]
      /\ counts' = Recount(x, "orphaned")
      /\ signed' = signed /\ match' = match /\ session' = session
  BY DEF Orphan
<1>3. AttrTyping'
  BY <1>1, <1>2 DEF AttrTyping, States, Recount
<1>4. AttributionIsCurrent'
  BY <1>1, <1>2 DEF AttributionIsCurrent, AttrTyping
<1>5. SettlementCountsMatch'
  <2>1. \A b \in States \X Matches :
            counts'[b] = Cardinality(Bucket(state', match, b))
    BY <1>1, <1>2, RecountCounts DEF States
  <2> QED
    BY <1>2, <2>1 DEF SettlementCountsMatch, Bucket
<1> QED
  BY <1>3, <1>4, <1>5 DEF AttrInv

\* Every step keeps the attribution's invariant.
LEMMA AttrInvNext == AttrInv /\ [AttrNext]_attrVars => AttrInv'
<1> SUFFICES ASSUME AttrInv, [AttrNext]_attrVars PROVE AttrInv'
  OBVIOUS
<1>1. CASE \E s \in Sessions, t \in Tickets : Sign(s, t)
  BY <1>1, SignStep
<1>2. CASE \E x \in Settlements : Settle(x)
  BY <1>2, SettleStep
<1>3. CASE \E x \in Settlements : Orphan(x)
  BY <1>3, OrphanStep
<1>4. CASE UNCHANGED attrVars
  BY <1>4 DEF attrVars, AttrInv, AttrTyping, AttributionIsCurrent, SettlementCountsMatch
<1> QED
  BY <1>1, <1>2, <1>3, <1>4 DEF AttrNext

\* Tickets are only ever added, and a settlement that exists stays.
LEMMA SignedGrows ==
    ASSUME AttrTyping, [AttrNext]_attrVars
    PROVE  /\ signed \subseteq signed'
           /\ \A x \in Settlements : state[x] # "absent" => state'[x] # "absent"
<1>1. CASE \E s \in Sessions, t \in Tickets : Sign(s, t)
  BY <1>1 DEF Sign
<1>2. CASE \E x \in Settlements : Settle(x)
  BY <1>2 DEF Settle, AttrTyping
<1>3. CASE \E x \in Settlements : Orphan(x)
  BY <1>3 DEF Orphan, AttrTyping
<1>4. CASE UNCHANGED attrVars
  BY <1>4 DEF attrVars
<1> QED
  BY <1>1, <1>2, <1>3, <1>4 DEF AttrNext

AmbiguityStays ==
    \A x \in Settlements :
        state[x] # "absent" /\ match[x] = "ambiguous" => match'[x] = "ambiguous" /\ session'[x] = NoSession

\* A settlement found ambiguous stays so.
LEMMA AmbiguityStep == AttrInv /\ [AttrNext]_attrVars => AmbiguityStays
<1> SUFFICES ASSUME AttrInv, [AttrNext]_attrVars,
                    NEW x \in Settlements, state[x] # "absent", match[x] = "ambiguous"
             PROVE  match'[x] = "ambiguous" /\ session'[x] = NoSession
  BY DEF AmbiguityStays
<1> DEFINE G == Signers(signed, TicketOf[x])
           H == Signers(signed', TicketOf[x])
<1>1. AttrInv'
  BY AttrInvNext
<1>2. /\ match[x] = Attributed(G)
  BY DEF AttrInv, AttributionIsCurrent
<1>3. signed \subseteq signed' /\ state'[x] # "absent"
  BY SignedGrows DEF AttrInv
<1>4. match'[x] = Attributed(H) /\ session'[x] = SignerOf(H)
  BY <1>1, <1>3 DEF AttrInv, AttributionIsCurrent
<1>5. G \subseteq H
  BY <1>3 DEF Signers
<1> HIDE DEF G, H
<1> QED
  BY <1>2, <1>4, <1>5, AmbiguityGrows

-----------------------------------------------------------------------------
(***************************************************************************)
(* Pagination                                                              *)
(***************************************************************************)
CursorIsLast == cursor # 0 => \A i \in page \cup returned : i <= cursor

SteadySelected == \A i \in steady : Selects(filter, i)

PageInv ==
    /\ AttrInv
    /\ PageTypeOK
    /\ CursorIsLast
    /\ SteadySelected
    /\ NoRowTwice
    /\ NothingSkipped

\* A page that is not empty has a last row.
LEMMA LastOfPage ==
    ASSUME NEW n \in Nat, NEW P \in SUBSET (1 .. n), P # {}
    PROVE  \E i \in P : \A j \in P : j <= i
<1> DEFINE from(i) == {j \in P : i <= j}
           T == {from(i) : i \in P}
<1>1. IsFiniteSet(1 .. n)
  BY FS_Interval
<1>2. IsFiniteSet(P)
  BY <1>1, FS_Subset
<1>3. T \subseteq FiniteSubsetsOf(P)
  BY <1>2, FS_FiniteSubsetsOfFinite
<1>4. T # {}
  OBVIOUS
<1> HIDE DEF T
<1>5. PICK U \in T : \A V \in T : <<V, U>> \notin StrictSubsetOrdering(P)
  BY <1>3, <1>4, FS_StrictSubsetOrderingWellFounded, WFMin
<1>6. PICK i \in P : U = from(i)
  BY DEF T
<1>7. ASSUME NEW j \in P, ~(j <= i) PROVE FALSE
  <2>1. from(j) \in T /\ from(j) \subseteq P /\ from(i) \subseteq P
    BY DEF T
  <2>2. from(j) \subseteq from(i) /\ i \in from(i) /\ i \notin from(j)
    <3>1. /\ i \in Int /\ j \in Int /\ i < j /\ i <= i
          /\ \A k \in P : k \in Int
      BY <1>7
    <3>2. \A k \in P : j <= k => i <= k
      BY <3>1
    <3>3. ~(j <= i)
      BY <3>1
    <3>4. \A k : k \in from(j) => k \in from(i)
      BY <3>2
    <3>5. i \in from(i)
      BY <3>1
    <3>6. i \notin from(j)
      BY <3>3
    <3> QED
      BY <3>4, <3>5, <3>6
  <2>3. <<from(j), from(i)>> \in StrictSubsetOrdering(P)
    BY <2>1, <2>2 DEF StrictSubsetOrdering
  <2> QED
    BY <1>5, <1>6, <2>1, <2>3
<1> QED
  BY <1>7

\* What a page is: rows after the cursor that the filter matches, with a cursor for the
\* rest.
LEMMA PageIsPrefix ==
    ASSUME rows \in Seq(Settlements), NEW f, NEW n \in Nat, NEW limit \in Limits, Page(f, n, limit)
    PROVE  /\ page' \subseteq DOMAIN rows
           /\ \A i \in page' : n < i /\ Selects(f, i)
           /\ cursor' \in 0 .. Len(rows)
           /\ cursor' # 0 => cursor' \in page' /\ \A i \in page' : i <= cursor'
           /\ \A i \in DOMAIN rows :
                 n < i /\ Selects(f, i) => i \in page' \/ (cursor' # 0 /\ i > cursor')
<1> DEFINE remaining == After(f, n)
<1>1. PICK P \in SUBSET remaining :
          IsPage(P, remaining, limit) /\ page' = P /\ cursor' = NextCursor(P, remaining)
  BY DEF Page
<1>2. DOMAIN rows = 1 .. Len(rows) /\ Len(rows) \in Nat
  OBVIOUS
<1>3. \A i : i \in remaining <=> i \in DOMAIN rows /\ i > n /\ Selects(f, i)
  BY DEF After
<1> HIDE DEF remaining
<1>4. P \in SUBSET (1 .. Len(rows))
  BY <1>2, <1>3
<1>5. CASE P = remaining
  <2>1. cursor' = 0
    BY <1>1, <1>5 DEF NextCursor
  <2> QED
    BY <1>1, <1>2, <1>3, <1>5, <2>1
<1>6. CASE P # remaining
  <2>1. P # {}
    <3>1. Cardinality(P) = limit /\ limit # 0
      BY <1>1, <1>6, LimitsAssumption DEF IsPage
    <3> QED
      BY <3>1, FS_EmptySet
  <2>2. \E i \in P : \A j \in P : j <= i
    BY <1>2, <1>4, <2>1, LastOfPage
  <2>3. cursor' \in P /\ \A j \in P : j <= cursor'
    BY <1>1, <1>6, <2>2 DEF NextCursor
  <2>4. cursor' \in 1 .. Len(rows)
    BY <1>4, <2>3
  <2>5. \A i \in remaining \ P : i > cursor'
    <3>1. \A i \in remaining \ P : \A j \in P : j < i
      BY <1>1 DEF IsPage
    <3> QED
      BY <1>2, <1>3, <2>3, <2>4, <3>1
  <2> QED
    BY <1>1, <1>2, <1>3, <1>4, <2>3, <2>4, <2>5
<1> QED
  BY <1>5, <1>6

\* The counts are whole numbers, for a scan would find as many rows.
LEMMA CountsTyped == AttrInv => AttrTypeOK
<1> SUFFICES ASSUME AttrInv PROVE AttrTypeOK
  OBVIOUS
<1>1. \A b \in States \X Matches : counts[b] \in Int
  <2> SUFFICES ASSUME NEW b \in States \X Matches PROVE counts[b] \in Int
    OBVIOUS
  <2>1. counts[b] = Cardinality(Bucket(state, match, b))
    BY DEF AttrInv, SettlementCountsMatch, Bucket
  <2>2. IsFiniteSet(Bucket(state, match, b))
    BY SettlementsFinite DEF Bucket
  <2> QED
    BY <2>1, <2>2, FS_CardinalityType
<1> QED
  BY <1>1 DEF AttrInv, AttrTyping, AttrTypeOK

\* The reader starts in order.
LEMMA PageInvInit == PageInit => PageInv
<1> SUFFICES ASSUME PageInit PROVE PageInv
  OBVIOUS
<1>1. AttrInv /\ AttrTypeOK
  BY AttrInvInit, CountsTyped DEF PageInit
<1>2. PageTypeOK
  BY <1>1 DEF PageInit, AttrInit, PageTypeOK
<1> QED
  BY <1>1, <1>2 DEF PageInit, PageInv, CursorIsLast, SteadySelected, NoRowTwice, NothingSkipped

\* A first page keeps the invariant.
LEMMA FirstPageStep ==
    ASSUME PageInv, NEW f \in Filters, NEW limit \in Limits, FirstPage(f, limit)
    PROVE  PageInv'
<1>1. PageTypeOK /\ AttrInv /\ rows \in Seq(Settlements) /\ 0 \in Nat
  BY DEF PageInv, PageTypeOK
<1>2. /\ Page(f, 0, limit) /\ filter' = f /\ returned' = {} /\ UNCHANGED <<attrVars, rows>>
      /\ steady' = {i \in DOMAIN rows : Selects(f, i)}
  BY DEF FirstPage
<1>3. /\ page' \subseteq DOMAIN rows
      /\ cursor' \in 0 .. Len(rows)
      /\ cursor' # 0 => cursor' \in page' /\ \A i \in page' : i <= cursor'
      /\ \A i \in DOMAIN rows :
            0 < i /\ Selects(f, i) => i \in page' \/ (cursor' # 0 /\ i > cursor')
  BY <1>1, <1>2, PageIsPrefix
<1>4. AttrInv'
  BY <1>1, <1>2, AttrInvNext
<1>5. PageTypeOK'
  BY <1>1, <1>2, <1>3, <1>4, CountsTyped DEF PageTypeOK, attrVars, AttrTypeOK
<1>6. CursorIsLast' /\ NoRowTwice'
  BY <1>2, <1>3 DEF CursorIsLast, NoRowTwice
<1>7. SteadySelected'
  BY <1>2 DEF SteadySelected, Selects, attrVars
<1>8. NothingSkipped'
  BY <1>1, <1>2, <1>3 DEF NothingSkipped
<1> QED
  BY <1>4, <1>5, <1>6, <1>7, <1>8 DEF PageInv

\* A page after a cursor keeps the invariant.
LEMMA NextPageStep ==
    ASSUME PageInv, NEW f \in Filters, NEW limit \in Limits, NextPage(f, limit)
    PROVE  PageInv'
<1>1. /\ PageTypeOK /\ AttrInv /\ rows \in Seq(Settlements)
      /\ cursor \in 0 .. Len(rows) /\ cursor \in Nat
      /\ page \subseteq DOMAIN rows /\ returned \subseteq DOMAIN rows /\ steady \subseteq DOMAIN rows
  BY DEF PageInv, PageTypeOK
<1>2. /\ filter = f /\ cursor # 0 /\ Page(f, cursor, limit) /\ returned' = returned \cup page
      /\ UNCHANGED <<attrVars, rows, filter, steady>>
  BY DEF NextPage
<1>3. /\ page' \subseteq DOMAIN rows
      /\ \A i \in page' : cursor < i
      /\ cursor' \in 0 .. Len(rows)
      /\ cursor' # 0 => cursor' \in page' /\ \A i \in page' : i <= cursor'
      /\ \A i \in DOMAIN rows :
            cursor < i /\ Selects(f, i) => i \in page' \/ (cursor' # 0 /\ i > cursor')
  BY <1>1, <1>2, PageIsPrefix
<1>4. AttrInv'
  BY <1>1, <1>2, AttrInvNext
<1>5. PageTypeOK'
  BY <1>1, <1>2, <1>3, <1>4, CountsTyped DEF PageTypeOK, attrVars, AttrTypeOK
<1>6. \A i \in page \cup returned : i <= cursor
  BY <1>2 DEF PageInv, CursorIsLast
<1>7. NoRowTwice'
  BY <1>1, <1>2, <1>3, <1>6 DEF NoRowTwice
<1>8. CursorIsLast'
  <2> SUFFICES ASSUME cursor' # 0, NEW i \in page \cup returned PROVE i <= cursor'
    BY <1>2, <1>3 DEF CursorIsLast
  <2> QED
    BY <1>1, <1>3, <1>6
<1>9. SteadySelected'
  BY <1>2 DEF PageInv, SteadySelected, Selects, attrVars
<1>10. NothingSkipped'
  <2> SUFFICES ASSUME NEW i \in steady PROVE i \in page' \cup returned' \/ (cursor' # 0 /\ i > cursor')
    BY <1>2 DEF NothingSkipped
  <2>1. i \in page \cup returned \/ i > cursor
    BY <1>1, <1>2, FilterAssumption DEF PageInv, NothingSkipped, Filters
  <2>2. Selects(f, i)
    BY <1>2 DEF PageInv, SteadySelected
  <2> QED
    BY <1>1, <1>2, <1>3, <2>1, <2>2
<1> QED
  BY <1>4, <1>5, <1>7, <1>8, <1>9, <1>10 DEF PageInv

\* The end of a listing keeps the invariant.
LEMMA FinishStep == PageInv /\ Finish => PageInv'
<1> SUFFICES ASSUME PageInv, Finish PROVE PageInv'
  OBVIOUS
<1>1. /\ PageTypeOK /\ AttrInv
      /\ cursor = 0 /\ filter' = NoWalk /\ page' = {} /\ returned' = {} /\ steady' = {}
      /\ UNCHANGED <<attrVars, rows, cursor>>
  BY DEF Finish, PageInv
<1>2. AttrInv'
  BY <1>1, AttrInvNext
<1>3. PageTypeOK'
  BY <1>1, <1>2, CountsTyped DEF PageTypeOK, attrVars, AttrTypeOK
<1> QED
  BY <1>1, <1>2, <1>3 DEF PageInv, CursorIsLast, SteadySelected, NoRowTwice, NothingSkipped

\* A transaction leaves the rows as they are, or adds one at the end.
LEMMA WriteAppends ==
    ASSUME PageTypeOK, Write
    PROVE  /\ rows' \in Seq(Settlements)
           /\ DOMAIN rows \subseteq DOMAIN rows'
           /\ Len(rows) <= Len(rows') /\ Len(rows') \in Nat
           /\ \A x \in Settlements :
                 state'[x] # "absent" <=> \E i \in DOMAIN rows' : rows'[i] = x
           /\ \A i, j \in DOMAIN rows' : rows'[i] = rows'[j] => i = j
<1>1. rows \in Seq(Settlements) /\ state \in [Settlements -> States \cup {"absent"}]
  BY DEF PageTypeOK, AttrTypeOK
<1>2. /\ \A x \in Settlements :
            state[x] # "absent" <=> \E i \in DOMAIN rows : rows[i] = x
      /\ \A i, j \in DOMAIN rows : rows[i] = rows[j] => i = j
  BY DEF PageTypeOK
<1>3. CASE (\E s \in Sessions, t \in Tickets : Sign(s, t)) /\ UNCHANGED rows
  <2>1. state' = state /\ rows' = rows
    BY <1>3 DEF Sign
  <2> QED
    BY <1>1, <1>2, <2>1
<1>4. CASE (\E x \in Settlements : Orphan(x)) /\ UNCHANGED rows
  <2>1. PICK x \in Settlements : state[x] = "settled" /\ state' = [state EXCEPT ![x] = "orphaned"]
    BY <1>4 DEF Orphan
  <2>2. \A y \in Settlements : state'[y] # "absent" <=> state[y] # "absent"
    BY <1>1, <2>1
  <2> QED
    BY <1>1, <1>2, <1>4, <2>2
<1>5. ASSUME NEW x \in Settlements, Settle(x), rows' = Inserted(x)
      PROVE  /\ rows' \in Seq(Settlements)
             /\ DOMAIN rows \subseteq DOMAIN rows'
             /\ Len(rows) <= Len(rows') /\ Len(rows') \in Nat
             /\ \A y \in Settlements :
                   state'[y] # "absent" <=> \E i \in DOMAIN rows' : rows'[i] = y
             /\ \A i, j \in DOMAIN rows' : rows'[i] = rows'[j] => i = j
  <2>1. state' = [state EXCEPT ![x] = "settled"]
    BY <1>5 DEF Settle
  <2>2. CASE state[x] # "absent"
    <3>1. rows' = rows
      BY <1>5, <2>2 DEF Inserted
    <3>2. \A y \in Settlements : state'[y] # "absent" <=> state[y] # "absent"
      BY <1>1, <2>1, <2>2
    <3> QED
      BY <1>1, <1>2, <3>1, <3>2
  <2>3. CASE state[x] = "absent"
    <3>1. rows' = Append(rows, x)
      BY <1>5, <2>3 DEF Inserted
    <3>2. /\ rows' \in Seq(Settlements) /\ Len(rows') = Len(rows) + 1
          /\ Len(rows) \in Nat
          /\ rows'[Len(rows) + 1] = x /\ \A i \in 1 .. Len(rows) : rows'[i] = rows[i]
      BY <1>1, <3>1
    <3>3. DOMAIN rows = 1 .. Len(rows) /\ DOMAIN rows' = 1 .. (Len(rows) + 1)
      BY <1>1, <3>2
    <3>4. \A i \in DOMAIN rows : rows[i] # x
      BY <1>2, <2>3
    <3>5. \A y \in Settlements : state'[y] # "absent" <=> y = x \/ state[y] # "absent"
      BY <1>1, <2>1
    <3>6. \A y \in Settlements :
              (\E i \in DOMAIN rows' : rows'[i] = y) <=> y = x \/ \E i \in DOMAIN rows : rows[i] = y
      BY <3>2, <3>3
    <3>7. \A i, j \in DOMAIN rows' : rows'[i] = rows'[j] => i = j
      BY <1>2, <3>2, <3>3, <3>4
    <3> QED
      BY <1>2, <3>2, <3>3, <3>5, <3>6, <3>7
  <2> QED
    BY <2>2, <2>3
<1> QED
  BY <1>3, <1>4, <1>5 DEF Write

\* A write between two pages is a step of the attribution.
LEMMA WriteAttributes == Write => AttrNext
BY DEF Write, AttrNext

\* A write between two pages keeps the invariant.
LEMMA WriteStep == PageInv /\ Write => PageInv'
<1> SUFFICES ASSUME PageInv, Write PROVE PageInv'
  OBVIOUS
<1>1. PageTypeOK /\ AttrInv
  BY DEF PageInv
<1>2. UNCHANGED walkVars /\ steady' = {i \in steady : Selects(filter, i)'}
  BY DEF Write
<1>3. AttrInv' /\ AttrTypeOK'
  <2>1. AttrInv'
    BY <1>1, WriteAttributes, AttrInvNext
  <2>2. AttrInv' => AttrTypeOK'
    BY CountsTyped, PTL
  <2> QED
    BY <2>1, <2>2
<1>4. /\ rows' \in Seq(Settlements)
      /\ DOMAIN rows \subseteq DOMAIN rows'
      /\ Len(rows) <= Len(rows') /\ Len(rows') \in Nat
      /\ \A x \in Settlements :
            state'[x] # "absent" <=> \E i \in DOMAIN rows' : rows'[i] = x
      /\ \A i, j \in DOMAIN rows' : rows'[i] = rows'[j] => i = j
  BY <1>1, WriteAppends
<1>5. /\ rows \in Seq(Settlements) /\ cursor \in 0 .. Len(rows) /\ Len(rows) \in Nat
      /\ page \subseteq DOMAIN rows /\ returned \subseteq DOMAIN rows /\ steady \subseteq DOMAIN rows
      /\ filter \in Filters \cup {NoWalk}
  BY <1>1 DEF PageTypeOK
<1>6. /\ cursor' \in 0 .. Len(rows')
      /\ page' \subseteq DOMAIN rows' /\ returned' \subseteq DOMAIN rows' /\ steady' \subseteq DOMAIN rows'
      /\ filter' \in Filters \cup {NoWalk}
  BY <1>2, <1>4, <1>5 DEF walkVars
<1>7. PageTypeOK'
  BY <1>3, <1>4, <1>6 DEF PageTypeOK
<1>8. CursorIsLast' /\ NoRowTwice' /\ NothingSkipped'
  BY <1>2 DEF walkVars, PageInv, CursorIsLast, NoRowTwice, NothingSkipped
<1>9. SteadySelected'
  BY <1>2 DEF walkVars, SteadySelected, Selects
<1> QED
  BY <1>3, <1>7, <1>8, <1>9 DEF PageInv

\* Every step keeps the reader's invariant.
LEMMA PageInvNext == PageInv /\ [PageNext]_pageVars => PageInv'
<1> SUFFICES ASSUME PageInv, [PageNext]_pageVars PROVE PageInv'
  OBVIOUS
<1>1. CASE Write
  BY <1>1, WriteStep
<1>2. CASE \E f \in Filters, limit \in Limits : FirstPage(f, limit)
  BY <1>2, FirstPageStep
<1>3. CASE \E f \in Filters, limit \in Limits : NextPage(f, limit)
  BY <1>3, NextPageStep
<1>4. CASE Finish
  BY <1>4, FinishStep
<1>5. CASE UNCHANGED pageVars
  BY <1>5 DEF pageVars, attrVars, walkVars, PageInv, AttrInv, AttrTyping, AttributionIsCurrent,
              SettlementCountsMatch, PageTypeOK, AttrTypeOK, CursorIsLast, SteadySelected, Selects,
              NoRowTwice, NothingSkipped
<1> QED
  BY <1>1, <1>2, <1>3, <1>4, <1>5 DEF PageNext

\* Every step of the composition is one of the attribution's, or leaves it alone.
LEMMA PageStepAttributes == [PageNext]_pageVars => [AttrNext]_attrVars
BY WriteAttributes DEF PageNext, pageVars, FirstPage, NextPage, Finish

-----------------------------------------------------------------------------
\* A client that pages beside them takes nothing from attribution and adds nothing.
THEOREM PaginationKeepsAttribution == PageSpec => AttrSpec
<1>1. PageInit => AttrInit
  BY DEF PageInit
<1> QED
  BY <1>1, PageStepAttributes, PTL DEF PageSpec, AttrSpec

\* Everything below holds in every state of the composition, whatever the interleaving
\* of ingestion, the chain listener and the client.
THEOREM PageInvariant == PageSpec => []PageInv
BY PageInvInit, PageInvNext, PTL DEF PageSpec

\* Rows and settlements are one to one, and every variable has its type.
THEOREM PagesTyped == PageSpec => []PageTypeOK
<1>1. PageInv => PageTypeOK
  BY DEF PageInv
<1> QED
  BY <1>1, PageInvariant, PTL

\* Attribution does not depend on the order in which tickets, redemptions and reorgs
\* arrive.
THEOREM AttributionAlwaysCurrent == PageSpec => []AttributionIsCurrent
<1>1. PageInv => AttributionIsCurrent
  BY DEF PageInv, AttrInv
<1> QED
  BY <1>1, PageInvariant, PTL

\* The counts a scrape reads are those of a scan.
THEOREM CountsAlwaysMatch == PageSpec => []SettlementCountsMatch
<1>1. PageInv => SettlementCountsMatch
  BY DEF PageInv, AttrInv
<1> QED
  BY <1>1, PageInvariant, PTL

\* A walk never repeats a row.
THEOREM WalksNeverRepeat == PageSpec => []NoRowTwice
<1>1. PageInv => NoRowTwice
  BY DEF PageInv
<1> QED
  BY <1>1, PageInvariant, PTL

\* A walk never skips a row that matched its filter all along.
THEOREM WalksNeverSkip == PageSpec => []NothingSkipped
<1>1. PageInv => NothingSkipped
  BY DEF PageInv
<1> QED
  BY <1>1, PageInvariant, PTL

\* Once two sessions have signed for a pair, its settlements are ambiguous for good.
THEOREM AmbiguousForGood == PageSpec => AmbiguityIsFinal
<1>1. PageInv /\ [PageNext]_pageVars => [AmbiguityStays]_attrVars
  BY PageStepAttributes, AmbiguityStep DEF PageInv
<1>2. PageSpec => [][AmbiguityStays]_attrVars
  BY <1>1, PageInvariant, PTL DEF PageSpec
<1> QED
  BY <1>2 DEF AmbiguityIsFinal, AmbiguityStays

-----------------------------------------------------------------------------
(***************************************************************************)
(* Processes and migrations                                                *)
(***************************************************************************)
SupervisorTyping ==
    /\ pc \in [Processes -> {"down", "migrate", "lock", "start", "serve", "drain", "return"}]
    /\ locks = [p \in Processes |-> locks[p]]
    /\ alive = [p \in Processes |-> alive[p]]
    /\ done \in [Processes -> Seq(Outcomes)]
    /\ canceled \in [Processes -> BOOLEAN]
    /\ stopped \in [Processes -> BOOLEAN]
    /\ result = [p \in Processes |-> result[p]]
    /\ run = [p \in Processes |-> run[p]]
    /\ mig \in [Processes -> {"begin", "apply", "refused", "broken"}]
    /\ plan = [p \in Processes |-> plan[p]]

\* A process has all its locks while it may run components, and no lock is held twice.
LocksHeld ==
    /\ \A p, q \in Processes : p # q => locks[p] \cap locks[q] = {}
    /\ \A p \in Processes : pc[p] \in {"start", "serve", "drain"} => locks[p] = Needed(p)
    /\ \A p \in Processes :
          alive[p] \subseteq Config[p] /\ (alive[p] # {} => pc[p] \in {"serve", "drain"})

\* From the moment a process that does the accounting discards the evidence, it alone
\* writes it.
EvidenceGuarded ==
    \A p \in Processes :
        Accounting(p) /\ pc[p] \in {"start", "serve", "drain"} => evidence \in {0, run[p]}

\* The schema is that of the first migrations.
HistoryIsPrefix ==
    /\ schema = applied
    /\ release \in Nat
    /\ \E n \in Nat : applied = 1 .. n

\* What a process has not planned is applied; once it has migrated, everything is.
PlansCoverGaps ==
    /\ \A p \in Processes : mig[p] # "broken"
    /\ \A p \in Processes : pc[p] = "down" => mig[p] = "begin" /\ plan[p] = {}
    /\ \A p \in Processes : mig[p] = "apply" =>
          plan[p] \subseteq catalog /\ applied \subseteq catalog /\ catalog \ plan[p] \subseteq applied
    /\ \A p \in Processes : pc[p] \notin {"down", "migrate"} => mig[p] = "apply" /\ plan[p] = {}

\* A component ends by itself only with an error, and nothing but the operator or the
\* end of a component cancels the others.
ErrorsOf(p) ==
    /\ pc[p] = "down" => done[p] = <<>>
    /\ ~canceled[p] => \A i \in DOMAIN done[p] : done[p][i] = "failed"
    /\ canceled[p] /\ ~stopped[p] => pc[p] \notin {"migrate", "lock", "start", "serve"}
    /\ pc[p] = "drain" /\ ~stopped[p] => result[p] = "failed"

ErrorsAreOwn == \A p \in Processes : ErrorsOf(p)

SupervisorInv ==
    SupervisorTyping /\ LocksHeld /\ EvidenceGuarded /\ HistoryIsPrefix /\ PlansCoverGaps /\ ErrorsAreOwn

-----------------------------------------------------------------------------
\* Before any process starts everything is in order.
LEMMA SupervisorInvInit == SupervisorInit => SupervisorInv
<1> SUFFICES ASSUME SupervisorInit PROVE SupervisorInv
  OBVIOUS
<1> USE DEF SupervisorInit, MigrationsInit
<1>1. SupervisorTyping
  <2>1. <<>> \in Seq(Outcomes)
    OBVIOUS
  <2> QED
    BY <2>1 DEF SupervisorTyping
<1>2. LocksHeld /\ EvidenceGuarded
  BY DEF LocksHeld, EvidenceGuarded
<1>4. PlansCoverGaps
  BY DEF PlansCoverGaps
<1>5. ErrorsAreOwn
  BY DEF ErrorsAreOwn, ErrorsOf
<1>3. HistoryIsPrefix
  <2>1. applied = 1 .. 0
    OBVIOUS
  <2> QED
    BY <2>1, ReleasesAssumption DEF HistoryIsPrefix
<1> QED
  BY <1>1, <1>2, <1>3, <1>4, <1>5 DEF SupervisorInv

\* The steps of one process.
ProcessStep(p) ==
    \/ Main(p) \/ StartupFails(p)
    \/ \E c \in Components, outcome \in Outcomes : End(p, c, outcome)
    \/ Observe(p)
    \/ Start(p) \/ Stop(p) \/ Kill(p)

\* Whatever ends a process, and the lock it does not get, ends it in the same way.
Leaves(p) == \E with : Exit(p, with)

\* Every way a process has of ending is an exit.
LEMMA EveryExit ==
    ASSUME NEW p \in Processes, Refuse(p) \/ Gone(p) \/ StartupFails(p) \/ Kill(p)
    PROVE  Leaves(p)
BY DEF Refuse, Gone, StartupFails, Kill, Leaves

\* Taking the next lock.
Takes(p) ==
    /\ pc[p] = "lock" /\ Needed(p) # locks[p]
    /\ Wanted(p) \notin Held
    /\ locks' = [locks EXCEPT ![p] = @ \cup {Wanted(p)}]
    /\ UNCHANGED <<migrationVars, pc, alive, done, canceled, result, stopped, run, evidence, starts>>

\* A process that tries a lock takes it or exits.
LEMMA LockTakesOrLeaves ==
    ASSUME NEW p \in Processes, Lock(p)
    PROVE  Takes(p) \/ Leaves(p)
BY DEF Lock, Takes, Leaves

-----------------------------------------------------------------------------
(***************************************************************************)
(* Types                                                                   *)
(***************************************************************************)
LEMMA TypingStep ==
    ASSUME SupervisorTyping, NEW p \in Processes, ProcessStep(p)
    PROVE  SupervisorTyping'
<1>1. ASSUME Leaves(p) PROVE SupervisorTyping'
  <2>1. PICK with : Exit(p, with)
    BY <1>1 DEF Leaves
  <2>2. <<>> \in Seq(Outcomes)
    OBVIOUS
  <2>3. pc' \in [Processes -> {"down", "migrate", "lock", "start", "serve", "drain", "return"}]
    BY <2>1 DEF Exit, SupervisorTyping
  <2>4. mig' \in [Processes -> {"begin", "apply", "refused", "broken"}] /\ done' \in [Processes -> Seq(Outcomes)]
    BY <2>1, <2>2 DEF Exit, SupervisorTyping
  <2>5. /\ locks' = [q \in Processes |-> locks'[q]] /\ alive' = [q \in Processes |-> alive'[q]]
        /\ result' = [q \in Processes |-> result'[q]] /\ plan' = [q \in Processes |-> plan'[q]]
    BY <2>1 DEF Exit, SupervisorTyping
  <2>6. UNCHANGED <<canceled, stopped, run>>
    BY <2>1 DEF Exit
  <2> QED
    BY <2>3, <2>4, <2>5, <2>6 DEF SupervisorTyping
<1>2. CASE Refuse(p) \/ Gone(p) \/ StartupFails(p) \/ Kill(p)
  BY <1>1, <1>2, EveryExit
<1> USE DEF SupervisorTyping, processVars, migrationVars, At
<1>3. CASE Migrate(p)
  BY <1>3 DEF Migrate, Up, List, Apply
<1>4. CASE Open(p) \/ Discard(p) \/ Launch(p)
  BY <1>4 DEF Open, Discard, Launch
<1>5. CASE Takes(p)
  BY <1>5 DEF Takes
<1>6. CASE SelectStopped(p) \/ Return(p)
  BY <1>6 DEF SelectStopped, Return
<1>7. CASE SelectDone(p) \/ Drain(p)
  <2>1. done[p] # <<>> => Tail(done[p]) \in Seq(Outcomes)
    OBVIOUS
  <2> QED
    BY <1>7, <2>1 DEF SelectDone, Drain
<1>8. CASE Observe(p) \/ Start(p) \/ Stop(p)
  BY <1>8 DEF Observe, Start, Stop
<1>9. ASSUME NEW c \in Components, NEW outcome \in Outcomes, End(p, c, outcome) PROVE SupervisorTyping'
  <2>1. Append(done[p], outcome) \in Seq(Outcomes)
    OBVIOUS
  <2> QED
    BY <1>9, <2>1 DEF End
<1> QED
  BY <1>1, <1>2, <1>3, <1>4, <1>5, <1>6, <1>7, <1>8, <1>9, LockTakesOrLeaves DEF ProcessStep, Main

-----------------------------------------------------------------------------
(***************************************************************************)
(* Locks                                                                   *)
(***************************************************************************)
LEMMA LocksStep ==
    ASSUME SupervisorTyping, LocksHeld, NEW p \in Processes, ProcessStep(p)
    PROVE  LocksHeld'
<1> USE DEF SupervisorTyping, LocksHeld, processVars, migrationVars, At, Needed
<1>1. ASSUME Leaves(p) PROVE LocksHeld'
  BY <1>1 DEF Leaves, Exit
<1>2. CASE Refuse(p) \/ Gone(p) \/ StartupFails(p) \/ Kill(p)
  BY <1>1, <1>2, EveryExit
<1>3. CASE Migrate(p) \/ Observe(p)
  BY <1>3 DEF Migrate, Observe
<1>4. CASE Takes(p)
  <2>1. \A q \in Processes : Wanted(p) \notin locks[q]
    BY <1>4 DEF Takes, Held
  <2>2. \A q \in Processes : locks'[q] = IF q = p THEN locks[p] \cup {Wanted(p)} ELSE locks[q]
    BY <1>4 DEF Takes
  <2> QED
    BY <1>4, <2>1, <2>2 DEF Takes
<1>5. CASE Open(p) \/ Start(p)
  BY <1>5 DEF Open, Start
<1>6. CASE Discard(p)
  BY <1>6 DEF Discard
<1>7. CASE Launch(p)
  BY <1>7 DEF Launch
<1>8. CASE SelectStopped(p) \/ SelectDone(p) \/ Drain(p) \/ Stop(p)
  BY <1>8 DEF SelectStopped, SelectDone, Drain, Stop
<1>9. CASE Return(p)
  BY <1>9 DEF Return, Drained
<1>10. ASSUME NEW c \in Components, NEW outcome \in Outcomes, End(p, c, outcome) PROVE LocksHeld'
  BY <1>10 DEF End
<1> QED
  BY <1>1, <1>2, <1>3, <1>4, <1>5, <1>6, <1>7, <1>8, <1>9, <1>10, LockTakesOrLeaves DEF ProcessStep, Main

\* The monitor of another process does not run while this one has the accounting lock.
LEMMA MonitorsApart ==
    ASSUME LocksHeld, NEW p \in Processes, NEW q \in Processes, Lag \in alive[q],
           Accounting(p), pc[p] \in {"start", "serve", "drain"}
    PROVE  p = q
<1>1. Lag \in Config[q] /\ Lag \in Components
  BY DEF LocksHeld, Components
<1>2. LockOf[Lag] # NoLock
  BY <1>1, LockAssumption
<1>3. pc[q] \in {"serve", "drain"}
  BY DEF LocksHeld
<1>4. LockOf[Lag] \in Needed(q) /\ LockOf[Lag] \in Needed(p)
  BY <1>1, <1>2 DEF Needed, Accounting
<1>5. locks[p] = Needed(p) /\ locks[q] = Needed(q)
  BY <1>3 DEF LocksHeld
<1> QED
  BY <1>4, <1>5 DEF LocksHeld

\* Every step of a process keeps the evidence with whoever holds its lock.
LEMMA EvidenceStep ==
    ASSUME SupervisorTyping, LocksHeld, EvidenceGuarded, NEW p \in Processes, ProcessStep(p)
    PROVE  EvidenceGuarded'
<1> USE DEF SupervisorTyping, EvidenceGuarded, processVars, migrationVars, At, Accounting
<1>1. ASSUME Leaves(p) PROVE EvidenceGuarded'
  BY <1>1 DEF Leaves, Exit
<1>2. CASE Refuse(p) \/ Gone(p) \/ StartupFails(p) \/ Kill(p)
  BY <1>1, <1>2, EveryExit
<1>3. CASE Observe(p)
  <2> SUFFICES ASSUME NEW q \in Processes, Accounting(q), pc[q] \in {"start", "serve", "drain"}
               PROVE  evidence' \in {0, run[q]}
    BY <1>3 DEF Observe
  <2>1. q = p
    BY <1>3, MonitorsApart DEF Observe
  <2> QED
    BY <1>3, <2>1 DEF Observe
<1>4. CASE Takes(p) \/ Migrate(p)
  BY <1>4 DEF Takes, Migrate
<1>5. CASE Open(p) \/ Start(p)
  BY <1>5 DEF Open, Start
<1>6. CASE Discard(p)
  <2>1. evidence' = 0 \/ (evidence' = evidence /\ ~Accounting(p))
    BY <1>6 DEF Discard
  <2>2. run' = run /\ \A q \in Processes : q # p => pc'[q] = pc[q]
    BY <1>6 DEF Discard
  <2> QED
    BY <2>1, <2>2
<1>7. CASE Launch(p)
  BY <1>7 DEF Launch
<1>8. CASE SelectStopped(p) \/ SelectDone(p) \/ Drain(p) \/ Stop(p) \/ Return(p)
  BY <1>8 DEF SelectStopped, SelectDone, Drain, Stop, Return
<1>9. ASSUME NEW c \in Components, NEW outcome \in Outcomes, End(p, c, outcome) PROVE EvidenceGuarded'
  BY <1>9 DEF End
<1> QED
  BY <1>1, <1>2, <1>3, <1>4, <1>5, <1>6, <1>7, <1>8, <1>9, LockTakesOrLeaves DEF ProcessStep, Main

-----------------------------------------------------------------------------
(***************************************************************************)
(* Migrations                                                              *)
(***************************************************************************)
LEMMA LeastPlanned ==
    ASSUME NEW n \in Nat, NEW S \in SUBSET (1 .. n), S # {}
    PROVE  Lowest(S) \in S /\ \A m \in S : Lowest(S) <= m
<1> DEFINE upTo(i) == {j \in S : j <= i}
           T == {upTo(i) : i \in S}
<1>1. IsFiniteSet(S)
  <2>1. IsFiniteSet(1 .. n)
    BY FS_Interval
  <2> QED
    BY <2>1, FS_Subset
<1>2. T \subseteq FiniteSubsetsOf(S) /\ T # {}
  <2>1. T \subseteq SUBSET S /\ T # {}
    OBVIOUS
  <2> QED
    BY <1>1, <2>1, FS_FiniteSubsetsOfFinite
<1> HIDE DEF T
<1>3. PICK U \in T : \A V \in T : <<V, U>> \notin StrictSubsetOrdering(S)
  BY <1>2, FS_StrictSubsetOrderingWellFounded, WFMin
<1>4. PICK i \in S : U = upTo(i)
  BY DEF T
<1>5. ASSUME NEW j \in S, ~(i <= j) PROVE FALSE
  <2>1. upTo(j) \in T /\ upTo(j) \subseteq S /\ upTo(i) \subseteq S
    BY DEF T
  <2>2. i \in Int /\ j \in Int /\ j < i /\ \A k \in S : k \in Int
    BY <1>5
  <2>3. \A k \in S : k <= j => k <= i
    BY <2>2
  <2>4. \A k : k \in upTo(j) => k \in upTo(i)
    BY <2>3
  <2>5. i \in upTo(i) /\ i \notin upTo(j)
    BY <1>5, <2>2
  <2>6. <<upTo(j), upTo(i)>> \in StrictSubsetOrdering(S)
    BY <2>1, <2>4, <2>5 DEF StrictSubsetOrdering
  <2> QED
    BY <1>3, <1>4, <2>1, <2>6
<1>6. \E k \in S : \A m \in S : k <= m
  BY <1>5
<1> QED
  BY <1>6 DEF Lowest

\* The next migration of a plan is applied already, or it is the one the schema waits for.
LEMMA NextIsDue ==
    ASSUME HistoryIsPrefix, PlansCoverGaps, NEW p \in Processes, mig[p] = "apply", plan[p] # {},
           ~Present(Lowest(plan[p]))
    PROVE  LET n == Lowest(plan[p])
           IN  /\ n \in catalog /\ Runs(n)
               /\ \E k \in Nat : applied \cup {n} = 1 .. k
<1> DEFINE n == Lowest(plan[p])
<1>1. /\ plan[p] \subseteq catalog /\ catalog \ plan[p] \subseteq applied
      /\ schema = applied /\ release \in Nat /\ catalog = 1 .. release
  BY DEF PlansCoverGaps, HistoryIsPrefix, catalog
<1>2. n \in plan[p] /\ \A m \in plan[p] : n <= m
  BY <1>1, LeastPlanned
<1>3. n \notin applied
  BY DEF Present
<1> HIDE DEF n
<1>4. n \in 1 .. release
  BY <1>1, <1>2
<1>5. \A m \in 1 .. n - 1 : m \in applied
  <2> SUFFICES ASSUME NEW m \in 1 .. n - 1 PROVE m \in applied
    OBVIOUS
  <2>1. m \in 1 .. release /\ ~(n <= m)
    BY <1>1, <1>4
  <2> QED
    BY <1>1, <1>2, <2>1
<1>6. PICK k \in Nat : applied = 1 .. k
  BY DEF HistoryIsPrefix
<1>7. n = k + 1
  <2>1. k < n
    BY <1>3, <1>4, <1>6
  <2>2. ~(k + 1 <= n - 1)
    <3>1. SUFFICES ASSUME k + 1 <= n - 1 PROVE FALSE
      OBVIOUS
    <3>2. k + 1 \in 1 .. n - 1
      BY <1>4, <3>1
    <3> QED
      BY <1>5, <1>6, <3>2
  <2> QED
    BY <1>4, <2>1, <2>2
<1>8. applied \cup {n} = 1 .. (k + 1)
  BY <1>6, <1>7
<1> QED
  BY <1>1, <1>3, <1>4, <1>5, <1>8 DEF Runs, n

\* A migration applied extends the history by the next one.
LEMMA ApplyStep ==
    ASSUME SupervisorTyping, HistoryIsPrefix, PlansCoverGaps, NEW p \in Processes,
           pc[p] = "migrate", Apply(p), UNCHANGED pc
    PROVE  HistoryIsPrefix' /\ PlansCoverGaps'
<1> DEFINE n == Lowest(plan[p])
<1>1. /\ mig[p] = "apply" /\ plan[p] # {} /\ plan' = [plan EXCEPT ![p] = @ \ {n}]
      /\ release' = release
  BY DEF Apply
<1>2. CASE Present(n)
  <2>1. UNCHANGED <<applied, schema, mig>> /\ n \in applied
    BY <1>2 DEF Apply, Present
  <2> HIDE DEF n
  <2>2. HistoryIsPrefix'
    BY <1>1, <2>1 DEF HistoryIsPrefix
  <2>3. \A q \in Processes : plan'[q] = IF q = p THEN plan[p] \ {n} ELSE plan[q]
    BY <1>1 DEF SupervisorTyping
  <2> QED
    BY <1>1, <2>1, <2>2, <2>3 DEF PlansCoverGaps, catalog
<1>3. CASE ~Present(n)
  <2>1. n \in catalog /\ Runs(n) /\ \E k \in Nat : applied \cup {n} = 1 .. k
    BY <1>1, <1>3, NextIsDue
  <2>2. applied' = applied \cup {n} /\ schema' = schema \cup {n} /\ mig' = mig
    BY <1>3, <2>1 DEF Apply
  <2> HIDE DEF n
  <2>3. HistoryIsPrefix'
    BY <1>1, <2>1, <2>2 DEF HistoryIsPrefix
  <2>4. \A q \in Processes : plan'[q] = IF q = p THEN plan[p] \ {n} ELSE plan[q]
    BY <1>1 DEF SupervisorTyping
  <2> QED
    BY <1>1, <2>1, <2>2, <2>3, <2>4 DEF PlansCoverGaps, catalog
<1> QED
  BY <1>2, <1>3

\* Listing what is applied plans exactly what is missing.
LEMMA ListStep ==
    ASSUME SupervisorTyping, HistoryIsPrefix, PlansCoverGaps, NEW p \in Processes,
           pc[p] = "migrate", List(p), UNCHANGED pc
    PROVE  HistoryIsPrefix' /\ PlansCoverGaps'
<1>1. UNCHANGED <<applied, schema, release>> /\ catalog' = catalog /\ mig[p] = "begin"
  BY DEF List, catalog
<1>2. HistoryIsPrefix'
  BY <1>1 DEF HistoryIsPrefix
<1>3. CASE Foreign
  <2>1. mig' = [mig EXCEPT ![p] = "refused"] /\ plan' = plan
    BY <1>3 DEF List
  <2>2. PlansCoverGaps'
    BY <1>1, <2>1 DEF PlansCoverGaps, SupervisorTyping
  <2> QED
    BY <1>2, <2>2
<1>4. CASE ~Foreign
  <2>1. applied \subseteq catalog
    BY <1>4 DEF Foreign
  <2>2. mig' = [mig EXCEPT ![p] = "apply"] /\ plan' = [plan EXCEPT ![p] = catalog \ applied]
    BY <1>4 DEF List
  <2> QED
    BY <1>1, <1>2, <2>1, <2>2 DEF PlansCoverGaps, SupervisorTyping
<1> QED
  BY <1>3, <1>4

\* Every step of a process keeps the history a prefix, and the plans its gaps.
LEMMA MigrationStep ==
    ASSUME SupervisorTyping, HistoryIsPrefix, PlansCoverGaps, NEW p \in Processes, ProcessStep(p)
    PROVE  HistoryIsPrefix' /\ PlansCoverGaps'
<1>1. CASE Migrate(p)
  BY <1>1, ListStep, ApplyStep DEF Migrate, Up, processVars
<1> USE DEF SupervisorTyping, HistoryIsPrefix, PlansCoverGaps, catalog, processVars, migrationVars, At
<1>2. ASSUME Leaves(p) PROVE HistoryIsPrefix' /\ PlansCoverGaps'
  <2>1. UNCHANGED <<applied, schema, release>>
    BY <1>2 DEF Leaves, Exit
  <2>2. pc'[p] = "down" /\ mig'[p] = "begin" /\ plan'[p] = {}
    BY <1>2 DEF Leaves, Exit
  <2>3. \A q \in Processes : q # p => pc'[q] = pc[q] /\ mig'[q] = mig[q] /\ plan'[q] = plan[q]
    BY <1>2 DEF Leaves, Exit
  <2>4. HistoryIsPrefix'
    BY <2>1
  <2>5. PlansCoverGaps'
    BY <2>1, <2>2, <2>3
  <2> QED
    BY <2>4, <2>5
<1>3. CASE Refuse(p) \/ Gone(p) \/ StartupFails(p) \/ Kill(p)
  BY <1>2, <1>3, EveryExit
<1>4. CASE Open(p)
  BY <1>4 DEF Open, Migrated
<1>5. CASE Takes(p) \/ Observe(p)
  BY <1>5 DEF Takes, Observe
<1>6. CASE Discard(p) \/ Launch(p) \/ Start(p) \/ Stop(p)
  BY <1>6 DEF Discard, Launch, Start, Stop
<1>7. CASE SelectStopped(p) \/ SelectDone(p) \/ Drain(p) \/ Return(p)
  BY <1>7 DEF SelectStopped, SelectDone, Drain, Return
<1>8. ASSUME NEW c \in Components, NEW outcome \in Outcomes, End(p, c, outcome)
      PROVE  HistoryIsPrefix' /\ PlansCoverGaps'
  BY <1>8 DEF End
<1> QED
  BY <1>1, <1>2, <1>3, <1>4, <1>5, <1>6, <1>7, <1>8, LockTakesOrLeaves DEF ProcessStep, Main

\* While every process is down, the operator may do as the instructions say.
LEMMA MaintainStep ==
    ASSUME SupervisorInv, Maintain
    PROVE  SupervisorInv'
<1>1. /\ \A p \in Processes : pc[p] = "down"
      /\ UNCHANGED <<processVars, evidence, starts, mig, plan>>
      /\ SupervisorTyping /\ LocksHeld /\ EvidenceGuarded /\ HistoryIsPrefix /\ PlansCoverGaps /\ ErrorsAreOwn
  BY DEF Maintain, Down, Install, SupervisorInv
<1>2. SupervisorTyping' /\ LocksHeld' /\ EvidenceGuarded' /\ ErrorsAreOwn'
  BY <1>1 DEF processVars, SupervisorTyping, LocksHeld, Needed, EvidenceGuarded, ErrorsAreOwn, ErrorsOf
<1>3. PlansCoverGaps'
  BY <1>1 DEF processVars, PlansCoverGaps
<1>4. HistoryIsPrefix'
  <2>1. CASE Down
    <3>1. PICK k \in Nat : applied = 1 .. k
      BY <1>1 DEF HistoryIsPrefix
    <3>2. k \in applied /\ \A m \in applied : m <= k
      BY <2>1, <3>1 DEF Down
    <3>3. \A n \in applied : (\A m \in applied : m <= n) => n = k
      BY <3>1, <3>2
    <3>4. applied' = applied \ {k} /\ schema' = schema \ {k} /\ release' = release
      <4>1. (CHOOSE n \in applied : \A m \in applied : m <= n) = k
        BY <3>2, <3>3
      <4> QED
        BY <2>1, <4>1 DEF Down
    <3>5. applied' = 1 .. (k - 1) /\ k - 1 \in Nat
      BY <3>1, <3>2, <3>4
    <3> QED
      BY <1>1, <3>4, <3>5 DEF HistoryIsPrefix
  <2>2. CASE \E r \in Releases : Install(r)
    BY <1>1, <2>2, ReleasesAssumption DEF Install, HistoryIsPrefix
  <2> QED
    BY <2>1, <2>2 DEF Maintain
<1> QED
  BY <1>2, <1>3, <1>4 DEF SupervisorInv

-----------------------------------------------------------------------------
(***************************************************************************)
(* Errors                                                                  *)
(***************************************************************************)
LEMMA ErrorsStep ==
    ASSUME SupervisorTyping, LocksHeld, ErrorsAreOwn, NEW p \in Processes, ProcessStep(p)
    PROVE  ErrorsAreOwn'
<1> USE DEF ErrorsOf
<1> SUFFICES ASSUME NEW q \in Processes PROVE ErrorsOf(q)'
  BY DEF ErrorsAreOwn
<1>0. ErrorsOf(q)
  BY DEF ErrorsAreOwn
<1> USE DEF SupervisorTyping, processVars, migrationVars, At
<1>1. ASSUME Leaves(p) PROVE ErrorsOf(q)'
  <2>1. pc'[p] = "down" /\ done'[p] = <<>> /\ UNCHANGED <<canceled, stopped>>
    BY <1>1 DEF Leaves, Exit
  <2>2. q # p => pc'[q] = pc[q] /\ done'[q] = done[q] /\ result'[q] = result[q]
    BY <1>1 DEF Leaves, Exit
  <2> QED
    BY <1>0, <2>1, <2>2
<1>2. CASE Refuse(p) \/ Gone(p) \/ StartupFails(p) \/ Kill(p)
  BY <1>1, <1>2, EveryExit
<1>3. CASE Migrate(p) \/ Observe(p) \/ Takes(p)
  BY <1>0, <1>3 DEF Migrate, Observe, Takes
<1>4. CASE Open(p) \/ Discard(p) \/ Launch(p)
  BY <1>0, <1>4 DEF Open, Discard, Launch
<1>5. CASE Stop(p)
  BY <1>0, <1>5 DEF Stop
<1>6. CASE SelectStopped(p) \/ Return(p)
  BY <1>0, <1>6 DEF SelectStopped, Return
<1>7. CASE SelectDone(p)
  <2>1. /\ pc[p] = "serve" /\ pc'[p] = "drain" /\ canceled'[p] /\ stopped' = stopped
        /\ done[p] # <<>> /\ result'[p] = Head(done[p])
    BY <1>7 DEF SelectDone
  <2>2. q # p =>
            pc'[q] = pc[q] /\ done'[q] = done[q] /\ canceled'[q] = canceled[q] /\ result'[q] = result[q]
    BY <1>7 DEF SelectDone
  <2>3. q = p /\ ~stopped[p] => Head(done[p]) = "failed"
    BY <1>0, <2>1
  <2>4. CASE q = p
    BY <2>1, <2>3, <2>4
  <2>5. CASE q # p
    BY <1>0, <2>1, <2>2, <2>5
  <2> QED
    BY <2>4, <2>5
<1>8. CASE Drain(p)
  <2>1. /\ pc[p] = "drain" /\ done[p] # <<>> /\ UNCHANGED <<pc, canceled, stopped>>
        /\ result'[p] = Kept(result[p], Head(done[p])) /\ done'[p] = Tail(done[p])
    BY <1>8 DEF Drain
  <2>2. q # p => done'[q] = done[q] /\ result'[q] = result[q]
    BY <1>8 DEF Drain
  <2>3. result[p] = "failed" => result'[p] = "failed"
    BY <2>1 DEF Kept
  <2>4. \A i \in DOMAIN Tail(done[p]) : i + 1 \in DOMAIN done[p] /\ Tail(done[p])[i] = done[p][i + 1]
    BY <2>1
  <2>5. CASE q = p
    <3>1. ~canceled[p] => \A i \in DOMAIN done'[p] : done'[p][i] = "failed"
      BY <1>0, <2>1, <2>4, <2>5
    <3> QED
      BY <1>0, <2>1, <2>3, <2>5, <3>1
  <2>6. CASE q # p
    BY <1>0, <2>1, <2>2, <2>6
  <2> QED
    BY <2>5, <2>6
<1>9. CASE Start(p)
  BY <1>0, <1>9 DEF Start
<1>10. ASSUME NEW c \in Components, NEW outcome \in Outcomes, End(p, c, outcome) PROVE ErrorsOf(q)'
  <2>1. /\ done'[p] = Append(done[p], outcome) /\ UNCHANGED <<pc, canceled, stopped, result>>
        /\ outcome = "failed" \/ canceled[p]
    BY <1>10 DEF End
  <2>2. q # p => done'[q] = done[q]
    BY <1>10 DEF End
  <2>3. \A i \in DOMAIN Append(done[p], outcome) :
            \/ Append(done[p], outcome)[i] = outcome
            \/ i \in DOMAIN done[p] /\ Append(done[p], outcome)[i] = done[p][i]
    OBVIOUS
  <2>4. pc[p] # "down"
    BY <1>10 DEF End, LocksHeld
  <2>5. CASE q = p
    <3>1. ~canceled[p] => \A i \in DOMAIN done'[p] : done'[p][i] = "failed"
      BY <1>0, <2>1, <2>3, <2>5
    <3> QED
      BY <1>0, <2>1, <2>4, <2>5, <3>1
  <2>6. CASE q # p
    BY <1>0, <2>1, <2>2, <2>6
  <2> QED
    BY <2>5, <2>6
<1> QED
  BY <1>1, <1>2, <1>3, <1>4, <1>5, <1>6, <1>7, <1>8, <1>9, <1>10, LockTakesOrLeaves DEF ProcessStep, Main

-----------------------------------------------------------------------------
\* Every step keeps the supervisor's invariant.
LEMMA SupervisorInvNext == SupervisorInv /\ [SupervisorNext]_supervisorVars => SupervisorInv'
<1> SUFFICES ASSUME SupervisorInv, [SupervisorNext]_supervisorVars PROVE SupervisorInv'
  OBVIOUS
<1>1. ASSUME NEW p \in Processes, ProcessStep(p) PROVE SupervisorInv'
  BY <1>1, TypingStep, LocksStep, EvidenceStep, MigrationStep, ErrorsStep DEF SupervisorInv
<1>2. CASE Maintain
  BY <1>2, MaintainStep
<1>3. CASE UNCHANGED supervisorVars
  BY <1>3 DEF supervisorVars, migrationVars, processVars, SupervisorInv, SupervisorTyping, LocksHeld, Needed,
              EvidenceGuarded, HistoryIsPrefix, PlansCoverGaps, catalog, ErrorsAreOwn, ErrorsOf
<1> QED
  BY <1>1, <1>2, <1>3 DEF SupervisorNext, ProcessStep

\* Everything below holds in every state, however many processes are started, stopped and
\* killed, beside each other or one after the other.
THEOREM SupervisorInvariant == SupervisorSpec => []SupervisorInv
BY SupervisorInvInit, SupervisorInvNext, PTL DEF SupervisorSpec

\* The rows of the history tell what the schema has, without a gap.
THEOREM HistoryAlwaysWhole == SupervisorSpec => []HistoryIsWhole
<1>1. SupervisorInv => HistoryIsWhole
  <2> SUFFICES ASSUME SupervisorInv PROVE HistoryIsWhole
    OBVIOUS
  <2>1. PICK n \in Nat : applied = 1 .. n
    BY DEF SupervisorInv, HistoryIsPrefix
  <2>2. Cardinality(1 .. n) = n
    BY FS_Interval
  <2> QED
    BY <2>1, <2>2 DEF SupervisorInv, HistoryIsPrefix, PlansCoverGaps, HistoryIsWhole
<1> QED
  BY <1>1, SupervisorInvariant, PTL

\* Components run on the schema of the release that is installed.
THEOREM AlwaysOnItsSchema == SupervisorSpec => []RunsOnItsSchema
<1>1. SupervisorInv => RunsOnItsSchema
  BY DEF SupervisorInv, SupervisorTyping, LocksHeld, HistoryIsPrefix, PlansCoverGaps, RunsOnItsSchema
<1> QED
  BY <1>1, SupervisorInvariant, PTL

\* No exclusive component runs twice.
THEOREM AlwaysExclusive == SupervisorSpec => []ComponentsExclusive
<1>1. SupervisorInv => ComponentsExclusive
  <2> SUFFICES ASSUME SupervisorInv, NEW p \in Processes, NEW q \in Processes,
                      NEW c \in alive[p], NEW d \in alive[q], LockOf[c] = LockOf[d], LockOf[c] # NoLock
               PROVE  p = q
    BY DEF ComponentsExclusive
  <2>1. c \in Config[p] /\ d \in Config[q] /\ locks[p] = Needed(p) /\ locks[q] = Needed(q)
    BY DEF SupervisorInv, LocksHeld
  <2>2. LockOf[c] \in locks[p] /\ LockOf[c] \in locks[q]
    BY <2>1 DEF Needed
  <2> QED
    BY <2>2 DEF SupervisorInv, LocksHeld
<1> QED
  BY <1>1, SupervisorInvariant, PTL

\* A webhook beside its own accounting sees no evidence but that of its own run.
THEOREM EvidenceAlwaysOwn == SupervisorSpec => []EvidenceIsOwn
<1>1. SupervisorInv => EvidenceIsOwn
  BY DEF SupervisorInv, LocksHeld, EvidenceGuarded, EvidenceIsOwn
<1> QED
  BY <1>1, SupervisorInvariant, PTL

ErrorReturned ==
    \A p \in Processes :
        pc[p] = "drain" /\ pc'[p] = "return" /\ ~stopped[p] => result'[p] = "failed"

\* Nothing but Return makes that step, and it changes no error.
LEMMA ReturnKeepsError ==
    ASSUME SupervisorTyping, NEW p \in Processes, ProcessStep(p),
           NEW q \in Processes, pc[q] = "drain", pc'[q] = "return", result[q] = "failed"
    PROVE  result'[q] = result[q]
<1> USE DEF SupervisorTyping, processVars, migrationVars, At
<1>1. ASSUME Leaves(p) PROVE FALSE
  <2>1. pc' = [pc EXCEPT ![p] = "down"]
    BY <1>1 DEF Leaves, Exit
  <2> QED
    BY <2>1
<1>2. CASE Refuse(p) \/ Gone(p) \/ StartupFails(p) \/ Kill(p)
  BY <1>1, <1>2, EveryExit
<1>3. CASE Migrate(p) \/ Observe(p) \/ Takes(p) \/ Stop(p) \/ Drain(p)
  <2>1. pc' = pc
    BY <1>3 DEF Migrate, Observe, Takes, Stop, Drain
  <2> QED
    BY <2>1
<1>4. CASE Open(p) \/ Discard(p) \/ Launch(p) \/ Start(p) \/ SelectStopped(p) \/ SelectDone(p)
  <2>1. \E next : pc' = [pc EXCEPT ![p] = next] /\ next # "return"
    BY <1>4 DEF Open, Discard, Launch, Start, SelectStopped, SelectDone
  <2> QED
    BY <2>1
<1>5. CASE Return(p)
  <2>1. result'[q] \in {result[q], "ok"} /\ (result'[q] = "ok" => result[q] \in {"ok", "canceled"})
    BY <1>5 DEF Return
  <2> QED
    BY <2>1
<1>6. ASSUME NEW c \in Components, NEW outcome \in Outcomes, End(p, c, outcome) PROVE FALSE
  <2>1. pc' = pc
    BY <1>6 DEF End
  <2> QED
    BY <2>1
<1> QED
  BY <1>1, <1>2, <1>3, <1>4, <1>5, <1>6, LockTakesOrLeaves DEF ProcessStep, Main

\* A process that was not asked to stop never returns without an error.
THEOREM ErrorAlwaysKept == SupervisorSpec => ErrorKept
<1>1. SupervisorInv /\ [SupervisorNext]_supervisorVars => [ErrorReturned]_supervisorVars
  <2> SUFFICES ASSUME SupervisorInv, SupervisorNext, NEW q \in Processes,
                      pc[q] = "drain", pc'[q] = "return", ~stopped[q]
               PROVE  result'[q] = "failed"
    BY DEF ErrorReturned
  <2>1. result[q] = "failed"
    BY DEF SupervisorInv, ErrorsAreOwn, ErrorsOf
  <2>2. ASSUME NEW p \in Processes, ProcessStep(p) PROVE result'[q] = result[q]
    BY <2>1, <2>2, ReturnKeepsError DEF SupervisorInv
  <2>3. ~Maintain
    BY DEF Maintain, processVars
  <2> QED
    BY <2>1, <2>2, <2>3 DEF SupervisorNext, ProcessStep
<1>2. SupervisorSpec => [][ErrorReturned]_supervisorVars
  BY <1>1, SupervisorInvariant, PTL DEF SupervisorSpec
<1> QED
  BY <1>2 DEF ErrorKept, ErrorReturned
=============================================================================
