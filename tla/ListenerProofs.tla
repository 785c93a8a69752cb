--------------------------- MODULE ListenerProofs ---------------------------
(***************************************************************************)
(* The listener beside its chain, for any signers, blocks, batches,        *)
(* confirmations, lookbacks, reorganisations and failures.                 *)
(*                                                                         *)
(* Its memory: the stored blocks are a stretch of the checkpoint's own     *)
(* branch that ends at the checkpoint and is not shorter than the lookback *)
(* below the highest block ever scanned, unless the opening snapshot is    *)
(* nearer.  It stays so because a batch is only applied when each of its   *)
(* headers names the one before as its parent, though they were read at    *)
(* different times.                                                        *)
(*                                                                         *)
(* Its books: what it reads is events of the batch, so the books are in    *)
(* order in every state.  What was read was on the chain at that time: it  *)
(* still is, or a block of it is known to have left.  So when the last     *)
(* header is found on the chain again, the logs in between were its own,   *)
(* and the canonical events are those of the checkpoint's branch.  So the  *)
(* books that are committed are led from one state of the contract to the  *)
(* next, and no batch that passed these checks is refused by them.         *)
(***************************************************************************)
EXTENDS EscrowChain, ReplayProofs

-----------------------------------------------------------------------------
(***************************************************************************)
(* What the listener stores of the chain                                   *)
(***************************************************************************)
EscrowTyping ==
    /\ chain \in Branches
    /\ checkpoint = [next |-> checkpoint.next, hash |-> checkpoint.hash]
    /\ checkpoint.next \in Nat /\ checkpoint.hash \in Branches
    /\ snapshot = [hash |-> snapshot.hash, splits |-> snapshot.splits]
    /\ snapshot.hash \in Branches
    /\ highest \in Nat /\ head \in Nat
    /\ anchor \in Branches

\* The blocks below n are not needed any more, or were never scanned.
StoredFrom(n) ==
    /\ n \in Len(snapshot.hash) .. Len(checkpoint.hash)
    /\ n <= Greater(Len(snapshot.hash), highest - Lookback)
    /\ DOMAIN blocks = n .. Len(checkpoint.hash)

StoredChain ==
    checkpoint.next # 0 =>
        /\ checkpoint.next = Len(checkpoint.hash) + 1
        /\ Len(checkpoint.hash) <= highest
        /\ \E n \in Nat : StoredFrom(n)
        /\ \A n \in DOMAIN blocks : blocks[n] = Ancestor(checkpoint.hash, n)

\* What a Step knows where it is.
StepKnows ==
    /\ pc \in {"compare", "walk", "headers", "recheck"} => checkpoint.next # 0
    /\ pc = "walk" => candidate \in DOMAIN blocks
    /\ pc \notin {"headers", "recheck"} => DOMAIN fetched = {}
    /\ pc \in {"headers", "recheck"} => Confirmed /\ DOMAIN fetched \subseteq Batch
    /\ \A n \in DOMAIN fetched : fetched[n] \in Branches /\ Len(fetched[n]) = n
    /\ pc = "recheck" => DOMAIN fetched = Batch /\ Linked

EscrowInv == EscrowTyping /\ StoredChain /\ StepKnows

\* There is something to scan once the next block is confirmed.
LEMMA BatchTyped ==
    ASSUME EscrowInv, Confirmed
    PROVE  /\ Final \in Nat /\ checkpoint.next <= Final
           /\ \A n \in Batch : n \in Nat
<1>1. /\ head \in Nat /\ checkpoint.next \in Nat /\ Confirmations \in Nat
      /\ BatchSize \in Nat /\ BatchSize >= 1
      /\ head - Confirmations >= checkpoint.next
  BY ConfigAssumption DEF EscrowInv, EscrowTyping, Confirmed
<1> QED
  BY <1>1 DEF Final, Batch, Lesser

-----------------------------------------------------------------------------
(***************************************************************************)
(* Steps                                                                   *)
(***************************************************************************)
stored == <<checkpoint, blocks, snapshot, highest>>

\* The listener starts in order.
LEMMA EscrowInvInit == EscrowInit => EscrowInv
<1> SUFFICES ASSUME EscrowInit PROVE EscrowInv
  OBVIOUS
<1>1. chain \in Branches
  BY MinedAssumption DEF EscrowInit, Hashes, Branches
<1>2. <<>> \in Branches
  BY DEF Branches
<1>3. EscrowTyping
  BY <1>1, <1>2 DEF EscrowInit, EscrowTyping
<1> QED
  BY <1>3 DEF EscrowInit, EscrowInv, StoredChain, StepKnows

\* A Step that ends without writing.
LEMMA EndKeeps ==
    ASSUME EscrowInv, NEW next \in {"idle", "stopped"}, EndStep(next), UNCHANGED <<chain, stored>>
    PROVE  EscrowInv'
<1>1. <<>> \in Branches
  BY DEF Branches
<1>2. EscrowTyping'
  BY <1>1 DEF EscrowInv, EscrowTyping, EndStep, stored
<1>3. StoredChain'
  BY DEF EscrowInv, StoredChain, StoredFrom, stored
<1>4. StepKnows'
  BY DEF StepKnows, EndStep
<1> QED
  BY <1>2, <1>3, <1>4 DEF EscrowInv

\* A step of the chain.
LEMMA ChainKeeps ==
    ASSUME EscrowInv, chain' \in Branches, UNCHANGED <<stored, pc, head, anchor, candidate, fetched>>
    PROVE  EscrowInv'
<1>1. EscrowTyping'
  BY DEF EscrowInv, EscrowTyping, stored
<1>2. StoredChain'
  BY DEF EscrowInv, StoredChain, StoredFrom, stored
<1>3. StepKnows'
  BY DEF EscrowInv, StepKnows, Confirmed, Batch, Final, Linked, stored
<1> QED
  BY <1>1, <1>2, <1>3 DEF EscrowInv

\* Whatever the chain does, the listener stays in order.
LEMMA ChainStays ==
    ASSUME EscrowInv, NEW payload \in Payloads, NEW n \in 0 .. MaxHeight,
           Mine(payload) \/ Reorganise(n, payload)
    PROVE  EscrowInv'
<1>1. UNCHANGED <<stored, pc, head, anchor, candidate, fetched>>
  BY DEF Mine, Reorganise, stored, database, local
<1>2. chain \in Branches
  BY DEF EscrowInv, EscrowTyping
<1>3. CASE Mine(payload)
  BY <1>1, <1>2, <1>3, ChainKeeps DEF Mine, Branches
<1>4. CASE Reorganise(n, payload)
  <2>1. n \in Int /\ n <= Len(chain)
    BY <1>2, <1>4, MaxHeightAssumption DEF Reorganise, Branches
  <2>2. Ancestor(chain, n) \in Branches
    BY <1>2, <2>1, AncestorIsBranch
  <2> QED
    BY <1>1, <1>4, <2>2, ChainKeeps DEF Reorganise, Branches
<1> QED
  BY <1>3, <1>4

\* Steps that read, and go on.
LEMMA ReadsKeep ==
    ASSUME EscrowInv,
           BeginStep \/ ReadAnchor \/ ReadSenderInfo \/ FindOrphaned \/ TryOlder \/ Compare
    PROVE  EscrowInv'
<1>1. EscrowTyping /\ StoredChain /\ StepKnows
  BY DEF EscrowInv
<1>2. CASE BeginStep
  <2>1. EscrowTyping'
    BY <1>1, <1>2 DEF BeginStep, Ask, node, database, EscrowTyping, Branches
  <2>2. StoredChain'
    BY <1>1, <1>2 DEF BeginStep, database, StoredChain, StoredFrom
  <2>3. StepKnows'
    BY <1>1, <1>2 DEF BeginStep, Ask, database, StepKnows
  <2> QED
    BY <2>1, <2>2, <2>3 DEF EscrowInv
<1>3. CASE ReadAnchor
  <2>1. First - 1 \in Int /\ First - 1 <= Len(chain)
    BY <1>1, <1>3, ConfigAssumption DEF ReadAnchor, First, EscrowTyping
  <2>2. anchor' \in Branches
    BY <1>1, <1>3, <2>1, AncestorIsBranch DEF ReadAnchor, EscrowTyping
  <2>3. EscrowTyping'
    BY <1>1, <1>3, <2>2 DEF ReadAnchor, Ask, node, database, EscrowTyping
  <2>4. StoredChain'
    BY <1>1, <1>3 DEF ReadAnchor, database, StoredChain, StoredFrom
  <2>5. StepKnows'
    BY <1>1, <1>3 DEF ReadAnchor, Ask, database, StepKnows
  <2> QED
    BY <2>3, <2>4, <2>5 DEF EscrowInv
<1>4. CASE ReadSenderInfo
  <2>1. pc' \in {"snapshot", "anchored"} /\ UNCHANGED <<chain, stored, head, anchor, candidate, fetched>>
    BY <1>4 DEF ReadSenderInfo, Ask, node, database, stored
  <2>2. EscrowTyping'
    BY <1>1, <2>1 DEF stored, EscrowTyping
  <2>3. StoredChain'
    BY <1>1, <2>1 DEF stored, StoredChain, StoredFrom
  <2>4. StepKnows'
    BY <1>1, <1>4, <2>1 DEF ReadSenderInfo, stored, StepKnows
  <2> QED
    BY <2>2, <2>3, <2>4 DEF EscrowInv
<1>5. CASE FindOrphaned
  <2>1. EscrowTyping'
    BY <1>1, <1>5 DEF FindOrphaned, Ask, node, database, EscrowTyping
  <2>2. StoredChain'
    BY <1>1, <1>5 DEF FindOrphaned, database, StoredChain, StoredFrom
  <2>3. candidate' \in DOMAIN blocks
    <3>1. checkpoint.next # 0
      BY <1>1, <1>5 DEF FindOrphaned, StepKnows
    <3>2. PICK n \in Nat : StoredFrom(n)
      BY <1>1, <3>1 DEF StoredChain
    <3>3. Len(checkpoint.hash) \in Nat
      BY <1>1 DEF EscrowTyping, Branches
    <3>4. Len(checkpoint.hash) \in DOMAIN blocks /\ \A m \in DOMAIN blocks : m <= Len(checkpoint.hash)
      BY <3>2, <3>3 DEF StoredFrom
    <3>5. MaxOf(DOMAIN blocks) \in DOMAIN blocks
      BY <3>4 DEF MaxOf
    <3> QED
      BY <1>5, <3>5 DEF FindOrphaned
  <2>4. StepKnows'
    BY <1>1, <1>5, <2>3 DEF FindOrphaned, Ask, database, StepKnows
  <2> QED
    BY <2>1, <2>2, <2>4 DEF EscrowInv
<1>6. CASE TryOlder
  <2>1. EscrowTyping'
    BY <1>1, <1>6 DEF TryOlder, Ask, node, database, EscrowTyping
  <2>2. StoredChain'
    BY <1>1, <1>6 DEF TryOlder, database, StoredChain, StoredFrom
  <2>3. candidate' \in DOMAIN blocks
    <3>1. checkpoint.next # 0 /\ candidate \in DOMAIN blocks
      BY <1>1, <1>6 DEF TryOlder, StepKnows
    <3>2. PICK n \in Nat : StoredFrom(n)
      BY <1>1, <3>1 DEF StoredChain
    <3>3. Len(checkpoint.hash) \in Nat /\ checkpoint.next \in Nat /\ Lookback \in Nat
      BY <1>1, ConfigAssumption DEF EscrowTyping, Branches
    <3>4. \A m : m \in Older <=> m \in n .. Len(checkpoint.hash) /\ m < candidate
                                  /\ checkpoint.next - 1 - m <= Lookback
      BY <3>2 DEF Older, StoredFrom
    <3>5. PICK x : x \in Older
      BY <1>6 DEF TryOlder
    <3>6. candidate \in n .. Len(checkpoint.hash)
      BY <3>1, <3>2 DEF StoredFrom
    <3>7. candidate - 1 \in Older /\ \A m \in Older : m <= candidate - 1
      BY <3>3, <3>4, <3>5, <3>6
    <3>8. MaxOf(Older) \in Older
      BY <3>7 DEF MaxOf
    <3> QED
      BY <1>6, <3>8 DEF TryOlder, Older
  <2>4. StepKnows'
    BY <1>1, <1>6, <2>3 DEF TryOlder, Ask, database, StepKnows
  <2> QED
    BY <2>1, <2>2, <2>4 DEF EscrowInv
<1>7. CASE Compare
  <2>1. UNCHANGED <<chain, stored>>
    BY <1>7 DEF Compare, node, database, stored
  <2>2. CASE Confirmed
    <3>1. pc' = "headers" /\ UNCHANGED <<head, anchor, candidate, fetched>>
      BY <1>7, <2>2 DEF Compare, local
    <3>2. EscrowTyping'
      BY <1>1, <2>1, <3>1 DEF stored, EscrowTyping
    <3>3. StoredChain'
      BY <1>1, <2>1 DEF stored, StoredChain, StoredFrom
    <3>4. DOMAIN fetched = {} /\ checkpoint.next # 0
      BY <1>1, <1>7 DEF Compare, StepKnows
    <3>5. StepKnows'
      BY <2>1, <2>2, <3>1, <3>4 DEF stored, StepKnows, Confirmed
    <3> QED
      BY <3>2, <3>3, <3>5 DEF EscrowInv
  <2>3. CASE ~Confirmed
    BY <1>7, <2>1, <2>3, EndKeeps DEF Compare
  <2> QED
    BY <2>2, <2>3
<1> QED
  BY <1>2, <1>3, <1>4, <1>5, <1>6, <1>7

\* Headers and logs read keep the listener in order.
LEMMA BatchReadsKeep ==
    ASSUME EscrowInv, (\E n \in Batch : FetchHeader(n)) \/ FilterLogs
    PROVE  EscrowInv'
<1>1. EscrowTyping /\ StoredChain /\ StepKnows
  BY DEF EscrowInv
<1>2. pc = "headers" /\ UNCHANGED <<chain, stored, head, anchor, candidate>>
  BY DEF FetchHeader, FilterLogs, Ask, node, database, stored
<1>3. EscrowTyping'
  BY <1>1, <1>2 DEF stored, EscrowTyping
<1>4. StoredChain'
  BY <1>1, <1>2 DEF stored, StoredChain, StoredFrom
<1>5. Confirmed /\ DOMAIN fetched \subseteq Batch /\ checkpoint.next # 0
  BY <1>1, <1>2 DEF StepKnows
<1>6. Confirmed' /\ Batch' = Batch
  BY <1>2, <1>5 DEF stored, Confirmed, Batch, Final
<1>7. CASE \E n \in Batch : FetchHeader(n)
  <2>1. PICK n \in Batch : FetchHeader(n)
    BY <1>7
  <2>2. pc' = "headers" /\ n <= Len(chain) /\ fetched' = [m \in DOMAIN fetched \cup {n} |-> IF m = n THEN Ancestor(chain, n) ELSE fetched[m]]
    BY <2>1 DEF FetchHeader, Ask
  <2>3. n \in Nat
    BY <1>5, BatchTyped
  <2>4. Ancestor(chain, n) \in Branches /\ Len(Ancestor(chain, n)) = n
    BY <1>1, <2>2, <2>3, AncestorIsBranch DEF EscrowTyping
  <2>5. /\ DOMAIN fetched' = DOMAIN fetched \cup {n}
        /\ \A m \in DOMAIN fetched' :
              fetched'[m] = IF m = n THEN Ancestor(chain, n) ELSE fetched[m]
    BY <2>2
  <2>6. \A m \in DOMAIN fetched' : fetched'[m] \in Branches /\ Len(fetched'[m]) = m
    BY <1>1, <2>4, <2>5 DEF StepKnows
  <2>7. StepKnows'
    BY <1>2, <1>5, <1>6, <2>2, <2>5, <2>6 DEF StepKnows, stored
  <2> QED
    BY <1>3, <1>4, <2>7 DEF EscrowInv
<1>8. CASE FilterLogs
  <2>1. pc' = "recheck" /\ UNCHANGED fetched /\ Batch \subseteq DOMAIN fetched /\ Linked
    BY <1>8 DEF FilterLogs, Ask
  <2>2. Linked'
    BY <1>2, <1>6, <2>1 DEF Linked, stored
  <2>3. StepKnows'
    BY <1>1, <1>2, <1>5, <1>6, <2>1, <2>2 DEF StepKnows, stored
  <2> QED
    BY <1>3, <1>4, <2>3 DEF EscrowInv
<1> QED
  BY <1>7, <1>8

\* Bootstrap keeps the listener in order.
LEMMA BootstrapKeeps ==
    ASSUME EscrowInv, Bootstrap
    PROVE  EscrowInv'
<1>1. EscrowTyping /\ StepKnows
  BY DEF EscrowInv
<1>2. /\ blocks' = [m \in {Len(anchor)} |-> anchor]
      /\ snapshot' = [hash |-> anchor, splits |-> opening]
      /\ checkpoint' = [next |-> Len(anchor) + 1, hash |-> anchor]
      /\ highest' = Len(anchor)
      /\ pc' = "compare" /\ pc = "anchored"
      /\ UNCHANGED <<chain, head, anchor, candidate, fetched>>
  BY DEF Bootstrap, Ask, node, local
<1>3. anchor \in Branches /\ Len(anchor) \in Nat
  BY <1>1 DEF EscrowTyping, Branches
<1>4. EscrowTyping'
  BY <1>1, <1>2, <1>3 DEF EscrowTyping
<1>5. DOMAIN blocks' = {Len(anchor)} /\ blocks'[Len(anchor)] = anchor
  BY <1>2
<1>6. StoredFrom(Len(anchor))'
  BY <1>2, <1>3, <1>5, ConfigAssumption DEF StoredFrom, Greater
<1>7. StoredChain'
  BY <1>2, <1>3, <1>5, <1>6, AncestorOfItself DEF StoredChain
<1>8. DOMAIN fetched = {}
  BY <1>1, <1>2 DEF StepKnows
<1>9. StepKnows'
  BY <1>2, <1>3, <1>8 DEF StepKnows
<1> QED
  BY <1>4, <1>7, <1>9 DEF EscrowInv

\* The stored blocks up to the ancestor are those of its own branch.
LEMMA RewindKeeps ==
    ASSUME EscrowInv, Rewind
    PROVE  EscrowInv'
<1>1. EscrowTyping /\ StoredChain /\ StepKnows
  BY DEF EscrowInv
<1>2. checkpoint.next # 0 /\ candidate \in DOMAIN blocks
  BY <1>1 DEF Rewind, StepKnows
<1>3. PICK n \in Nat : StoredFrom(n)
  BY <1>1, <1>2 DEF StoredChain
<1> DEFINE h == checkpoint.hash
<1>4. /\ h \in Branches /\ Len(h) \in Nat /\ candidate \in Nat
      /\ n <= candidate /\ candidate <= Len(h) /\ Len(h) <= highest
      /\ blocks[candidate] = Ancestor(h, candidate)
  BY <1>1, <1>2, <1>3 DEF EscrowTyping, StoredChain, StoredFrom, Branches
<1>5. blocks[candidate] \in Branches /\ Len(blocks[candidate]) = candidate
  BY <1>4, AncestorIsBranch
<1>6. /\ blocks' = [m \in {k \in DOMAIN blocks : k <= candidate} |-> blocks[m]]
      /\ checkpoint' = [next |-> candidate + 1, hash |-> blocks[candidate]]
      /\ pc' = "idle" /\ head' = 0 /\ anchor' = <<>> /\ fetched' = <<>>
      /\ UNCHANGED <<chain, snapshot, highest>>
  BY DEF Rewind, EndStep, node
<1>7. EscrowTyping'
  <2>1. <<>> \in Branches
    BY DEF Branches
  <2> QED
    BY <1>1, <1>4, <1>5, <1>6, <2>1 DEF EscrowTyping
<1>8. DOMAIN blocks' = n .. candidate
  BY <1>3, <1>4, <1>6 DEF StoredFrom
<1>9. StoredFrom(n)'
  <2>1. checkpoint'.hash = blocks[candidate] /\ Len(checkpoint'.hash) = candidate
    BY <1>5, <1>6
  <2>2. n \in Len(snapshot.hash) .. Len(h) /\ n <= Greater(Len(snapshot.hash), highest - Lookback)
    BY <1>3 DEF StoredFrom
  <2>3. n \in Len(snapshot'.hash) .. candidate
    BY <1>4, <1>6, <2>2
  <2> QED
    BY <1>6, <1>8, <2>1, <2>2, <2>3 DEF StoredFrom
<1>10. \A m \in DOMAIN blocks' : blocks'[m] = Ancestor(blocks[candidate], m)
  <2> TAKE m \in DOMAIN blocks'
  <2>1. m \in 0 .. candidate /\ m \in DOMAIN blocks
    BY <1>6, <1>8
  <2>2. blocks'[m] = Ancestor(h, m)
    BY <1>1, <1>2, <1>6, <2>1 DEF StoredChain
  <2>3. Ancestor(Ancestor(h, candidate), m) = Ancestor(h, m)
    BY <1>4, <2>1, AncestorOfAncestor
  <2> QED
    BY <1>4, <2>2, <2>3
<1>11. StoredChain'
  <2>1. checkpoint'.hash = blocks[candidate] /\ checkpoint'.next = candidate + 1 /\ highest' = highest
    BY <1>6
  <2>2. \A m \in DOMAIN blocks' : blocks'[m] = Ancestor(checkpoint'.hash, m)
    BY <1>10, <2>1
  <2>3. candidate <= highest
    BY <1>1, <1>4 DEF EscrowTyping
  <2> HIDE DEF h
  <2> QED
    BY <1>5, <1>9, <2>1, <2>2, <2>3 DEF StoredChain
<1>12. StepKnows'
  BY <1>6 DEF StepKnows
<1> QED
  BY <1>7, <1>11, <1>12 DEF EscrowInv

\* The batch is linked to the checkpoint, so what was stored is of its branch too.
LEMMA ApplyKeeps ==
    ASSUME EscrowInv, ApplyChain
    PROVE  EscrowInv'
<1>1. EscrowTyping /\ StoredChain /\ StepKnows /\ pc = "recheck"
  BY DEF EscrowInv, ApplyChain
<1> DEFINE h == checkpoint.hash
           a == checkpoint.next
           tip == fetched[Final]
           kept == [m \in DOMAIN fetched \cup DOMAIN blocks |->
                      IF m \in DOMAIN fetched THEN fetched[m] ELSE blocks[m]]
<1>2. /\ h \in Branches /\ a \in Nat \ {0} /\ a = Len(h) + 1 /\ Len(h) <= highest
      /\ Lookback \in Nat \ {0} /\ highest \in Nat
  BY <1>1, ConfigAssumption DEF EscrowTyping, StoredChain, StepKnows
<1>3. Final \in Nat /\ a <= Final /\ DOMAIN fetched = a .. Final
  BY <1>1, BatchTyped DEF StepKnows, Batch
<1>4. tip \in Branches /\ Len(tip) = Final
  BY <1>1, <1>3 DEF StepKnows
<1>5. /\ \A m \in a .. Final : fetched[m] = Ancestor(tip, m)
      /\ \A m \in 0 .. a - 1 : Ancestor(h, m) = Ancestor(tip, m)
  <2>1. \A m \in a .. Final : fetched[m] \in Branches /\ Len(fetched[m]) = m
    BY <1>1, <1>3 DEF StepKnows
  <2>2. \A m \in a .. Final : Front(fetched[m]) = IF m = a THEN h ELSE fetched[m - 1]
    BY <1>1 DEF StepKnows, Linked, Batch
  <2>3. Len(h) = a - 1
    BY <1>2 DEF Branches
  <2>4. a \in Nat \ {0} /\ Final \in Nat /\ a <= Final /\ h \in Branches
    BY <1>2, <1>3
  <2> HIDE DEF h, a
  <2>5. /\ \A m \in a .. Final : fetched[m] = Ancestor(fetched[Final], m)
        /\ \A m \in 0 .. a - 1 : Ancestor(h, m) = Ancestor(fetched[Final], m)
    BY <2>1, <2>2, <2>3, <2>4, LinkedIsBranch
  <2> QED
    BY <2>5
<1>6. PICK n \in Nat : StoredFrom(n)
  BY <1>1, <1>2 DEF StoredChain
<1>7. /\ blocks' = [m \in {k \in DOMAIN kept : Retained(k)} |-> kept[m]]
      /\ checkpoint' = [next |-> Final + 1, hash |-> tip]
      /\ highest' = Greater(highest, Final)
      /\ pc' = "idle" /\ head' = 0 /\ anchor' = <<>> /\ fetched' = <<>>
      /\ UNCHANGED <<chain, snapshot>>
  BY DEF ApplyChain, EndStep, node
<1>8. EscrowTyping'
  <2>1. <<>> \in Branches
    BY DEF Branches
  <2> QED
    BY <1>1, <1>2, <1>3, <1>4, <1>7, <2>1 DEF EscrowTyping, Greater
<1>9. /\ n \in Len(snapshot.hash) .. a - 1 /\ DOMAIN blocks = n .. a - 1
      /\ n <= Greater(Len(snapshot.hash), highest - Lookback)
      /\ Len(snapshot.hash) \in Nat
  <2>1. Len(h) = a - 1 /\ Len(snapshot.hash) \in Nat
    BY <1>1, <1>2 DEF EscrowTyping, Branches
  <2> QED
    BY <1>6, <2>1 DEF StoredFrom
<1>10. DOMAIN kept = n .. Final /\ \A m \in DOMAIN kept : kept[m] = Ancestor(tip, m)
  <2>1. DOMAIN kept = (a .. Final) \cup (n .. a - 1)
    BY <1>3, <1>9
  <2>2. \A m \in a .. Final : kept[m] = fetched[m]
    BY <1>3
  <2>3. \A m \in n .. a - 1 : kept[m] = blocks[m]
    <3> TAKE m \in n .. a - 1
    <3>1. m \in DOMAIN blocks /\ m \notin DOMAIN fetched
      BY <1>2, <1>3, <1>9
    <3> QED
      BY <3>1
  <2>4. \A m \in n .. a - 1 : blocks[m] = Ancestor(h, m) /\ m \in 0 .. a - 1
    BY <1>1, <1>2, <1>9 DEF StoredChain
  <2> HIDE DEF kept, tip, h, a
  <2>5. n \in Nat /\ a \in Nat /\ Final \in Nat /\ n <= a - 1 /\ a <= Final
    BY <1>2, <1>3, <1>9
  <2>6. DOMAIN kept = n .. Final
    BY <2>1, <2>5
  <2>7. \A m \in DOMAIN kept : kept[m] = Ancestor(tip, m)
    BY <1>5, <2>1, <2>2, <2>3, <2>4
  <2> QED
    BY <2>6, <2>7
<1> HIDE DEF kept, tip, h, a
<1> PICK low : low = Greater(n, Final - Lookback)
  OBVIOUS
<1>11. DOMAIN blocks' = low .. Final /\ \A m \in DOMAIN blocks' : blocks'[m] = Ancestor(tip, m)
  <2>1. n \in Nat /\ Final \in Nat /\ Lookback \in Nat
    BY <1>2, <1>3
  <2>2. DOMAIN blocks' = {k \in n .. Final : k >= Final - Lookback}
    BY <1>7, <1>10 DEF Retained
  <2>3. \A k : k \in DOMAIN blocks' <=> k \in low .. Final
    BY <2>1, <2>2 DEF Greater
  <2> QED
    BY <1>7, <1>10, <2>3
<1>12. StoredFrom(low)'
  <2>1. checkpoint'.hash = tip /\ Len(tip) = Final /\ snapshot' = snapshot
    BY <1>4, <1>7
  <2>2. low \in Len(snapshot.hash) .. Final
    BY <1>2, <1>3, <1>9 DEF Greater
  <2>3. low <= Greater(Len(snapshot.hash), highest' - Lookback)
    BY <1>2, <1>3, <1>7, <1>9 DEF Greater
  <2> QED
    BY <1>11, <2>1, <2>2, <2>3 DEF StoredFrom
<1>13. low \in Nat
  BY <1>2, <1>3 DEF Greater
<1>14. StoredChain'
  <2>1. checkpoint'.hash = tip /\ checkpoint'.next = Len(tip) + 1
    BY <1>3, <1>4, <1>7
  <2>2. Len(tip) <= highest'
    BY <1>2, <1>3, <1>4, <1>7 DEF Greater
  <2> QED
    BY <1>11, <1>12, <1>13, <2>1, <2>2 DEF StoredChain
<1>15. StepKnows'
  BY <1>7 DEF StepKnows
<1> QED
  BY <1>8, <1>14, <1>15 DEF EscrowInv

\* Every step keeps the listener in order.
LEMMA EscrowInvNext == EscrowInv /\ [EscrowNext]_escrowVars => EscrowInv'
<1> SUFFICES ASSUME EscrowInv, [EscrowNext]_escrowVars PROVE EscrowInv'
  OBVIOUS
<1>1. CASE BeginStep \/ ReadAnchor \/ ReadSenderInfo \/ FindOrphaned \/ TryOlder \/ Compare
  BY <1>1, ReadsKeep
<1>2. CASE (\E n \in Batch : FetchHeader(n)) \/ FilterLogs
  BY <1>2, BatchReadsKeep
<1>3. CASE Bootstrap
  BY <1>3, BootstrapKeeps
<1>4. CASE Rewind
  BY <1>4, RewindKeeps
<1>5. CASE ApplyChain
  BY <1>5, ApplyKeeps
<1>6. CASE GiveUp \/ Refuse \/ Fail
  <2>1. UNCHANGED <<chain, stored>> /\ (EndStep("idle") \/ EndStep("stopped"))
    BY <1>6 DEF GiveUp, Refuse, Fail, database, node, stored
  <2> QED
    BY <2>1, EndKeeps
<1>7. CASE \E payload \in Payloads : Mine(payload) \/ \E n \in 0 .. MaxHeight : Reorganise(n, payload)
  <2>1. PICK payload \in Payloads : Mine(payload) \/ \E n \in 0 .. MaxHeight : Reorganise(n, payload)
    BY <1>7
  <2>2. CASE Mine(payload)
    <3>1. 0 \in 0 .. MaxHeight
      BY MaxHeightAssumption
    <3> QED
      BY <2>2, <3>1, ChainStays
  <2>3. CASE \E n \in 0 .. MaxHeight : Reorganise(n, payload)
    BY <2>3, ChainStays
  <2> QED
    BY <2>1, <2>2, <2>3
<1>8. CASE UNCHANGED escrowVars
  <2>1. UNCHANGED <<chain, stored, pc, head, anchor, candidate, fetched>>
    BY <1>8 DEF escrowVars, node, database, local, stored
  <2>2. chain' \in Branches
    BY <2>1 DEF EscrowInv, EscrowTyping
  <2> QED
    BY <2>1, <2>2, ChainKeeps
<1> QED
  BY <1>1, <1>2, <1>3, <1>4, <1>5, <1>6, <1>7, <1>8 DEF EscrowNext, Listener

\* What the listener stores of the chain is one branch of it, whatever the chain does
\* between two calls, and however often a Step fails.
THEOREM EscrowInvariant == EscrowSpec => []EscrowInv
BY EscrowInvInit, EscrowInvNext, PTL DEF EscrowSpec

-----------------------------------------------------------------------------
GivesUpDeep ==
    pc # "stopped" /\ pc' = "stopped" =>
        \A n \in Greater(Len(snapshot.hash), highest - Lookback) .. Len(checkpoint.hash) :
            ~OnChain(Ancestor(checkpoint.hash, n))

\* The last block the walk tries has every block of the lookback above it.
LEMMA GiveUpIsDeep ==
    ASSUME EscrowInv, GiveUp,
           NEW n \in Greater(Len(snapshot.hash), highest - Lookback) .. Len(checkpoint.hash)
    PROVE  ~OnChain(Ancestor(checkpoint.hash, n))
<1>1. EscrowTyping /\ StoredChain /\ StepKnows
  BY DEF EscrowInv
<1> DEFINE h == checkpoint.hash
<1>2. checkpoint.next # 0 /\ candidate \in DOMAIN blocks /\ Older = {}
      /\ ~OnChain(blocks[candidate])
  BY <1>1 DEF GiveUp, StepKnows
<1>3. PICK k \in Nat : StoredFrom(k)
  BY <1>1, <1>2 DEF StoredChain
<1>4. /\ h \in Branches /\ chain \in Branches /\ Len(h) \in Nat /\ Len(snapshot.hash) \in Nat
      /\ checkpoint.next = Len(h) + 1 /\ Len(h) <= highest /\ highest \in Nat
      /\ Lookback \in Nat /\ Len(chain) \in Nat
  BY <1>1, <1>2, ConfigAssumption DEF EscrowTyping, StoredChain, Branches
<1>5. /\ candidate \in k .. Len(h) /\ k <= Greater(Len(snapshot.hash), highest - Lookback)
      /\ k \in Len(snapshot.hash) .. Len(h)
      /\ DOMAIN blocks = k .. Len(h)
  BY <1>2, <1>3 DEF StoredFrom
<1>6. candidate <= n /\ n \in 0 .. Len(h) /\ candidate \in 0 .. n
  <2>1. CASE candidate = k
    BY <1>4, <1>5, <2>1 DEF Greater
  <2>2. CASE candidate # k
    <3>1. candidate - 1 \in DOMAIN blocks /\ candidate - 1 < candidate
      BY <1>4, <1>5, <2>2
    <3>2. ~(checkpoint.next - 1 - (candidate - 1) <= Lookback)
      BY <1>2, <3>1 DEF Older
    <3>3. candidate <= highest - Lookback
      BY <1>4, <1>5, <3>2
    <3> QED
      BY <1>4, <1>5, <3>3 DEF Greater
  <2> QED
    BY <2>1, <2>2
<1>7. SUFFICES ASSUME OnChain(Ancestor(h, n)) PROVE FALSE
  OBVIOUS
<1>8. Len(Ancestor(h, n)) = n
  BY <1>4, <1>6, AncestorIsBranch
<1>9. n <= Len(chain) /\ Ancestor(h, n) = Ancestor(chain, n)
  BY <1>7, <1>8 DEF OnChain
<1>10. Ancestor(h, candidate) = Ancestor(chain, candidate)
  <2>1. Ancestor(Ancestor(h, n), candidate) = Ancestor(h, candidate)
    BY <1>4, <1>6, AncestorOfAncestor
  <2>2. Ancestor(Ancestor(chain, n), candidate) = Ancestor(chain, candidate)
    BY <1>4, <1>6, <1>9, AncestorOfAncestor
  <2> QED
    BY <1>9, <2>1, <2>2
<1>11. blocks[candidate] = Ancestor(h, candidate) /\ Len(Ancestor(h, candidate)) = candidate
  BY <1>1, <1>2, <1>4, <1>6, AncestorIsBranch DEF StoredChain
<1>12. OnChain(blocks[candidate])
  BY <1>4, <1>6, <1>9, <1>10, <1>11 DEF OnChain
<1> QED
  BY <1>2, <1>12

\* The listener gives up only over a reorganisation deeper than what it
\* retains.
LEMMA GivesUpDeepStep == EscrowInv /\ [EscrowNext]_escrowVars => GivesUpDeep
<1> SUFFICES ASSUME EscrowInv, [EscrowNext]_escrowVars, pc # "stopped", pc' = "stopped"
             PROVE  GiveUp
  BY GiveUpIsDeep DEF GivesUpDeep
<1>1. CASE Listener
  BY <1>1 DEF Listener, BeginStep, ReadAnchor, ReadSenderInfo, Bootstrap, Compare, FindOrphaned,
              TryOlder, Rewind, FetchHeader, FilterLogs, ApplyChain, Refuse, EndStep, Ask
<1>2. CASE Fail
  BY <1>2 DEF Fail, EndStep
<1>3. CASE \E payload \in Payloads : Mine(payload) \/ \E n \in 0 .. MaxHeight : Reorganise(n, payload)
  BY <1>3 DEF Mine, Reorganise
<1>4. CASE UNCHANGED escrowVars
  BY <1>4 DEF escrowVars
<1> QED
  BY <1>1, <1>2, <1>3, <1>4 DEF EscrowNext

\* The listener gives up only when the chain has left every block from the lookback
\* below the highest it ever scanned, or from the opening snapshot, to its checkpoint.
THEOREM GivesUpOnlyForDeepReorgs == EscrowSpec => GivesUpOnlyWhenDeep
<1>1. GivesUpDeep <=>
        (pc # "stopped" /\ pc' = "stopped" =>
           \A n \in Greater(Len(snapshot.hash), highest - Lookback) .. Len(checkpoint.hash) :
              ~OnChain(Ancestor(checkpoint.hash, n)))
  BY DEF GivesUpDeep
<1> QED
  BY EscrowInvariant, GivesUpDeepStep, PTL DEF EscrowSpec, GivesUpOnlyWhenDeep, GivesUpDeep

-----------------------------------------------------------------------------
(***************************************************************************)
(* The opening snapshot                                                    *)
(***************************************************************************)
KeepFolds == INSTANCE FoldProofs WITH op <- KeptOnce
OpenFolds == INSTANCE FoldProofs WITH op <- Opened

\* Logs are kept one at a time.
LEMMA KeepFoldTrace ==
    ASSUME NEW n \in Nat, NEW seq, DOMAIN seq = 1 .. n, NEW base
    PROVE  \E t : KeepFolds!Trace(t, base, n, seq) /\ t[n] = FoldLeft(KeptOnce, base, seq)
<1>1. \E t : KeepFolds!Trace(t, base, n, seq) /\ t[n] = KeepFolds!LeftFold(base, seq)
  BY KeepFolds!TraceExists
<1>2. KeepFolds!LeftFold(base, seq) = FoldLeft(KeptOnce, base, seq)
  BY DEF KeepFolds!LeftFold, KeepFolds!FoldLeft, KeepFolds!MapThenFoldSet, KeepFolds!Max,
         FoldLeft, MapThenFoldSet, Max
<1> QED
  BY <1>1, <1>2

\* Signers are opened one at a time.
LEMMA OpenFoldTrace ==
    ASSUME NEW n \in Nat, NEW seq, DOMAIN seq = 1 .. n, NEW base
    PROVE  \E t : OpenFolds!Trace(t, base, n, seq) /\ t[n] = FoldLeft(Opened, base, seq)
<1>1. \E t : OpenFolds!Trace(t, base, n, seq) /\ t[n] = OpenFolds!LeftFold(base, seq)
  BY OpenFolds!TraceExists
<1>2. OpenFolds!LeftFold(base, seq) = FoldLeft(Opened, base, seq)
  BY DEF OpenFolds!LeftFold, OpenFolds!FoldLeft, OpenFolds!MapThenFoldSet, OpenFolds!Max,
         FoldLeft, MapThenFoldSet, Max
<1> QED
  BY <1>1, <1>2

\* kept has each of them once.
OnceEach(kept, S) ==
    /\ kept \in Seq(S) /\ Firsts(kept, Len(kept)) = S
    /\ \A i, j \in 1 .. Len(kept) : i # j => kept[i] # kept[j]

\* A log kept unless it is there leaves each of the logs once.
LEMMA KeptOnceKeeps ==
    ASSUME NEW kept, NEW S, OnceEach(kept, S), NEW s, NEW T, T = S \cup {s}
    PROVE  OnceEach(KeptOnce(kept, s), T)
<1>q. PICK q \in Seq(T) : q = kept
  BY DEF OnceEach
<1>n. PICK n \in Nat : n = Len(q)
  OBVIOUS
<1>1. Firsts(q, n) = S /\ \A i, j \in 1 .. n : i # j => q[i] # q[j]
  BY <1>q, <1>n DEF OnceEach
<1>2. Contains(kept, s) <=> s \in S
  BY <1>1, <1>q, <1>n DEF Contains, Firsts
<1>3. CASE s \in S
  <2>1. KeptOnce(kept, s) = q /\ T = S
    BY <1>2, <1>3, <1>q DEF KeptOnce
  <2> QED
    BY <2>1, <1>1, <1>n, <1>q DEF OnceEach
<1>4. CASE s \notin S
  <2>a. PICK r \in Seq(T) : r = Append(q, s)
    BY AppendProperties
  <2>k. PICK k \in Nat : k = n + 1
    OBVIOUS
  <2>1. KeptOnce(kept, s) = r
    BY <1>2, <1>4, <1>q, <2>a DEF KeptOnce
  <2>2. Len(r) = k /\ r[k] = s /\ \A i \in 1 .. n : r[i] = q[i]
    <3>1. /\ Len(r) = Len(q) + 1 /\ r[Len(q) + 1] = s
          /\ \A i \in 1 .. Len(q) : r[i] = q[i]
      BY <2>a, AppendProperties
    <3> QED
      BY <1>n, <2>k, <3>1
  <2>3. 1 .. k = (1 .. n) \cup {k} /\ k \notin 1 .. n
    BY <2>k
  <2>4. Firsts(r, k) = T
    <3>1. Firsts(r, k) = Firsts(r, n) \cup {r[k]}
      BY <2>3 DEF Firsts
    <3>2. Firsts(r, n) = Firsts(q, n)
      BY <2>2 DEF Firsts
    <3> QED
      BY <1>1, <2>2, <3>1, <3>2
  <2>5. \A i \in 1 .. n : r[i] # s
    BY <1>1, <1>4, <2>2 DEF Firsts
  <2>6. \A i, j \in 1 .. k : i # j => r[i] # r[j]
    BY <1>1, <2>2, <2>3, <2>5
  <2> QED
    BY <2>1, <2>2, <2>4, <2>6 DEF OnceEach
<1> QED
  BY <1>3, <1>4

\* The opening snapshot asks for each followed sender, once.
LEMMA OpeningIs == OnceEach(Opening, Followed) /\ Followed # {}
<1>n. PICK n \in Nat : n = Len(Senders) /\ n # 0
  BY SendersAssumption
<1>1. DOMAIN Senders = 1 .. n /\ Followed = Firsts(Senders, n)
  BY <1>n, SendersAssumption DEF Followed, ToSet, Firsts
<1>2. PICK t : KeepFolds!Trace(t, <<>>, n, Senders) /\ t[n] = Opening
  BY <1>1, KeepFoldTrace DEF Opening
<1>3. t[0] = <<>> /\ \A i \in 1 .. n : t[i] = KeptOnce(t[i - 1], Senders[i])
  BY <1>2 DEF KeepFolds!Trace
<1> DEFINE F == {k \in 0 .. n : OnceEach(t[k], Firsts(Senders, k))}
<1>4. 0 \in F
  <2>e. PICK e : e = <<>>
    OBVIOUS
  <2>1. Firsts(Senders, 0) = {} /\ Firsts(e, 0) = {}
    BY DEF Firsts
  <2>2. e \in Seq({}) /\ Len(e) = 0 /\ 1 .. Len(e) = {}
    BY <2>e
  <2>3. OnceEach(e, Firsts(Senders, 0))
    BY <2>1, <2>2 DEF OnceEach
  <2>4. 0 \in 0 .. n
    OBVIOUS
  <2> QED
    BY <1>3, <2>3, <2>4, <2>e
<1>5. ASSUME NEW k \in 1 .. n, k - 1 \in F PROVE k \in F
  <2>m. PICK m : m = k - 1
    OBVIOUS
  <2>1. 1 .. k = (1 .. m) \cup {k}
    BY <2>m
  <2>2. Firsts(Senders, k) = Firsts(Senders, m) \cup {Senders[k]}
    BY <2>1 DEF Firsts
  <2>3. OnceEach(t[m], Firsts(Senders, m)) /\ t[k] = KeptOnce(t[m], Senders[k])
    BY <1>3, <1>5, <2>m
  <2>4. OnceEach(t[k], Firsts(Senders, k))
    BY <2>2, <2>3, KeptOnceKeeps
  <2>5. k \in 0 .. n
    OBVIOUS
  <2> QED
    BY <2>4, <2>5
<1> HIDE DEF F
<1>6. n \in F
  BY <1>4, <1>5, KeepFolds!TraceInduction
<1>7. n \in 1 .. n
  BY <1>n
<1>8. Firsts(Senders, n) # {}
  BY <1>7 DEF Firsts
<1> QED
  BY <1>1, <1>2, <1>6, <1>8 DEF F

\* Empty books are the opened books of no signer.
LEMMA EmptyIsOpened == OpenedOf(EmptyBooks, {})
<1> DEFINE b == EmptyBooks
<1>1. b = [events |-> b.events, settlements |-> b.settlements, keys |-> b.keys, ok |-> b.ok,
           ledger |-> b.ledger, summary |-> b.summary]
      /\ b.events = <<>> /\ b.settlements = <<>> /\ b.keys = {} /\ b.ok = TRUE
      /\ b.ledger = [s \in Followed |-> [account \in Accounts |-> 0]]
  BY DEF EmptyBooks
<1>s. b.summary = [rows |-> [status \in Statuses |-> 0],
                   face |-> 0, paid |-> 0, shortfall |-> 0, underpaid |-> 0,
                   held |-> [c \in Buckets |-> 0], unfunded |-> [c \in Buckets |-> 0]]
  BY DEF EmptyBooks
<1> HIDE DEF b
<1>2. DOMAIN <<>> = {} /\ IsFiniteSet({}) /\ Cardinality({}) = 0
  BY FS_EmptySet
<1>3. Table(<<>>) /\ Live(<<>>) = {}
  <2>t. PICK t \in Seq(Rows) : t = <<>> /\ Len(t) = 0
    BY EmptySeq
  <2>1. DOMAIN t = {} /\ t \in [{} -> Rows]
    BY <2>t, LenProperties
  <2> QED
    BY <1>2, <2>t, <2>1 DEF Table, Live
<1>4. b.summary \in Summaries
  BY <1>s DEF Summaries
<1>5. BooksType(b)
  <2>1. b.ledger \in [Followed -> [Accounts -> Int]]
    BY <1>1
  <2>2. Table(b.events) /\ Table(b.settlements) /\ b.ok \in BOOLEAN
    BY <1>1, <1>3
  <2> QED
    BY <1>1, <1>4, <2>1, <2>2 DEF BooksType
<1>6. \A f : SumFunctionOnSet(f, {}) = 0
  <2> TAKE f
  <2> QED
    BY <1>2, SumOfInts
<1>7. HeldOf(b, {})
  <2> SUFFICES ASSUME NEW c \in Buckets
               PROVE  /\ b.summary.held[c] = SumFunctionOnSet(Balances(b, c), {})
                      /\ b.summary.unfunded[c] = Cardinality({s \in {} : b.ledger[s][c] = 0})
                      /\ \A s \in Followed \ {} : b.ledger[s][c] = 0
    BY DEF HeldOf
  <2>1. b.summary.held[c] = 0 /\ b.summary.unfunded[c] = 0
    BY <1>s
  <2>2. {s \in {} : b.ledger[s][c] = 0} = {}
    OBVIOUS
  <2>3. \A s \in Followed : b.ledger[s][c] = 0
    BY <1>1 DEF Accounts
  <2> QED
    BY <1>2, <1>6, <2>1, <2>2, <2>3
<1>8. SettlementsCounted(b)
  <2>1. /\ b.summary.rows["settled"] = 0 /\ b.summary.rows["orphaned"] = 0
        /\ b.summary.face = 0 /\ b.summary.paid = 0 /\ b.summary.shortfall = 0
        /\ b.summary.underpaid = 0
    BY <1>s DEF Statuses
  <2>t. PICK rows : rows = b.settlements /\ DOMAIN rows = {} /\ Live(rows) = {}
    BY <1>1, <1>2, <1>3
  <2>f. PICK face : face = [id \in DOMAIN rows |-> rows[id].event.amount]
    OBVIOUS
  <2>p. PICK paid : paid = [id \in DOMAIN rows |-> Paid(rows[id].event)]
    OBVIOUS
  <2>2. {id \in Live(rows) : paid[id] < face[id]} = {} /\ DOMAIN rows \ Live(rows) = {}
    BY <2>t
  <2>3. SumFunctionOnSet(face, Live(rows)) = 0 /\ SumFunctionOnSet(paid, Live(rows)) = 0
    BY <1>6, <2>t
  <2>4. /\ b.summary.rows["settled"] = Cardinality(Live(rows))
        /\ b.summary.rows["orphaned"] = Cardinality(DOMAIN rows \ Live(rows))
        /\ b.summary.face = SumFunctionOnSet(face, Live(rows))
        /\ b.summary.paid = SumFunctionOnSet(paid, Live(rows))
        /\ b.summary.shortfall = b.summary.face - b.summary.paid
        /\ b.summary.underpaid = Cardinality({id \in Live(rows) : paid[id] < face[id]})
    BY <1>2, <2>t, <2>1, <2>2, <2>3
  <2> QED
    BY <2>4, <2>t, <2>f, <2>p DEF SettlementsCounted
<1>9. KeysKnown(b)
  BY <1>1 DEF KeysKnown
<1> QED
  BY <1>1, <1>5, <1>7, <1>8, <1>9 DEF OpenedOf, InOrder, b

\* What is read of the first senders of the opening snapshot.
Read(splits) ==
    /\ splits \in Seq([sender : Followed, deposit : Int, reserve : Int])
    /\ Len(splits) <= Len(Opening)
    /\ \A i \in 1 .. Len(splits) : splits[i].sender = Opening[i]

\* The books of a new checkpoint are in order.
LEMMA OpeningKeepsOrder ==
    ASSUME NEW splits, Read(splits), Len(splits) = Len(Opening),
           NEW r, r = FoldLeft(Opened, EmptyBooks, splits)
    PROVE  OpenedOf(r, Followed)
<1>n. PICK n \in Nat : n = Len(splits)
  BY DEF Read
<1>1. /\ DOMAIN splits = 1 .. n
      /\ \A i \in 1 .. n : /\ splits[i].sender = Opening[i] /\ splits[i].deposit \in Int
                           /\ splits[i].reserve \in Int
  <2>1. DOMAIN splits = 1 .. n /\ \A i \in 1 .. n : splits[i].sender = Opening[i]
    BY <1>n DEF Read
  <2>p. PICK Splits : Splits = [sender : Followed, deposit : Int, reserve : Int]
    OBVIOUS
  <2>q. PICK q \in Seq(Splits) : q = splits /\ Len(q) = n
    BY <1>n, <2>p DEF Read
  <2>2. \A i \in 1 .. n : splits[i] \in [sender : Followed, deposit : Int, reserve : Int]
    BY <2>p, <2>q, ElementOfSeq
  <2> QED
    BY <2>1, <2>2
<1>2. /\ \A i \in 1 .. n : Opening[i] \in Followed
      /\ \A i, j \in 1 .. n : i # j => Opening[i] # Opening[j]
      /\ Firsts(Opening, n) = Followed
  BY <1>n, OpeningIs DEF OnceEach
<1>3. PICK t : OpenFolds!Trace(t, EmptyBooks, n, splits) /\ t[n] = r
  BY <1>1, OpenFoldTrace
<1>4. t[0] = EmptyBooks /\ \A i \in 1 .. n : t[i] = Opened(t[i - 1], splits[i])
  BY <1>3 DEF OpenFolds!Trace
<1> DEFINE F == {k \in 0 .. n : OpenedOf(t[k], Firsts(Opening, k))}
<1>5. 0 \in F
  <2>1. Firsts(Opening, 0) = {} /\ 0 \in 0 .. n
    BY DEF Firsts
  <2>2. OpenedOf(t[0], Firsts(Opening, 0))
    BY <1>4, <2>1, EmptyIsOpened
  <2> QED
    BY <2>1, <2>2
<1>6. ASSUME NEW k \in 1 .. n, k - 1 \in F PROVE k \in F
  <2>m. PICK m : m = k - 1
    OBVIOUS
  <2>1. 1 .. k = (1 .. m) \cup {k} /\ k \notin 1 .. m /\ 1 .. m \subseteq 1 .. n
    BY <2>m
  <2>d. PICK D \in SUBSET Followed : D = Firsts(Opening, m) /\ Opening[k] \notin D
    <3>1. \A i \in 1 .. m : Opening[i] \in Followed /\ Opening[i] # Opening[k]
      BY <1>2, <2>1
    <3>2. Firsts(Opening, m) \subseteq Followed /\ Opening[k] \notin Firsts(Opening, m)
      BY <3>1 DEF Firsts
    <3> QED
      BY <3>2
  <2>e. PICK E : E = Firsts(Opening, k) /\ E = D \cup {Opening[k]}
    BY <2>1, <2>d DEF Firsts
  <2>b. PICK b : b = t[m]
    OBVIOUS
  <2>s. PICK split : split = splits[k]
    OBVIOUS
  <2>u. PICK u : u = t[k]
    OBVIOUS
  <2>2. OpenedOf(b, D)
    BY <1>6, <2>m, <2>d, <2>b
  <2>3. u = Opened(b, split)
    BY <1>4, <2>m, <2>b, <2>s, <2>u
  <2>4. split.sender \in Followed \ D /\ split.deposit \in Int /\ split.reserve \in Int
        /\ E = D \cup {split.sender}
    BY <1>1, <1>2, <2>d, <2>e, <2>s
  <2>5. OpenedOf(u, E)
    BY <2>2, <2>3, <2>4, OpenedKeepsOrder
  <2>6. k \in 0 .. n
    OBVIOUS
  <2> QED
    BY <2>5, <2>6, <2>e, <2>u
<1> HIDE DEF F
<1>7. n \in F
  BY <1>5, <1>6, OpenFolds!TraceInduction
<1> QED
  BY <1>2, <1>3, <1>7 DEF F

-----------------------------------------------------------------------------
(***************************************************************************)
(* The books of the listener                                               *)
(***************************************************************************)
Steps == {"idle", "anchor", "snapshot", "anchored", "compare", "walk", "headers", "recheck", "stopped"}

LedgerTyping ==
    /\ chain \in Hashes /\ pc \in Steps
    /\ reorgs \in 0 .. MaxReorgs /\ failures \in 0 .. MaxFailures

\* What is stored is of a scanned block.
Scanned(table, n) == \A id \in DOMAIN table : Len(id.block) <= n

BooksInOrder ==
    /\ books.ok
    /\ checkpoint.next = 0 => books = EmptyBooks /\ blocks = <<>>
    /\ checkpoint.next # 0 => InOrder(books, Followed)
    /\ Scanned(books.events, highest) /\ Scanned(books.settlements, highest)

\* What was read and is not stored yet.
ReadSoFar ==
    /\ pc \in {"idle", "anchor"} => opening = <<>>
    /\ pc \in {"anchor", "snapshot", "anchored"} => checkpoint.next = 0
    /\ pc = "snapshot" => Read(opening) /\ Len(opening) < Len(Opening)
    /\ pc = "anchored" => Read(opening) /\ Len(opening) = Len(Opening)
    /\ pc = "recheck" =>
          /\ logs \in Seq(Events)
          /\ \A i \in 1 .. Len(logs) : Len(logs[i].id.block) <= Final

LedgerInv == LedgerTyping /\ BooksInOrder /\ ReadSoFar

\* The books start in order.
LEMMA LedgerInvInit == EscrowInit => LedgerInv
<1> SUFFICES ASSUME EscrowInit PROVE LedgerInv
  OBVIOUS
<1>1. LedgerTyping
  BY MinedAssumption, BoundsAssumption DEF EscrowInit, LedgerTyping, Steps
<1>2. books = EmptyBooks /\ EmptyBooks.ok /\ EmptyBooks.events = <<>> /\ EmptyBooks.settlements = <<>>
  BY DEF EscrowInit, EmptyBooks
<1>3. BooksInOrder
  BY <1>2 DEF EscrowInit, BooksInOrder, Scanned
<1>4. ReadSoFar
  BY DEF EscrowInit, ReadSoFar
<1> QED
  BY <1>1, <1>3, <1>4 DEF LedgerInv

\* Books left alone stay in order.
LEMMA BooksStay ==
    ASSUME BooksInOrder, UNCHANGED database
    PROVE  BooksInOrder'
BY DEF BooksInOrder, Scanned, database

\* A Step that ends without writing.
LEMMA EndKeepsLedger ==
    ASSUME LedgerInv, NEW next \in {"idle", "stopped"}, EndStep(next), UNCHANGED <<chain, reorgs, database>>,
           failures' \in 0 .. MaxFailures
    PROVE  LedgerInv'
<1>1. LedgerTyping'
  BY DEF LedgerInv, LedgerTyping, EndStep, Steps
<1>2. BooksInOrder'
  BY BooksStay DEF LedgerInv
<1>3. ReadSoFar'
  BY DEF ReadSoFar, EndStep
<1> QED
  BY <1>1, <1>2, <1>3 DEF LedgerInv

\* A step of the chain.
LEMMA ChainKeepsLedger ==
    ASSUME LedgerInv, chain' \in Hashes, reorgs' \in 0 .. MaxReorgs,
           UNCHANGED <<failures, database, pc, local>>
    PROVE  LedgerInv'
<1>1. LedgerTyping'
  BY DEF LedgerInv, LedgerTyping
<1>2. BooksInOrder'
  BY BooksStay DEF LedgerInv
<1>3. ReadSoFar'
  BY DEF LedgerInv, ReadSoFar, Read, Final, database, local
<1> QED
  BY <1>1, <1>2, <1>3 DEF LedgerInv

\* A block mined below the greatest height has a hash.
LEMMA LongerHash ==
    ASSUME NEW h \in Hashes, Len(h) < MaxHeight, NEW payload \in Payloads
    PROVE  Append(h, payload) \in Hashes
<1>n. PICK n \in Nat : n = Len(h) /\ n < MaxHeight
  BY HashIs
<1>1. h \in Seq(Payloads)
  BY HashIs
<1>r. PICK r \in Seq(Payloads) : r = Append(h, payload)
  BY <1>1, AppendProperties
<1>2. Len(r) = n + 1
  BY <1>1, <1>n, <1>r, AppendProperties
<1>3. n + 1 \in 0 .. MaxHeight
  BY <1>n, MaxHeightAssumption
<1>4. r \in [1 .. Len(r) -> Payloads]
  OBVIOUS
<1> QED
  BY <1>2, <1>3, <1>4, <1>r DEF Hashes

\* Whatever the chain does, the books stay in order.
LEMMA ChainStaysLedger ==
    ASSUME LedgerInv, NEW payload \in Payloads, NEW n \in 0 .. MaxHeight,
           Mine(payload) \/ Reorganise(n, payload)
    PROVE  LedgerInv'
<1>1. chain \in Hashes /\ Len(chain) \in Nat /\ Len(chain) <= MaxHeight
      /\ reorgs \in 0 .. MaxReorgs
  BY HashIs DEF LedgerInv, LedgerTyping
<1>2. CASE Mine(payload)
  <2>1. chain' \in Hashes
    BY <1>1, <1>2, LongerHash DEF Mine
  <2> QED
    BY <1>1, <1>2, <2>1, ChainKeepsLedger DEF Mine
<1>3. CASE Reorganise(n, payload)
  <2>1. n \in 0 .. Len(chain) /\ n < MaxHeight
    BY <1>1, <1>3, MaxHeightAssumption DEF Reorganise
  <2>b. PICK b \in Hashes : b = Ancestor(chain, n) /\ Len(b) = n
    BY <1>1, <2>1, AncestorIs
  <2>2. chain' \in Hashes
    BY <1>3, <2>1, <2>b, LongerHash DEF Reorganise
  <2>3. reorgs' \in 0 .. MaxReorgs
    BY <1>1, <1>3, BoundsAssumption DEF Reorganise
  <2> QED
    BY <1>3, <2>2, <2>3, ChainKeepsLedger DEF Reorganise
<1> QED
  BY <1>2, <1>3

\* Steps that read, and go on.
LEMMA ReadsKeepLedger ==
    ASSUME LedgerInv, EscrowInv,
           \/ BeginStep \/ ReadAnchor \/ FindOrphaned \/ TryOlder \/ Compare
           \/ \E n \in Batch : FetchHeader(n)
    PROVE  LedgerInv'
<1>1. LedgerTyping /\ BooksInOrder /\ ReadSoFar
  BY DEF LedgerInv
<1>2. UNCHANGED <<chain, reorgs, failures, database>>
  BY DEF BeginStep, ReadAnchor, FindOrphaned, TryOlder, Compare, FetchHeader, Ask, node
<1>3. BooksInOrder'
  BY <1>1, <1>2, BooksStay
<1>4. CASE BeginStep
  <2>1. pc' = (IF checkpoint.next = 0 THEN "anchor" ELSE "compare") /\ opening' = <<>>
    BY <1>1, <1>4 DEF BeginStep, Ask, ReadSoFar
  <2>2. LedgerTyping'
    BY <1>1, <1>2, <2>1 DEF LedgerTyping, Steps
  <2>3. ReadSoFar'
    BY <1>2, <2>1 DEF ReadSoFar, database
  <2> QED
    BY <1>3, <2>2, <2>3 DEF LedgerInv
<1>5. CASE ReadAnchor
  <2>1. pc = "anchor" /\ pc' = "snapshot" /\ opening' = opening
    BY <1>5 DEF ReadAnchor, Ask
  <2>e. PICK e : e = <<>> /\ e \in Seq([sender : Followed, deposit : Int, reserve : Int]) /\ Len(e) = 0
    BY EmptySeq
  <2>2. opening' = e /\ checkpoint'.next = 0
    BY <1>1, <1>2, <2>1, <2>e DEF ReadSoFar, database
  <2>3. Len(Opening) \in Nat /\ 0 < Len(Opening)
    <3>1. Len(Opening) \in Nat
      BY OpeningIs DEF OnceEach
    <3>2. Firsts(Opening, 0) = {}
      BY DEF Firsts
    <3>3. Len(Opening) # 0
      BY <3>2, OpeningIs DEF OnceEach
    <3> QED
      BY <3>1, <3>3
  <2>4. Read(e)
    BY <2>e, <2>3 DEF Read
  <2>5. ReadSoFar'
    <3>1. Read(opening')
      BY <2>2, <2>4
    <3>2. Read(opening)' <=> Read(opening')
      BY DEF Read
    <3> QED
      BY <2>1, <2>2, <2>3, <2>e, <3>1, <3>2 DEF ReadSoFar
  <2>6. LedgerTyping'
    BY <1>1, <1>2, <2>1 DEF LedgerTyping, Steps
  <2> QED
    BY <1>3, <2>5, <2>6 DEF LedgerInv
<1>6. CASE FindOrphaned \/ TryOlder \/ \E n \in Batch : FetchHeader(n)
  <2>1. pc' \in {"walk", "headers"}
    BY <1>6 DEF FindOrphaned, TryOlder, FetchHeader, Ask
  <2>2. LedgerTyping'
    BY <1>1, <1>2, <2>1 DEF LedgerTyping, Steps
  <2>3. ReadSoFar'
    BY <2>1 DEF ReadSoFar
  <2> QED
    BY <1>3, <2>2, <2>3 DEF LedgerInv
<1>7. CASE Compare
  <2>1. CASE Confirmed
    <3>1. pc' = "headers"
      BY <1>7, <2>1 DEF Compare
    <3>2. LedgerTyping'
      BY <1>1, <1>2, <3>1 DEF LedgerTyping, Steps
    <3>3. ReadSoFar'
      BY <3>1 DEF ReadSoFar
    <3> QED
      BY <1>3, <3>2, <3>3 DEF LedgerInv
  <2>2. CASE ~Confirmed
    <3>1. EndStep("idle") /\ failures' \in 0 .. MaxFailures
      BY <1>1, <1>2, <1>7, <2>2 DEF Compare, LedgerTyping
    <3> QED
      BY <1>2, <3>1, EndKeepsLedger
  <2> QED
    BY <2>1, <2>2
<1> QED
  BY <1>4, <1>5, <1>6, <1>7

\* The next sender's escrow is read on whatever chain there is.
LEMMA ReadSenderInfoKeepsLedger ==
    ASSUME LedgerInv, EscrowInv, ReadSenderInfo
    PROVE  LedgerInv'
<1>1. LedgerTyping /\ BooksInOrder /\ ReadSoFar
  BY DEF LedgerInv
<1>2. UNCHANGED <<chain, reorgs, failures, database>> /\ pc = "snapshot"
  BY DEF ReadSenderInfo, Ask, node
<1>3. BooksInOrder'
  BY <1>1, <1>2, BooksStay
<1>4. Read(opening) /\ Len(opening) < Len(Opening) /\ checkpoint.next = 0
  BY <1>1, <1>2 DEF ReadSoFar
<1> DEFINE Splits == [sender : Followed, deposit : Int, reserve : Int]
<1>n. PICK n \in Nat : n = Len(opening) /\ opening \in Seq(Splits)
  BY <1>4 DEF Read
<1>m. PICK m \in Nat : m = Len(Opening) /\ n < m
  BY <1>4, <1>n, OpeningIs DEF OnceEach
<1>k. PICK k \in 1 .. m : k = n + 1
  BY <1>m
<1>5. Opening[k] \in Followed
  BY <1>m, OpeningIs DEF OnceEach
<1>6. Opening[k] \in Signers
  <2>1. Followed \subseteq Signers
    BY SendersAssumption DEF Followed, ToSet
  <2> QED
    BY <1>5, <2>1
<1>a. PICK a : a = Len(anchor) /\ a \in 0 .. Len(chain)
  <2>1. Len(anchor) \in Nat /\ Len(anchor) <= Len(chain)
    BY DEF ReadSenderInfo, EscrowInv, EscrowTyping, Branches
  <2>2. Len(chain) \in Nat
    BY <1>1, HashIs DEF LedgerTyping
  <2> QED
    BY <2>1, <2>2
<1>b. PICK b \in Hashes : b = Ancestor(chain, a)
  BY <1>1, <1>a, AncestorIs DEF LedgerTyping
<1>e. PICK e \in Escrows : e = Contract[b].escrow[Opening[k]]
  BY <1>6, ContractIs DEF Contracts
<1>s. PICK s \in Splits : s = [sender |-> Opening[k], deposit |-> e.deposit, reserve |-> e.reserve]
  <2>1. e.deposit \in Int /\ e.reserve \in Int
    BY DEF Escrows
  <2> QED
    BY <1>5, <2>1
<1>7. opening' = Append(opening, s)
  BY <1>n, <1>k, <1>a, <1>b, <1>e, <1>s DEF ReadSenderInfo
<1>q. PICK q \in Seq(Splits) : q = opening'
  BY <1>n, <1>7, AppendProperties
<1> HIDE DEF Splits
<1>8. Len(q) = k /\ q[k] = s /\ \A i \in 1 .. n : q[i] = opening[i]
  <2>1. /\ Len(q) = Len(opening) + 1 /\ q[Len(opening) + 1] = s
        /\ \A i \in 1 .. Len(opening) : q[i] = opening[i]
    BY <1>n, <1>7, <1>q, AppendProperties
  <2> QED
    BY <1>n, <1>k, <2>1
<1>9. Read(q)
  <2>1. \A i \in 1 .. k : i \in 1 .. n \/ i = k
    BY <1>k
  <2>2. \A i \in 1 .. n : opening[i].sender = Opening[i]
    BY <1>4, <1>n DEF Read
  <2>3. s.sender = Opening[k]
    BY <1>s
  <2>4. \A i \in 1 .. k : q[i].sender = Opening[i]
    BY <1>8, <2>1, <2>2, <2>3
  <2>5. Len(q) <= Len(Opening)
    BY <1>8, <1>m
  <2> QED
    BY <1>8, <2>4, <2>5 DEF Read, Splits
<1>10. pc' = IF k = m THEN "anchored" ELSE "snapshot"
  <2>1. pc' = IF Len(opening') = Len(Opening) THEN "anchored" ELSE "snapshot"
    BY DEF ReadSenderInfo, Ask
  <2> QED
    BY <1>8, <1>m, <1>q, <2>1
<1>11. checkpoint'.next = 0
  BY <1>2, <1>4 DEF database
<1>12. ReadSoFar'
  <2>1. Read(opening)'
    BY <1>9, <1>q DEF Read
  <2>2. Len(opening') = k
    BY <1>8, <1>q
  <2> QED
    BY <1>k, <1>m, <1>10, <1>11, <2>1, <2>2 DEF ReadSoFar
<1>13. LedgerTyping'
  BY <1>1, <1>2, <1>10 DEF LedgerTyping, Steps
<1> QED
  BY <1>3, <1>12, <1>13 DEF LedgerInv

\* Bootstrap leaves the books in order.
LEMMA BootstrapKeepsLedger ==
    ASSUME LedgerInv, EscrowInv, Bootstrap
    PROVE  LedgerInv'
<1>1. LedgerTyping /\ BooksInOrder /\ ReadSoFar
  BY DEF LedgerInv
<1>2. /\ pc = "anchored" /\ pc' = "compare"
      /\ checkpoint' = [next |-> Len(anchor) + 1, hash |-> anchor]
      /\ UNCHANGED <<chain, reorgs, failures>>
  BY DEF Bootstrap, Ask, node
<1>3. Read(opening) /\ Len(opening) = Len(Opening) /\ checkpoint.next = 0 /\ books = EmptyBooks
  BY <1>1, <1>2 DEF ReadSoFar, BooksInOrder
<1>r. PICK r : r = books' /\ r = FoldLeft(Opened, EmptyBooks, opening)
  BY <1>3 DEF Bootstrap
<1>4. OpenedOf(r, Followed)
  BY <1>3, <1>r, OpeningKeepsOrder
<1>5. checkpoint'.next # 0
  <2>1. Len(anchor) \in Nat
    BY DEF EscrowInv, EscrowTyping, Branches
  <2> QED
    BY <1>2, <2>1
<1>6. DOMAIN r.events = {} /\ DOMAIN r.settlements = {}
  BY <1>4 DEF OpenedOf, EmptyBooks
<1>7. InOrder(r, Followed) /\ r.ok
  BY <1>4 DEF OpenedOf
<1>8. BooksInOrder'
  <2>1. InOrder(books, Followed)' <=> InOrder(books', Followed)
    BY DEF InOrder, BooksType, HeldOf, Balances, SettlementsCounted, KeysKnown, KeyKnown, Live
  <2> QED
    BY <1>5, <1>6, <1>7, <1>r, <2>1 DEF BooksInOrder, Scanned
<1>9. LedgerTyping'
  BY <1>1, <1>2 DEF LedgerTyping, Steps
<1>10. ReadSoFar'
  BY <1>2 DEF ReadSoFar
<1> QED
  BY <1>8, <1>9, <1>10 DEF LedgerInv

\* However the node answers, its logs make events of the batch.
LEMMA FilterLogsKeepsLedger ==
    ASSUME LedgerInv, EscrowInv, FilterLogs
    PROVE  LedgerInv'
<1>1. LedgerTyping /\ BooksInOrder /\ ReadSoFar
  BY DEF LedgerInv
<1>2. UNCHANGED <<chain, reorgs, failures, database, head>> /\ pc = "headers" /\ pc' = "recheck"
  BY DEF FilterLogs, Ask, node
<1>3. BooksInOrder' /\ LedgerTyping'
  BY <1>1, <1>2, BooksStay DEF LedgerTyping, Steps
<1>4. Confirmed /\ checkpoint.next # 0 /\ checkpoint.next \in Nat
  BY <1>2 DEF EscrowInv, EscrowTyping, StepKnows
<1>h. PICK h \in Hashes : h = chain
  BY <1>1 DEF LedgerTyping
<1>f. PICK first \in Nat \ {0} : first = checkpoint.next
  BY <1>4
<1>l. PICK last \in Int : last = Final
  BY <1>4, BatchTyped
<1>s. PICK S : S = IdsWithin(h, first, last)
  OBVIOUS
<1>a. PICK answer \in Answers : logs' = Correlated(OrderedUnique(answer)).events
  BY DEF FilterLogs
<1>g. PICK g : g = FilteredLogs
  OBVIOUS
<1>5. Lists(g, S)
  BY <1>h, <1>f, <1>l, <1>s, <1>g, LogsAre DEF FilteredLogs
<1>6. Lists(answer, S)
  BY <1>5, <1>g, ReverseLists DEF Answers
<1>7. /\ S \subseteq Ids /\ IsFiniteSet(S) /\ Ordered(S)
      /\ \A id \in S : Followable(id) /\ Len(id.block) \in first .. last
  BY <1>s, IdsWithinAre
<1>i. PICK ids : ids = OrderedUnique(answer)
  OBVIOUS
<1>8. Lists(ids, S)
  BY <1>6, <1>7, <1>i, OrderedUniqueLists DEF Lists
<1>n. PICK n \in Nat : n = Len(ids) /\ DOMAIN ids = 1 .. n
  BY <1>8 DEF Lists
<1>9. \A k \in 1 .. n : ids[k] \in S
  <2>1. ToSet(ids) = S
    BY <1>8 DEF Lists
  <2> QED
    BY <1>n, <2>1 DEF ToSet
<1>10. Correlation(Correlated(ids), ids, n)
  BY <1>7, <1>9, <1>n, CorrelatedIs
<1>e. PICK events : events = logs' /\ events = Correlated(ids).events
  BY <1>a, <1>i
<1>11. events \in Seq(Events) /\ Len(events) = n /\ \A k \in 1 .. n : events[k].id = ids[k]
  BY <1>10, <1>e DEF Correlation, ForLog
<1>12. \A k \in 1 .. Len(events) : Len(events[k].id.block) <= last
  BY <1>7, <1>9, <1>11
<1>13. Final' = last
  BY <1>2, <1>l DEF Final, database
<1>14. ReadSoFar'
  BY <1>2, <1>11, <1>12, <1>13, <1>e DEF ReadSoFar
<1> QED
  BY <1>3, <1>14 DEF LedgerInv

\* A batch applied leaves the books in order.
LEMMA ApplyKeepsLedger ==
    ASSUME LedgerInv, EscrowInv, ApplyChain
    PROVE  LedgerInv'
<1>1. LedgerTyping /\ BooksInOrder /\ ReadSoFar
  BY DEF LedgerInv
<1>2. /\ pc = "recheck" /\ pc' = "idle" /\ opening' = <<>> /\ Outcome.ok
      /\ checkpoint' = [next |-> Final + 1, hash |-> fetched[Final]]
      /\ highest' = Greater(highest, Final)
      /\ UNCHANGED <<chain, reorgs, failures>>
  BY DEF ApplyChain, EndStep, node
<1>3. Confirmed /\ checkpoint.next # 0
  BY <1>2 DEF EscrowInv, StepKnows
<1>f. PICK last \in Nat : last = Final
  BY <1>3, BatchTyped
<1>h. PICK top \in Nat : top = highest'  /\ last <= top /\ highest <= top /\ highest \in Nat
  BY <1>2, <1>f DEF Greater, EscrowInv, EscrowTyping
<1>b. PICK b : b = books /\ InOrder(b, Followed)
  BY <1>1, <1>3 DEF BooksInOrder
<1>e. PICK events \in Seq(Events) : events = logs
  BY <1>1, <1>2 DEF ReadSoFar
<1>n. PICK n \in Nat : n = Len(events)
  OBVIOUS
<1>r. PICK r : r = books' /\ r = Applied(b, events) /\ r.ok
  BY <1>2, <1>b, <1>e DEF ApplyChain, Outcome
<1>4. DOMAIN events = 1 .. n /\ \A i \in 1 .. n : events[i] \in Events
  BY <1>n
<1>5. EventsApplied(b, events, n, r)
  BY <1>4, <1>b, <1>r, AppliedKeepsOrder
<1>6. \A i \in 1 .. n : Len(events[i].id.block) <= last
  BY <1>1, <1>2, <1>e, <1>f, <1>n DEF ReadSoFar
<1>7. \A i \in 1 .. n : events[i].id.block \in Hashes
  BY <1>4 DEF Events, Ids
<1>8. \A i \in 1 .. n : Len(events[i].id.block) <= top
  <2> TAKE i \in 1 .. n
  <2>1. Len(events[i].id.block) \in Nat
    BY <1>7, HashIs
  <2> QED
    BY <1>6, <1>h, <2>1
<1>9. \A id \in DOMAIN b.events \cup DOMAIN b.settlements : Len(id.block) <= top
  <2> TAKE id \in DOMAIN b.events \cup DOMAIN b.settlements
  <2>1. Len(id.block) <= highest
    BY <1>1, <1>b DEF BooksInOrder, Scanned
  <2>2. id \in Ids
    BY <1>b DEF InOrder, BooksType, Table, Rows, Events
  <2>3. Len(id.block) \in Nat
    BY <2>2, HashIs DEF Ids
  <2> QED
    BY <1>h, <2>1, <2>3
<1>10. Scanned(r.events, top) /\ Scanned(r.settlements, top)
  <2>1. \A id \in Those(events, n) \cup Redeemed(events, n) : Len(id.block) <= top
    BY <1>8 DEF Those, Redeemed
  <2> QED
    BY <1>5, <1>9, <2>1 DEF Scanned, EventsApplied
<1>11. checkpoint'.next # 0
  BY <1>2, <1>f
<1>12. BooksInOrder'
  <2>1. InOrder(books, Followed)' <=> InOrder(books', Followed)
    BY DEF InOrder, BooksType, HeldOf, Balances, SettlementsCounted, KeysKnown, KeyKnown, Live
  <2>2. InOrder(r, Followed)
    BY <1>5 DEF EventsApplied
  <2> QED
    BY <1>10, <1>11, <1>h, <1>r, <2>1, <2>2 DEF BooksInOrder, Scanned
<1>13. LedgerTyping'
  BY <1>1, <1>2 DEF LedgerTyping, Steps
<1>14. ReadSoFar'
  BY <1>2 DEF ReadSoFar
<1> QED
  BY <1>12, <1>13, <1>14 DEF LedgerInv

\* A rewind leaves the books in order.
LEMMA RewindKeepsLedger ==
    ASSUME LedgerInv, EscrowInv, Rewind
    PROVE  LedgerInv'
<1>1. LedgerTyping /\ BooksInOrder /\ ReadSoFar
  BY DEF LedgerInv
<1>2. /\ pc = "walk" /\ pc' = "idle" /\ opening' = <<>> /\ books' = Rewound(books, candidate)
      /\ checkpoint' = [next |-> candidate + 1, hash |-> blocks[candidate]]
      /\ UNCHANGED <<chain, reorgs, failures, highest>>
  BY DEF Rewind, EndStep, node
<1>3. checkpoint.next # 0 /\ candidate \in Nat
  <2>1. checkpoint.next # 0 /\ candidate \in DOMAIN blocks
    BY <1>2 DEF EscrowInv, StepKnows
  <2>2. PICK n \in Nat : DOMAIN blocks = n .. Len(checkpoint.hash)
    BY <2>1 DEF EscrowInv, StoredChain, StoredFrom
  <2> QED
    BY <2>1, <2>2
<1>b. PICK b : b = books /\ InOrder(b, Followed) /\ b.ok
  BY <1>1, <1>3 DEF BooksInOrder
<1>r. PICK r : r = books' /\ r = Rewound(b, candidate)
  BY <1>2, <1>b
<1>4. /\ InOrder(r, Followed) /\ r.ok
      /\ OrphanedAll(b.settlements, Above(b.settlements, candidate), r.settlements)
      /\ OrphanedAll(b.events, Above(b.events, candidate), r.events)
  BY <1>b, <1>r, RewoundKeepsOrder
<1>5. DOMAIN r.settlements = DOMAIN b.settlements /\ DOMAIN r.events = DOMAIN b.events
  BY <1>4 DEF OrphanedAll
<1>6. checkpoint'.next # 0
  BY <1>2, <1>3
<1>7. BooksInOrder'
  <2>1. InOrder(books, Followed)' <=> InOrder(books', Followed)
    BY DEF InOrder, BooksType, HeldOf, Balances, SettlementsCounted, KeysKnown, KeyKnown, Live
  <2>2. Scanned(r.events, highest) /\ Scanned(r.settlements, highest)
    BY <1>1, <1>5, <1>b DEF BooksInOrder, Scanned
  <2> QED
    BY <1>2, <1>4, <1>6, <1>r, <2>1, <2>2 DEF BooksInOrder, Scanned
<1>8. LedgerTyping'
  BY <1>1, <1>2 DEF LedgerTyping, Steps
<1>9. ReadSoFar'
  BY <1>2 DEF ReadSoFar
<1> QED
  BY <1>7, <1>8, <1>9 DEF LedgerInv

\* Every step leaves the books in order.
LEMMA LedgerInvNext == LedgerInv /\ EscrowInv /\ [EscrowNext]_escrowVars => LedgerInv'
<1> SUFFICES ASSUME LedgerInv, EscrowInv, [EscrowNext]_escrowVars PROVE LedgerInv'
  OBVIOUS
<1>1. CASE \/ BeginStep \/ ReadAnchor \/ FindOrphaned \/ TryOlder \/ Compare
           \/ \E n \in Batch : FetchHeader(n)
  BY <1>1, ReadsKeepLedger
<1>2. CASE ReadSenderInfo
  BY <1>2, ReadSenderInfoKeepsLedger
<1>3. CASE Bootstrap
  BY <1>3, BootstrapKeepsLedger
<1>4. CASE FilterLogs
  BY <1>4, FilterLogsKeepsLedger
<1>5. CASE ApplyChain
  BY <1>5, ApplyKeepsLedger
<1>6. CASE Rewind
  BY <1>6, RewindKeepsLedger
<1>7. CASE GiveUp \/ Refuse \/ Fail
  <2>1. UNCHANGED <<chain, reorgs, database>> /\ (EndStep("idle") \/ EndStep("stopped"))
    BY <1>7 DEF GiveUp, Refuse, Fail, node
  <2>2. failures' \in 0 .. MaxFailures
    BY <1>7, BoundsAssumption DEF GiveUp, Refuse, Fail, LedgerInv, LedgerTyping
  <2> QED
    BY <2>1, <2>2, EndKeepsLedger
<1>8. CASE \E payload \in Payloads : Mine(payload) \/ \E n \in 0 .. MaxHeight : Reorganise(n, payload)
  <2>1. PICK payload \in Payloads : Mine(payload) \/ \E n \in 0 .. MaxHeight : Reorganise(n, payload)
    BY <1>8
  <2>2. CASE Mine(payload)
    <3>1. 0 \in 0 .. MaxHeight
      BY MaxHeightAssumption
    <3> QED
      BY <2>2, <3>1, ChainStaysLedger
  <2>3. CASE \E n \in 0 .. MaxHeight : Reorganise(n, payload)
    BY <2>3, ChainStaysLedger
  <2> QED
    BY <2>1, <2>2, <2>3
<1>9. CASE UNCHANGED escrowVars
  BY <1>9, ChainKeepsLedger DEF escrowVars, node, LedgerInv, LedgerTyping
<1> QED
  BY <1>1, <1>2, <1>3, <1>4, <1>5, <1>6, <1>7, <1>8, <1>9 DEF EscrowNext, Listener

\* The books and their summaries are in order in every state, whatever was posted,
\* reversed and posted again on the way there.
THEOREM LedgerInvariant == EscrowSpec => []LedgerInv
BY LedgerInvInit, LedgerInvNext, EscrowInvariant, PTL DEF EscrowSpec

\* What is stored is of one branch and of its scanned blocks, and the books never
\* commit a statement that failed.
THEOREM EscrowTypeIsOK == EscrowSpec => []EscrowTypeOK
<1>1. LedgerInv /\ EscrowInv => EscrowTypeOK
  <2> SUFFICES ASSUME LedgerInv, EscrowInv PROVE EscrowTypeOK
    OBVIOUS
  <2>1. LedgerTyping /\ BooksInOrder
    BY DEF LedgerInv
  <2>t. PICK t, u : t = books.events /\ u = books.settlements
    OBVIOUS
  <2>2. Table(t) /\ Table(u)
    <3>1. CASE checkpoint.next = 0
      BY <2>1, <2>t, <3>1, EmptyIsOpened DEF BooksInOrder, OpenedOf, InOrder, BooksType
    <3>2. CASE checkpoint.next # 0
      BY <2>1, <2>t, <3>2 DEF BooksInOrder, InOrder, BooksType
    <3> QED
      BY <3>1, <3>2
  <2>3. Scanned(t, highest) /\ Scanned(u, highest)
    BY <2>1, <2>t DEF BooksInOrder
  <2>4. \A table \in {t, u} : \A id \in DOMAIN table :
           table[id].live \in BOOLEAN /\ table[id].generation \in Nat /\ Len(id.block) <= highest
    BY <2>2, <2>3 DEF Table, Rows, Scanned
  <2>5. checkpoint.next = 0 => books = EmptyBooks /\ blocks = <<>>
    BY <2>1 DEF BooksInOrder
  <2>6. checkpoint.next # 0 =>
          /\ checkpoint.next = Len(checkpoint.hash) + 1
          /\ \E n \in Len(snapshot.hash) .. Len(checkpoint.hash) :
                DOMAIN blocks = n .. Len(checkpoint.hash)
          /\ \A n \in DOMAIN blocks : blocks[n] = Ancestor(checkpoint.hash, n)
    BY DEF EscrowInv, StoredChain, StoredFrom
  <2> QED
    BY <2>1, <2>4, <2>5, <2>6, <2>t DEF EscrowTypeOK, LedgerTyping, Steps, BooksInOrder
<1> QED
  BY <1>1, LedgerInvariant, EscrowInvariant, PTL

\* The summaries are what the rows and the balances add up to.
THEOREM SummariesStayCurrent == EscrowSpec => []SummariesAreCurrent
<1>1. LedgerInv => SummariesAreCurrent
  <2> SUFFICES ASSUME LedgerInv PROVE SummariesAreCurrent
    OBVIOUS
  <2>b. PICK b : b = books
    OBVIOUS
  <2>1. (checkpoint.next = 0 => b = EmptyBooks) /\ (checkpoint.next # 0 => InOrder(b, Followed))
    BY <2>b DEF LedgerInv, BooksInOrder
  <2>2. BooksType(b) /\ SettlementsCounted(b)
    <3>1. CASE checkpoint.next = 0
      BY <2>1, <3>1, EmptyIsOpened DEF OpenedOf, InOrder
    <3>2. CASE checkpoint.next # 0
      BY <2>1, <3>2 DEF InOrder
    <3> QED
      BY <3>1, <3>2
  <2>r. PICK rows : rows = b.settlements /\ Table(rows)
    BY <2>2 DEF BooksType
  <2>s. PICK settled : settled = Live(rows) /\ settled \subseteq DOMAIN rows /\ IsFiniteSet(settled)
    BY <2>r, LiveIsFinite
  <2>f. PICK face : face = [id \in DOMAIN rows |-> rows[id].event.amount]
    OBVIOUS
  <2>p. PICK paid : paid = [id \in DOMAIN rows |-> Paid(rows[id].event)]
    OBVIOUS
  <2>g. PICK faceNow : faceNow = [id \in settled |-> rows[id].event.amount]
    OBVIOUS
  <2>q. PICK paidNow : paidNow = [id \in settled |-> Paid(rows[id].event)]
    OBVIOUS
  <2>3. /\ \A id \in settled : face[id] \in Int /\ paid[id] \in Int
        /\ \A id \in settled : face[id] = faceNow[id] /\ paid[id] = paidNow[id]
    <3> SUFFICES ASSUME NEW id \in settled
                 PROVE  face[id] \in Int /\ paid[id] \in Int /\ face[id] = faceNow[id] /\ paid[id] = paidNow[id]
      OBVIOUS
    <3>e. PICK e \in Events : e = rows[id].event
      BY <2>r, <2>s, LiveIsFinite
    <3>1. e.amount \in Int /\ Paid(e) \in Int
      BY DEF Events, Paid
    <3> QED
      BY <2>s, <2>f, <2>p, <2>g, <2>q, <3>1, <3>e
  <2>4. SumFunctionOnSet(face, settled) = SumFunction(faceNow)
        /\ SumFunctionOnSet(paid, settled) = SumFunction(paidNow)
    <3>1. SumFunction(faceNow) = SumFunctionOnSet(faceNow, settled)
          /\ SumFunction(paidNow) = SumFunctionOnSet(paidNow, settled)
      BY <2>g, <2>q DEF SumFunction
    <3> QED
      BY <2>3, <2>s, <3>1, SumOfSame
  <2>5. {id \in settled : paid[id] < face[id]} = {id \in settled : paidNow[id] < faceNow[id]}
    BY <2>3
  <2>6. /\ b.summary.rows["settled"] = Cardinality(settled)
        /\ b.summary.rows["orphaned"] = Cardinality(DOMAIN rows \ settled)
        /\ b.summary.face = SumFunction(faceNow)
        /\ b.summary.paid = SumFunction(paidNow)
        /\ b.summary.shortfall = b.summary.face - b.summary.paid
        /\ b.summary.underpaid = Cardinality({id \in settled : paidNow[id] < faceNow[id]})
    BY <2>2, <2>4, <2>5, <2>r, <2>s, <2>f, <2>p DEF SettlementsCounted
  <2>7. ASSUME checkpoint.next > 0, NEW c \in Buckets
        PROVE  /\ b.summary.held[c] = SumFunction(Balances(b, c))
               /\ b.summary.unfunded[c] = Cardinality({s \in Followed : Balances(b, c)[s] = 0})
    <3>1. HeldOf(b, Followed)
      BY <2>1, <2>7 DEF InOrder
    <3>2. SumFunction(Balances(b, c)) = SumFunctionOnSet(Balances(b, c), Followed)
      BY DEF SumFunction, Balances
    <3>3. {s \in Followed : Balances(b, c)[s] = 0} = {s \in Followed : b.ledger[s][c] = 0}
      BY DEF Balances
    <3> QED
      BY <3>1, <3>2, <3>3 DEF HeldOf
  <2>8. /\ books.summary.rows.settled = Cardinality(Live(books.settlements))
        /\ books.summary.rows.orphaned = Cardinality(DOMAIN books.settlements \ Live(books.settlements))
        /\ books.summary.face = SumFunction(faceNow)
        /\ books.summary.paid = SumFunction(paidNow)
        /\ books.summary.shortfall = books.summary.face - books.summary.paid
        /\ books.summary.underpaid = Cardinality({id \in Live(books.settlements) : paidNow[id] < faceNow[id]})
    BY <2>6, <2>b, <2>r, <2>s
  <2>9. /\ faceNow = [id \in Live(books.settlements) |-> books.settlements[id].event.amount]
        /\ paidNow = [id \in Live(books.settlements) |-> Paid(books.settlements[id].event)]
    BY <2>b, <2>r, <2>s, <2>g, <2>q
  <2>10. checkpoint.next > 0 =>
            \A c \in Buckets :
               /\ books.summary.held[c] = SumFunction(Balances(books, c))
               /\ books.summary.unfunded[c] = Cardinality({s \in Followed : Balances(books, c)[s] = 0})
    BY <2>7, <2>b
  <2>11. checkpoint.next > 0 =>
            \A c \in Buckets :
               LET balance == [s \in Followed |-> books.ledger[s][c]]
               IN  /\ books.summary.held[c] = SumFunction(balance)
                   /\ books.summary.unfunded[c] = Cardinality({s \in Followed : balance[s] = 0})
    BY <2>10, Zenon DEF Balances
  <2> QED
    BY <2>8, <2>9, <2>11, Zenon DEF SummariesAreCurrent
<1> QED
  BY <1>1, LedgerInvariant, PTL

-----------------------------------------------------------------------------
(***************************************************************************)
(* The canonical events are those of the chain.  What a step has read was  *)
(* on the chain when it was read: it still is, or one of its blocks is     *)
(* known to have left.                                                     *)
(***************************************************************************)
Left(h) == \E k \in 0 .. Len(h) : Ancestor(h, k) \in gone

Stands(h) == On(h, chain) \/ Left(h)

GoneIsOff == gone \subseteq Hashes /\ \A g \in gone : ~On(g, chain)

Headers == {fetched[n] : n \in DOMAIN fetched}

\* What is made of the logs of the branch h in those blocks.
EventsOf(h, first, last) == Correlated(Logs(h, first, last)).events

ReadFromChain ==
    /\ pc \in {"snapshot", "anchored"} => anchor \in Hashes
    /\ \A h \in Headers : h \in Hashes /\ Stands(h)
    /\ pc = "recheck" =>
          \E h \in Headers : /\ h = fetched[Final]
                             /\ Left(h) \/ logs = EventsOf(h, checkpoint.next, Final)

\* The live rows of these books are the logs of the branch h since the block s.
BooksFollow(b, h, s) ==
    /\ h \in Hashes /\ s \in Hashes /\ On(s, h)
    /\ Live(b.events) = Since(h, s)
    /\ Live(b.settlements) = RedemptionsOf(Since(h, s))

BooksFollowChain == checkpoint.next # 0 => BooksFollow(books, checkpoint.hash, snapshot.hash)

CanonicalInv == GoneIsOff /\ ReadFromChain /\ BooksFollowChain

\* Before anything is read, everything read is of the chain.
LEMMA CanonicalInvInit == EscrowInit => CanonicalInv
<1> SUFFICES ASSUME EscrowInit PROVE CanonicalInv
  OBVIOUS
<1>1. gone = {} /\ pc = "idle" /\ fetched = <<>> /\ checkpoint.next = 0
  BY DEF EscrowInit
<1>2. Headers = {}
  BY <1>1, EmptySeq DEF Headers
<1> QED
  BY <1>1, <1>2 DEF CanonicalInv, GoneIsOff, ReadFromChain, BooksFollowChain

\* A branch that has lost a block is not on the chain.
LEMMA LeftIsOff ==
    ASSUME GoneIsOff, LedgerTyping, NEW h \in Hashes, On(h, chain)
    PROVE  ~Left(h)
<1> SUFFICES ASSUME NEW k \in 0 .. Len(h), Ancestor(h, k) \in gone PROVE FALSE
  BY DEF Left
<1>c. PICK c \in Hashes : c = chain
  BY DEF LedgerTyping
<1>1. On(Ancestor(h, k), c)
  BY <1>c, OnIsTransitive
<1> QED
  BY <1>1, <1>c DEF GoneIsOff

\* Books and checkpoints left alone follow the chain as before.
LEMMA BooksFollowStays ==
    ASSUME BooksFollowChain, UNCHANGED <<checkpoint, snapshot, books>>
    PROVE  BooksFollowChain'
BY DEF BooksFollowChain, BooksFollow, Live

\* The end of a step forgets what it read.
LEMMA EndKeepsCanonical ==
    ASSUME BooksFollowChain', NEW next \in {"idle", "stopped"}, EndStep(next)
    PROVE  CanonicalInv'
<1>1. gone' = {} /\ pc' \in {"idle", "stopped"} /\ fetched' = <<>>
  BY DEF EndStep
<1>2. Headers' = {}
  BY <1>1, EmptySeq DEF Headers
<1> QED
  BY <1>1, <1>2 DEF CanonicalInv, GoneIsOff, ReadFromChain

\* While the chain moves, what was read stays read.
LEMMA ChainKeepsCanonical ==
    ASSUME CanonicalInv, UNCHANGED <<database, pc, local>>, GoneIsOff',
           \A h \in Headers : (Left(h) => Left(h)') /\ (Stands(h) => Stands(h)')
    PROVE  CanonicalInv'
<1>1. UNCHANGED <<pc, anchor, fetched, logs, checkpoint, snapshot, books, head>>
  BY DEF database, local
<1>2. BooksFollowChain'
  BY <1>1, BooksFollowStays DEF CanonicalInv
<1>3. Final' = Final /\ Headers' = Headers
  BY <1>1 DEF Final, Headers
<1>4. ReadFromChain'
  BY <1>1, <1>3 DEF CanonicalInv, ReadFromChain
<1> QED
  BY <1>2, <1>4 DEF CanonicalInv

\* A step that has read nothing yet has nothing to answer for.
LEMMA NothingReadKeepsCanonical ==
    ASSUME CanonicalInv, UNCHANGED <<checkpoint, snapshot, books, chain, gone>>, Headers' = {},
           pc' # "recheck", pc' \in {"snapshot", "anchored"} => anchor' \in Hashes
    PROVE  CanonicalInv'
<1>1. BooksFollowChain'
  BY BooksFollowStays DEF CanonicalInv
<1>2. GoneIsOff'
  BY DEF CanonicalInv, GoneIsOff
<1> QED
  BY <1>1, <1>2 DEF CanonicalInv, ReadFromChain

\* While a Step runs, a block on the chain stays on it or is known to have left it.
LEMMA StandingStays ==
    ASSUME GoneIsOff, LedgerInv, NEW payload \in Payloads, NEW n \in 0 .. MaxHeight,
           Mine(payload) \/ Reorganise(n, payload), pc \notin {"idle", "stopped"}, NEW h \in Hashes
    PROVE  (Left(h) => Left(h)') /\ (Stands(h) => Stands(h)')
<1>c. PICK c \in Hashes : c = chain
  BY DEF LedgerInv, LedgerTyping
<1>t. LedgerTyping'
  BY ChainStaysLedger DEF LedgerInv
<1>d. PICK d \in Hashes : d = chain'
  BY <1>t DEF LedgerTyping
<1>1. CASE Mine(payload)
  <2>1. d = Append(c, payload) /\ gone' = gone
    BY <1>1, <1>c, <1>d DEF Mine
  <2>2. Left(h) => Left(h)'
    BY <2>1 DEF Left
  <2>3. On(h, c) => On(h, d)
    BY <2>1, OnLonger
  <2> QED
    BY <1>c, <1>d, <2>2, <2>3 DEF Stands
<1>2. CASE Reorganise(n, payload)
  <2>x. PICK x : x = Ancestor(c, n + 1)
    OBVIOUS
  <2>1. /\ d = Append(Ancestor(c, n), payload) /\ n < Len(c) /\ payload # c[n + 1]
        /\ gone' = gone \cup {x}
    BY <1>2, <1>c, <1>d, <2>x DEF Reorganise
  <2>2. n \in Nat
    OBVIOUS
  <2>3. Turned(c, d, n, x, h)
    <3>1. Turns(c, d, n, payload, x)
      BY <2>1, <2>x DEF Turns
    <3> QED
      BY <2>2, <3>1, OnTurned
  <2>4. Left(h) => Left(h)'
    BY <2>1 DEF Left
  <2>5. ASSUME n + 1 <= Len(h), Ancestor(h, n + 1) = x PROVE Left(h)'
    <3>1. n + 1 \in 0 .. Len(h)
      BY <2>5, HashIs
    <3> QED
      BY <2>1, <2>5, <3>1 DEF Left
  <2>6. On(h, c) => On(h, d) \/ Left(h)'
    BY <2>3, <2>5 DEF Turned
  <2> QED
    BY <1>c, <1>d, <2>4, <2>6 DEF Stands
<1> QED
  BY <1>1, <1>2

\* When the chain turns, what was read is of it still, or a block of it is
\* known to have left.
LEMMA ChainStaysCanonical ==
    ASSUME CanonicalInv, LedgerInv, EscrowInv, NEW payload \in Payloads, NEW n \in 0 .. MaxHeight,
           Mine(payload) \/ Reorganise(n, payload)
    PROVE  CanonicalInv'
<1>c. PICK c \in Hashes : c = chain
  BY DEF LedgerInv, LedgerTyping
<1>t. LedgerTyping'
  BY ChainStaysLedger DEF LedgerInv
<1>d. PICK d \in Hashes : d = chain'
  BY <1>t DEF LedgerTyping
<1>u. UNCHANGED <<database, pc, local>>
  BY DEF Mine, Reorganise
<1>g. GoneIsOff /\ ReadFromChain
  BY DEF CanonicalInv
<1>s. \A h \in Headers : (Left(h) => Left(h)') /\ (Stands(h) => Stands(h)')
  <2> SUFFICES ASSUME NEW h \in Headers PROVE (Left(h) => Left(h)') /\ (Stands(h) => Stands(h)')
    OBVIOUS
  <2>1. h \in Hashes
    BY <1>g DEF ReadFromChain
  <2>2. pc \notin {"idle", "stopped"}
    BY DEF EscrowInv, StepKnows, Headers
  <2> QED
    BY <1>g, <2>1, <2>2, StandingStays
<1>1. CASE Mine(payload)
  <2>1. d = Append(c, payload) /\ d \notin gone /\ gone' = gone
    BY <1>1, <1>c, <1>d DEF Mine
  <2>2. GoneIsOff'
    <3> SUFFICES ASSUME NEW g \in gone, On(g, d) PROVE FALSE
      BY <1>d, <1>g, <2>1 DEF GoneIsOff
    <3>1. g \in Hashes /\ ~On(g, c)
      BY <1>c, <1>g DEF GoneIsOff
    <3>2. On(g, c) \/ g = d
      BY <2>1, <3>1, OnLonger
    <3> QED
      BY <2>1, <3>1, <3>2
  <2> QED
    BY <1>u, <1>s, <2>2, ChainKeepsCanonical
<1>2. CASE Reorganise(n, payload)
  <2>x. PICK x : x = Ancestor(c, n + 1)
    OBVIOUS
  <2>1. /\ d = Append(Ancestor(c, n), payload) /\ d \notin gone /\ n < Len(c) /\ payload # c[n + 1]
        /\ gone' = IF pc \in {"idle", "stopped"} THEN {} ELSE gone \cup {x}
    BY <1>2, <1>c, <1>d, <2>x DEF Reorganise
  <2>2. \A h \in Hashes : Turned(c, d, n, x, h)
    <3>1. n \in Nat /\ Turns(c, d, n, payload, x)
      BY <2>1, <2>x DEF Turns
    <3> QED
      BY <3>1, OnTurned
  <2>3. GoneIsOff'
    <3>1. ASSUME NEW g \in gone PROVE g \in Hashes /\ ~On(g, d)
      <4>1. g \in Hashes /\ ~On(g, c)
        BY <1>c, <1>g DEF GoneIsOff
      <4> QED
        BY <2>1, <2>2, <4>1 DEF Turned
    <3>2. x \in Hashes /\ ~On(x, d)
      BY <1>c, <2>2 DEF Turned
    <3>3. \A g \in gone' : g \in gone \/ g = x
      BY <2>1
    <3> QED
      BY <1>d, <3>1, <3>2, <3>3 DEF GoneIsOff
  <2> QED
    BY <1>u, <1>s, <2>3, ChainKeepsCanonical
<1> QED
  BY <1>1, <1>2

\* What the listener reads outside a batch keeps the invariant.
LEMMA ReadsKeepCanonical ==
    ASSUME CanonicalInv, LedgerInv, EscrowInv,
           BeginStep \/ ReadAnchor \/ ReadSenderInfo \/ FindOrphaned \/ TryOlder \/ Compare
    PROVE  CanonicalInv'
<1>h. pc \notin {"headers", "recheck"} => Headers = {}
  BY DEF EscrowInv, StepKnows, Headers
<1>1. CASE BeginStep \/ FindOrphaned \/ TryOlder
  <2>1. UNCHANGED <<checkpoint, snapshot, books, chain, gone, fetched>>
    BY <1>1 DEF BeginStep, FindOrphaned, TryOlder, Ask, node, database
  <2>2. pc \in {"idle", "compare", "walk"} /\ pc' \notin {"snapshot", "anchored", "recheck"}
    BY <1>1 DEF BeginStep, FindOrphaned, TryOlder, Ask
  <2>3. Headers' = {}
    BY <1>h, <2>1, <2>2 DEF Headers
  <2> QED
    BY <2>1, <2>2, <2>3, NothingReadKeepsCanonical
<1>2. CASE ReadAnchor
  <2>1. UNCHANGED <<checkpoint, snapshot, books, chain, gone, fetched>>
        /\ pc = "anchor" /\ pc' = "snapshot"
    BY <1>2 DEF ReadAnchor, Ask, node, database
  <2>2. Headers' = {}
    BY <1>h, <2>1 DEF Headers
  <2>3. anchor' \in Hashes
    <3>c. PICK c \in Hashes : c = chain
      BY DEF LedgerInv, LedgerTyping
    <3>n. PICK n \in Int : n = First - 1 /\ n <= Len(c) /\ anchor' = Ancestor(c, n)
      BY <1>2, <3>c, ConfigAssumption DEF ReadAnchor, First, EscrowInv, EscrowTyping
    <3>1. CASE n \in 0 .. Len(c)
      BY <3>1, <3>n, AncestorIs
    <3>2. CASE n < 0
      <4>1. <<>> \in Hashes
        <5>1. <<>> \in [1 .. 0 -> Payloads]
          BY EmptySeq
        <5> QED
          BY <5>1, MaxHeightAssumption DEF Hashes
      <4>2. Ancestor(c, n) = <<>>
        BY <3>2, SubSeqProperties, HashIs, EmptySeq DEF Ancestor
      <4> QED
        BY <3>n, <4>1, <4>2
    <3>3. Len(c) \in Nat
      BY HashIs
    <3> QED
      BY <3>1, <3>2, <3>3, <3>n
  <2> QED
    BY <2>1, <2>2, <2>3, NothingReadKeepsCanonical
<1>3. CASE ReadSenderInfo
  <2>1. UNCHANGED <<checkpoint, snapshot, books, chain, gone, fetched, anchor>>
        /\ pc = "snapshot" /\ pc' # "recheck"
    BY <1>3 DEF ReadSenderInfo, Ask, node, database
  <2>2. Headers' = {}
    BY <1>h, <2>1 DEF Headers
  <2>3. anchor' \in Hashes
    BY <2>1 DEF CanonicalInv, ReadFromChain
  <2> QED
    BY <2>1, <2>2, <2>3, NothingReadKeepsCanonical
<1>4. CASE Compare
  <2>1. UNCHANGED <<checkpoint, snapshot, books, chain>> /\ pc = "compare"
    BY <1>4 DEF Compare, node, database
  <2>2. CASE Confirmed
    <3>1. pc' = "headers" /\ UNCHANGED <<gone, fetched>>
      BY <1>4, <2>2 DEF Compare, local
    <3>2. Headers' = {}
      BY <1>h, <2>1, <3>1 DEF Headers
    <3> QED
      BY <2>1, <3>1, <3>2, NothingReadKeepsCanonical
  <2>3. CASE ~Confirmed
    <3>1. EndStep("idle")
      BY <1>4, <2>3 DEF Compare
    <3>2. BooksFollowChain'
      BY <2>1, BooksFollowStays DEF CanonicalInv
    <3> QED
      BY <3>1, <3>2, EndKeepsCanonical
  <2> QED
    BY <2>2, <2>3
<1> QED
  BY <1>1, <1>2, <1>3, <1>4

\* A header read is of the chain as it is.
LEMMA FetchHeaderKeepsCanonical ==
    ASSUME CanonicalInv, LedgerInv, EscrowInv, NEW n \in Batch, FetchHeader(n)
    PROVE  CanonicalInv'
<1>1. /\ UNCHANGED <<checkpoint, snapshot, books, chain, gone, anchor>>
      /\ pc = "headers" /\ pc' = "headers" /\ n <= Len(chain)
      /\ fetched' = [m \in DOMAIN fetched \cup {n} |-> IF m = n THEN Ancestor(chain, n) ELSE fetched[m]]
  BY DEF FetchHeader, Ask, node, database
<1>2. BooksFollowChain' /\ GoneIsOff'
  BY <1>1, BooksFollowStays DEF CanonicalInv, GoneIsOff
<1>c. PICK c \in Hashes : c = chain
  BY DEF LedgerInv, LedgerTyping
<1>3. n \in Nat
  BY <1>1, BatchTyped DEF EscrowInv, StepKnows
<1>4. n \in 0 .. Len(c)
  BY <1>1, <1>3, <1>c, HashIs
<1>h. PICK h \in Hashes : h = Ancestor(c, n) /\ On(h, c)
  BY <1>4, AncestorIs, AncestorIsOn
<1>5. Headers' \subseteq Headers \cup {h}
  <2>1. DOMAIN fetched' = DOMAIN fetched \cup {n}
        /\ \A m \in DOMAIN fetched \cup {n} : fetched'[m] = IF m = n THEN h ELSE fetched[m]
    BY <1>1, <1>c, <1>h
  <2> SUFFICES ASSUME NEW m \in DOMAIN fetched' PROVE fetched'[m] \in Headers \cup {h}
    BY DEF Headers
  <2> QED
    BY <2>1 DEF Headers
<1>6. \A g \in Headers \cup {h} : g \in Hashes /\ Stands(g)'
  <2>1. \A g \in Headers : g \in Hashes /\ Stands(g)
    BY DEF CanonicalInv, ReadFromChain
  <2>2. \A g : Stands(g)' <=> Stands(g)
    BY <1>1 DEF Stands, Left
  <2> QED
    BY <1>c, <1>h, <2>1, <2>2 DEF Stands
<1>7. ReadFromChain'
  BY <1>1, <1>5, <1>6 DEF ReadFromChain
<1> QED
  BY <1>2, <1>7 DEF CanonicalInv

\* Logs read are of the chain as it is.
LEMMA FilterLogsKeepsCanonical ==
    ASSUME CanonicalInv, LedgerInv, EscrowInv, FilterLogs
    PROVE  CanonicalInv'
<1>1. UNCHANGED <<checkpoint, snapshot, books, chain, gone, anchor, fetched, head>>
      /\ pc = "headers" /\ pc' = "recheck" /\ Batch \subseteq DOMAIN fetched
  BY DEF FilterLogs, Ask, node, database
<1>2. BooksFollowChain' /\ GoneIsOff'
  BY <1>1, BooksFollowStays DEF CanonicalInv, GoneIsOff
<1>3. Final' = Final /\ Headers' = Headers
  BY <1>1 DEF Final, Headers
<1>c. PICK c \in Hashes : c = chain
  BY DEF LedgerInv, LedgerTyping
<1>4. Confirmed /\ checkpoint.next # 0 /\ checkpoint.next \in Nat
  BY <1>1 DEF EscrowInv, EscrowTyping, StepKnows
<1>f. PICK first \in Nat \ {0} : first = checkpoint.next
  BY <1>4
<1>l. PICK last \in Nat : last = Final /\ first <= last
  BY <1>4, <1>f, BatchTyped
<1>5. last \in DOMAIN fetched
  BY <1>1, <1>f, <1>l DEF Batch
<1>h. PICK h \in Headers : h = fetched[last]
  BY <1>5 DEF Headers
<1>6. h \in Hashes /\ Stands(h) /\ Len(h) = last
  BY <1>h, <1>5 DEF CanonicalInv, ReadFromChain, EscrowInv, StepKnows
<1>7. ASSUME On(h, c) PROVE logs' = EventsOf(h, first, last)
  <2>a. PICK answer \in Answers : logs' = Correlated(OrderedUnique(answer)).events
    BY DEF FilterLogs
  <2>i. PICK i \in Int : i = last
    OBVIOUS
  <2>g. PICK g : g = Logs(c, first, i)
    OBVIOUS
  <2>s. PICK S : Lists(g, S)
    BY <2>g, LogsAre
  <2>1. g = FilteredLogs
    BY <1>c, <1>f, <1>l, <2>g, <2>i DEF FilteredLogs
  <2>2. Lists(answer, S)
    BY <2>1, <2>s, ReverseLists DEF Answers
  <2>3. ToSet(answer) = ToSet(g)
    BY <2>2, <2>s DEF Lists
  <2>4. OrderedUnique(answer) = g
    BY <2>3, <2>g, AnswersAreOrdered
  <2>5. Logs(c, first, last) = Logs(h, first, last)
    BY <1>6, <1>7, LogsOfAncestor
  <2> QED
    BY <2>4, <2>5, <2>a, <2>g, <2>i DEF EventsOf
<1>8. ReadFromChain'
  <2>1. \A g : Stands(g)' <=> Stands(g)
    BY <1>1 DEF Stands, Left
  <2>2. \A g : Left(g)' <=> Left(g)
    BY <1>1 DEF Left
  <2>3. Left(h)' \/ logs' = EventsOf(h, first, last)
    BY <1>6, <1>7, <1>c, <2>2 DEF Stands
  <2>4. \A g \in Headers' : g \in Hashes /\ Stands(g)'
    BY <1>3, <2>1 DEF CanonicalInv, ReadFromChain
  <2>5. \E g \in Headers' : /\ g = fetched'[Final']
                            /\ Left(g)' \/ logs' = EventsOf(g, checkpoint'.next, Final')
    BY <1>1, <1>3, <1>f, <1>h, <1>l, <2>3
  <2> QED
    BY <1>1, <2>4, <2>5 DEF ReadFromChain
<1> QED
  BY <1>2, <1>8 DEF CanonicalInv

\* What is made of the logs of a branch has all of them, and nothing else.
LEMMA EventsOfBranch ==
    ASSUME NEW h \in Hashes, NEW first \in Nat \ {0}, NEW last \in Nat,
           NEW events, events = EventsOf(h, first, last), NEW n, n = Len(events),
           NEW S, S = IdsWithin(h, first, last)
    PROVE  /\ events \in Seq(Events)
           /\ Those(events, n) = S /\ Redeemed(events, n) = RedemptionsOf(S)
<1>l. PICK list : list = Logs(h, first, last)
  OBVIOUS
<1>i. PICK i \in Int : i = last
  OBVIOUS
<1>1. Lists(list, S)
  BY <1>i, <1>l, LogsAre
<1>m. PICK m \in Nat : m = Len(list) /\ DOMAIN list = 1 .. m
  BY <1>1 DEF Lists
<1>2. \A id \in S : Followable(id)
  BY <1>i, IdsWithinAre
<1>3. S = {list[k] : k \in 1 .. m}
  BY <1>1, <1>m, ToSetOfSeq DEF Lists
<1>4. Correlation(Correlated(list), list, m)
  <2>1. \A k \in 1 .. m : Followable(list[k])
    BY <1>2, <1>3
  <2> QED
    BY <1>m, <2>1, CorrelatedIs
<1>5. events \in Seq(Events) /\ n = m /\ \A k \in 1 .. m : events[k].id = list[k] /\ events[k].kind = LogOf(list[k]).kind
  BY <1>4, <1>l DEF Correlation, ForLog, EventsOf
<1>6. Those(events, n) = S
  BY <1>3, <1>5 DEF Those
<1>7. Redeemed(events, n) = RedemptionsOf(S)
  <2>1. ASSUME NEW id \in Redeemed(events, n) PROVE id \in RedemptionsOf(S)
    <3>1. PICK k \in 1 .. m : id = list[k] /\ events[k].kind = "winning_ticket_redeemed"
      BY <1>5, <2>1 DEF Redeemed
    <3> QED
      BY <1>3, <1>5, <3>1 DEF RedemptionsOf
  <2>2. ASSUME NEW id \in RedemptionsOf(S) PROVE id \in Redeemed(events, n)
    <3>1. id \in S /\ LogOf(id).kind = "winning_ticket_redeemed"
      BY <2>2 DEF RedemptionsOf
    <3>2. PICK k \in 1 .. m : id = list[k]
      BY <1>3, <3>1
    <3>3. k \in {j \in 1 .. n : events[j].kind = "winning_ticket_redeemed"} /\ events[k].id = id
      BY <1>5, <3>1, <3>2
    <3> QED
      BY <3>3 DEF Redeemed
  <2> QED
    BY <2>1, <2>2
<1> QED
  BY <1>5, <1>6, <1>7

\* The redemptions among two sets of logs are those among each.
LEMMA RedemptionsJoined ==
    ASSUME NEW S, NEW T
    PROVE  RedemptionsOf(S \cup T) = RedemptionsOf(S) \cup RedemptionsOf(T)
BY DEF RedemptionsOf

\* Bootstrap leaves the books at a block that was on the chain.
LEMMA BootstrapKeepsCanonical ==
    ASSUME CanonicalInv, LedgerInv, EscrowInv, Bootstrap
    PROVE  CanonicalInv'
<1>1. /\ pc = "anchored" /\ pc' = "compare"
      /\ checkpoint' = [next |-> Len(anchor) + 1, hash |-> anchor]
      /\ snapshot' = [hash |-> anchor, splits |-> opening]
      /\ UNCHANGED <<chain, gone, fetched>>
  BY DEF Bootstrap, Ask, node, local
<1>a. PICK h \in Hashes : h = anchor
  BY <1>1 DEF CanonicalInv, ReadFromChain
<1>2. Read(opening) /\ Len(opening) = Len(Opening) /\ books = EmptyBooks
  BY <1>1 DEF LedgerInv, ReadSoFar, BooksInOrder
<1>r. PICK r : r = books' /\ r = FoldLeft(Opened, EmptyBooks, opening)
  BY <1>2 DEF Bootstrap
<1>3. OpenedOf(r, Followed)
  BY <1>2, <1>r, OpeningKeepsOrder
<1>4. Live(r.events) = {} /\ Live(r.settlements) = {}
  BY <1>3 DEF OpenedOf, EmptyBooks, Live
<1>5. BooksFollow(r, h, h)
  <2>1. Since(h, h) = {} /\ On(h, h)
    BY SinceItself, OnItself
  <2> QED
    BY <1>4, <2>1 DEF BooksFollow, RedemptionsOf
<1>6. BooksFollowChain'
  BY <1>1, <1>5, <1>a, <1>r DEF BooksFollowChain, BooksFollow, Live
<1>7. GoneIsOff'
  BY <1>1 DEF CanonicalInv, GoneIsOff
<1>8. Headers' = {}
  BY <1>1 DEF EscrowInv, StepKnows, Headers
<1> QED
  BY <1>1, <1>6, <1>7, <1>8 DEF CanonicalInv, ReadFromChain

\* A rewind leaves the books at an ancestor that was on the chain.
LEMMA RewindKeepsCanonical ==
    ASSUME CanonicalInv, LedgerInv, EscrowInv, Rewind
    PROVE  CanonicalInv'
<1>1. /\ pc = "walk" /\ EndStep("idle") /\ books' = Rewound(books, candidate)
      /\ checkpoint' = [next |-> candidate + 1, hash |-> blocks[candidate]]
      /\ snapshot' = snapshot /\ candidate >= Len(snapshot.hash)
  BY DEF Rewind
<1>b. PICK b : b = books /\ InOrder(b, Followed) /\ b.ok /\ BooksFollow(b, checkpoint.hash, snapshot.hash)
  BY <1>1 DEF CanonicalInv, BooksFollowChain, LedgerInv, BooksInOrder, EscrowInv, StepKnows
<1>h. PICK h \in Hashes : h = checkpoint.hash
  BY <1>b DEF BooksFollow
<1>s. PICK s \in Hashes : s = snapshot.hash /\ On(s, h) /\ BooksFollow(b, h, s)
  BY <1>b, <1>h DEF BooksFollow
<1>2. candidate \in DOMAIN blocks /\ blocks[candidate] = Ancestor(checkpoint.hash, candidate)
  BY <1>1 DEF EscrowInv, StepKnows, StoredChain
<1>m. PICK m \in 0 .. Len(h) : m = candidate /\ Len(s) <= m
  <2>1. PICK n \in Nat : DOMAIN blocks = n .. Len(h)
    BY <1>1, <1>h DEF EscrowInv, StepKnows, StoredChain, StoredFrom
  <2> QED
    BY <1>1, <1>2, <1>s, <2>1, HashIs
<1>g. PICK g \in Hashes : g = Ancestor(h, m) /\ Len(g) = m /\ On(g, h)
  BY AncestorIs, AncestorIsOn
<1>3. On(s, g)
  <2>k. PICK k \in 0 .. m : k = Len(s) /\ s = Ancestor(h, k)
    BY <1>m, <1>s, HashIs DEF On
  <2>1. Ancestor(g, k) = Ancestor(h, k)
    BY <1>g, OnIsTransitive
  <2> QED
    BY <1>g, <2>1, <2>k DEF On
<1>r. PICK r : r = books' /\ r = Rewound(b, m)
  BY <1>1, <1>b, <1>m
<1>4. /\ OrphanedAll(b.settlements, Above(b.settlements, m), r.settlements)
      /\ OrphanedAll(b.events, Above(b.events, m), r.events)
  BY <1>b, <1>r, RewoundKeepsOrder
<1>5. Since(g, s) = {id \in Since(h, s) : Len(id.block) <= m}
  BY <1>3, <1>g, SinceAncestor
<1>6. \A id \in Since(h, s) : Len(id.block) \in Nat
  <2>f. PICK first \in Nat \ {0} : first = Len(s) + 1
    BY HashIs
  <2>l. PICK last \in Int : last = Len(h)
    BY HashIs
  <2>1. Since(h, s) \subseteq Ids
    BY <2>f, <2>l, IdsWithinAre DEF Since
  <2> QED
    BY <2>1, HashIs DEF Ids
<1>7. ASSUME NEW id \in Since(h, s) PROVE ~(Len(id.block) > m) <=> Len(id.block) <= m
  BY <1>6, <1>m
<1>8. Live(b.events) = Since(h, s) /\ Live(b.settlements) = RedemptionsOf(Since(h, s))
  BY <1>s DEF BooksFollow
<1>9. Live(r.events) = Since(g, s)
  BY <1>4, <1>5, <1>7, <1>8 DEF OrphanedAll, Above
<1>10. Live(r.settlements) = RedemptionsOf(Since(g, s))
  <2>1. Live(r.settlements) = {id \in RedemptionsOf(Since(h, s)) : ~(Len(id.block) > m)}
    BY <1>4, <1>8 DEF OrphanedAll, Above
  <2>2. \A id \in RedemptionsOf(Since(h, s)) : id \in Since(h, s)
    BY DEF RedemptionsOf
  <2>3. Live(r.settlements) = {id \in RedemptionsOf(Since(h, s)) : Len(id.block) <= m}
    BY <1>7, <2>1, <2>2
  <2> QED
    BY <1>5, <2>3 DEF RedemptionsOf
<1>11. BooksFollow(r, g, s)
  BY <1>3, <1>9, <1>10 DEF BooksFollow
<1>12. BooksFollowChain'
  BY <1>1, <1>2, <1>11, <1>g, <1>h, <1>m, <1>r, <1>s DEF BooksFollowChain, BooksFollow, Live
<1> QED
  BY <1>1, <1>12, EndKeepsCanonical

\* The header that is verified was read on this chain, so its logs were its own.
LEMMA VerifiedLogs ==
    ASSUME CanonicalInv, LedgerInv, EscrowInv, pc = "recheck", Verified
    PROVE  \E h \in Hashes : \E first \in Nat \ {0} : \E last \in Nat :
              /\ h = fetched[Final] /\ On(checkpoint.hash, h)
              /\ checkpoint.hash \in Hashes
              /\ first = Len(checkpoint.hash) + 1 /\ last = Len(h) /\ last = Final
              /\ logs = EventsOf(h, first, last)
<1>1. StepKnows /\ StoredChain /\ EscrowTyping /\ checkpoint.next # 0 /\ Confirmed
  BY DEF EscrowInv, StepKnows
<1>g. PICK g \in Hashes : g = checkpoint.hash
  BY <1>1 DEF CanonicalInv, BooksFollowChain, BooksFollow
<1>f. PICK first \in Nat \ {0} : first = Len(g) + 1 /\ first = checkpoint.next
  BY <1>1, <1>g DEF EscrowTyping, StoredChain
<1>l. PICK last \in Nat : last = Final /\ first <= last
  BY <1>1, <1>f, BatchTyped
<1>h. PICK h \in Headers : h = fetched[last] /\ (Left(h) \/ logs = EventsOf(h, first, last))
  BY <1>f, <1>l DEF CanonicalInv, ReadFromChain
<1>2. h \in Hashes
  BY DEF CanonicalInv, ReadFromChain
<1>3. DOMAIN fetched = first .. last
  BY <1>1, <1>f, <1>l DEF StepKnows, Batch
<1>4. Len(h) = last
  BY <1>1, <1>3, <1>h, <1>l DEF StepKnows
<1>5. On(h, chain)
  BY <1>h, <1>l DEF Verified, OnChain, On
<1>6. ~Left(h)
  BY <1>2, <1>5, LeftIsOff DEF CanonicalInv, LedgerInv
<1>7. On(g, h)
  <2>1. \A n \in first .. last : fetched[n] \in Branches /\ Len(fetched[n]) = n
    BY <1>1, <1>3 DEF StepKnows
  <2>2. \A n \in first .. last : Front(fetched[n]) = IF n = first THEN g ELSE fetched[n - 1]
    BY <1>1, <1>f, <1>g, <1>l DEF StepKnows, Linked, Batch
  <2>3. g \in Branches /\ Len(g) = first - 1 /\ Len(g) \in Nat
    BY <1>f, HashesAreBranches
  <2>4. \A n \in 0 .. first - 1 : Ancestor(g, n) = Ancestor(fetched[last], n)
    BY <1>l, <2>1, <2>2, <2>3, LinkedIsBranch
  <2>5. Ancestor(g, Len(g)) = g
    BY <2>3, AncestorOfItself
  <2>6. Len(g) \in 0 .. first - 1 /\ Len(g) <= last
    BY <1>l, <2>3
  <2> QED
    BY <1>4, <1>h, <2>4, <2>5, <2>6 DEF On
<1> QED
  BY <1>2, <1>4, <1>6, <1>7, <1>f, <1>g, <1>h, <1>l

\* A batch applied leaves the books with the logs of the branch it was read
\* from.
LEMMA ApplyKeepsCanonical ==
    ASSUME CanonicalInv, LedgerInv, EscrowInv, ApplyChain
    PROVE  CanonicalInv'
<1>1. /\ pc = "recheck" /\ Verified /\ EndStep("idle") /\ books' = Applied(books, logs)
      /\ checkpoint' = [next |-> Final + 1, hash |-> fetched[Final]]
      /\ snapshot' = snapshot
  BY DEF ApplyChain, Outcome
<1>b. PICK b : b = books /\ InOrder(b, Followed) /\ BooksFollow(b, checkpoint.hash, snapshot.hash)
  BY <1>1 DEF CanonicalInv, BooksFollowChain, LedgerInv, BooksInOrder, EscrowInv, StepKnows
<1>g. PICK g \in Hashes : g = checkpoint.hash
  BY <1>b DEF BooksFollow
<1>s. PICK s \in Hashes : s = snapshot.hash /\ On(s, g) /\ BooksFollow(b, g, s)
  BY <1>b, <1>g DEF BooksFollow
<1>v. \E h \in Hashes : \E first \in Nat \ {0} : \E last \in Nat :
         /\ h = fetched[Final] /\ On(g, h)
         /\ first = Len(g) + 1 /\ last = Len(h) /\ last = Final
         /\ logs = EventsOf(h, first, last)
  BY <1>1, <1>g, VerifiedLogs
<1>h. PICK h \in Hashes : \E first \in Nat \ {0} : \E last \in Nat :
         /\ h = fetched[Final] /\ On(g, h)
         /\ first = Len(g) + 1 /\ last = Len(h) /\ last = Final
         /\ logs = EventsOf(h, first, last)
  BY <1>v
<1>f. PICK first \in Nat \ {0} : \E last \in Nat :
         /\ h = fetched[Final] /\ On(g, h)
         /\ first = Len(g) + 1 /\ last = Len(h) /\ last = Final
         /\ logs = EventsOf(h, first, last)
  BY <1>h
<1>l. PICK last \in Nat :
         /\ h = fetched[Final] /\ On(g, h)
         /\ first = Len(g) + 1 /\ last = Len(h) /\ last = Final
         /\ logs = EventsOf(h, first, last)
  BY <1>f
<1>e. PICK events : events = logs /\ events = EventsOf(h, first, last)
  BY <1>l
<1>n. PICK n : n = Len(events)
  OBVIOUS
<1>S. PICK S : S = Since(h, g)
  OBVIOUS
<1>2. S = IdsWithin(h, first, last)
  BY <1>S, <1>l DEF Since
<1>3. events \in Seq(Events) /\ Those(events, n) = S /\ Redeemed(events, n) = RedemptionsOf(S)
  BY <1>2, <1>e, <1>n, EventsOfBranch
<1>r. PICK r : r = books' /\ r = Applied(b, events)
  BY <1>1, <1>b, <1>e
<1>4. n \in Nat /\ DOMAIN events = 1 .. n /\ \A i \in 1 .. n : events[i] \in Events
  BY <1>3, <1>n
<1>5. EventsApplied(b, events, n, r)
  BY <1>4, <1>b, <1>r, AppliedKeepsOrder
<1>6. Since(h, s) = Since(g, s) \cup S /\ On(s, h)
  <2>1. On(g, h)
    BY <1>l
  <2> QED
    BY <1>S, <1>s, <2>1, SinceJoined, SinceAncestor
<1>7. BooksFollow(r, h, s)
  <2>1. Live(b.events) = Since(g, s) /\ Live(b.settlements) = RedemptionsOf(Since(g, s))
    BY <1>s DEF BooksFollow
  <2>2. RedemptionsOf(Since(h, s)) = RedemptionsOf(Since(g, s)) \cup RedemptionsOf(S)
    BY <1>6, RedemptionsJoined
  <2> QED
    BY <1>3, <1>5, <1>6, <2>1, <2>2 DEF BooksFollow, EventsApplied
<1>8. BooksFollowChain'
  BY <1>1, <1>7, <1>l, <1>r, <1>s DEF BooksFollowChain, BooksFollow, Live
<1> QED
  BY <1>1, <1>8, EndKeepsCanonical

\* Every step keeps what was read, and the books, of the chain.
LEMMA CanonicalInvNext ==
    CanonicalInv /\ LedgerInv /\ EscrowInv /\ [EscrowNext]_escrowVars => CanonicalInv'
<1> SUFFICES ASSUME CanonicalInv, LedgerInv, EscrowInv, [EscrowNext]_escrowVars PROVE CanonicalInv'
  OBVIOUS
<1>1. CASE BeginStep \/ ReadAnchor \/ ReadSenderInfo \/ FindOrphaned \/ TryOlder \/ Compare
  BY <1>1, ReadsKeepCanonical
<1>2. CASE Bootstrap
  BY <1>2, BootstrapKeepsCanonical
<1>3. CASE GiveUp \/ Refuse \/ Fail
  <2>1. UNCHANGED <<checkpoint, snapshot, books>> /\ (EndStep("idle") \/ EndStep("stopped"))
    BY <1>3 DEF GiveUp, Refuse, Fail, database
  <2>2. BooksFollowChain'
    BY <2>1, BooksFollowStays DEF CanonicalInv
  <2> QED
    BY <2>1, <2>2, EndKeepsCanonical
<1>4. CASE Rewind
  BY <1>4, RewindKeepsCanonical
<1>5. CASE \E n \in Batch : FetchHeader(n)
  BY <1>5, FetchHeaderKeepsCanonical
<1>6. CASE FilterLogs
  BY <1>6, FilterLogsKeepsCanonical
<1>7. CASE ApplyChain
  BY <1>7, ApplyKeepsCanonical
<1>8. CASE \E payload \in Payloads : Mine(payload) \/ \E n \in 0 .. MaxHeight : Reorganise(n, payload)
  <2>p. PICK payload \in Payloads : Mine(payload) \/ \E n \in 0 .. MaxHeight : Reorganise(n, payload)
    BY <1>8
  <2>1. CASE Mine(payload)
    <3>1. 0 \in 0 .. MaxHeight
      BY MaxHeightAssumption
    <3> QED
      BY <2>1, <3>1, ChainStaysCanonical
  <2>2. CASE \E n \in 0 .. MaxHeight : Reorganise(n, payload)
    BY <2>2, ChainStaysCanonical
  <2> QED
    BY <2>p, <2>1, <2>2
<1>9. CASE UNCHANGED escrowVars
  <2>1. UNCHANGED <<checkpoint, snapshot, books, chain, gone, fetched, anchor, pc, logs, head>>
    BY <1>9 DEF escrowVars, node, database, local
  <2>2. BooksFollowChain' /\ GoneIsOff'
    BY <2>1, BooksFollowStays DEF CanonicalInv, GoneIsOff
  <2>3. Headers' = Headers /\ Final' = Final
    BY <2>1 DEF Headers, Final
  <2>4. \A g : (Stands(g)' <=> Stands(g)) /\ (Left(g)' <=> Left(g))
    BY <2>1 DEF Stands, Left
  <2>5. ReadFromChain'
    BY <2>1, <2>3, <2>4 DEF CanonicalInv, ReadFromChain
  <2> QED
    BY <2>2, <2>5 DEF CanonicalInv
<1> QED
  BY <1>1, <1>2, <1>3, <1>4, <1>5, <1>6, <1>7, <1>8, <1>9 DEF EscrowNext, Listener

\* Whatever a step has read, header or logs, is of the chain as it is now, or a
\* block of it is known to have left; and the books follow the branch of their
\* checkpoint.
THEOREM CanonicalInvariant == EscrowSpec => []CanonicalInv
<1>1. EscrowInit => CanonicalInv
  BY CanonicalInvInit
<1>2. CanonicalInv /\ LedgerInv /\ EscrowInv /\ [EscrowNext]_escrowVars => CanonicalInv'
  BY CanonicalInvNext
<1> QED
  BY <1>1, <1>2, LedgerInvariant, EscrowInvariant, PTL DEF EscrowSpec

\* The canonical events are those of the checkpoint's chain since the snapshot, none
\* missed and none left over from a branch the chain abandoned, whatever it did
\* between any two of the listener's calls.
THEOREM CanonicalIsTheChain == EscrowSpec => []CanonicalIsChain
<1>1. CanonicalInv /\ LedgerInv /\ EscrowInv => CanonicalIsChain
  <2> SUFFICES ASSUME CanonicalInv, LedgerInv, EscrowInv, checkpoint.next > 0
               PROVE  /\ Live(books.events) = ToSet(Logs(checkpoint.hash, Len(snapshot.hash) + 1, Len(checkpoint.hash)))
                      /\ Live(books.settlements) = {id \in Live(books.events) : LogOf(id).kind = "winning_ticket_redeemed"}
    BY DEF CanonicalIsChain
  <2>1. BooksFollow(books, checkpoint.hash, snapshot.hash)
    BY DEF CanonicalInv, BooksFollowChain, EscrowInv, EscrowTyping
  <2>h. PICK h \in Hashes : h = checkpoint.hash
    BY <2>1 DEF BooksFollow
  <2>s. PICK s \in Hashes : s = snapshot.hash
    BY <2>1 DEF BooksFollow
  <2>f. PICK first \in Nat \ {0} : first = Len(s) + 1
    BY HashIs
  <2>l. PICK last \in Int : last = Len(h)
    BY HashIs
  <2>2. ToSet(Logs(h, first, last)) = Since(h, s)
    BY <2>f, <2>l, LogsAre DEF Lists, Since
  <2> QED
    BY <2>1, <2>2, <2>f, <2>h, <2>l, <2>s DEF BooksFollow, RedemptionsOf
<1> QED
  BY <1>1, CanonicalInvariant, LedgerInvariant, EscrowInvariant, PTL

-----------------------------------------------------------------------------
(***************************************************************************)
(* The books mirror the contract                                           *)
(*                                                                         *)
(* The opening snapshot is read sender by sender; it is the contract's at  *)
(* the anchor unless the anchor has left the chain, and then it is not     *)
(* committed.  From there each batch that is committed is the logs of a    *)
(* stretch of the chain, since no block of it has left, and ReplayProofs   *)
(* says what applying those does.                                          *)
(***************************************************************************)

\* Each sender's escrow is as it is in c.
AsHeld(splits, c) ==
    \A i \in 1 .. Len(splits) :
        /\ splits[i].deposit = c.escrow[splits[i].sender].deposit
        /\ splits[i].reserve = c.escrow[splits[i].sender].reserve

\* The opening entries, written from what the senders held in c, mirror c.
LEMMA OpeningMirrors ==
    ASSUME NEW splits, Read(splits), Len(splits) = Len(Opening),
           NEW c \in Contracts, AsHeld(splits, c),
           NEW r, r = FoldLeft(Opened, EmptyBooks, splits)
    PROVE  Mirrors(r, Base(c), AmountsOf(c))
<1>n. PICK n \in Nat : n = Len(splits)
  BY DEF Read
<1>1. /\ DOMAIN splits = 1 .. n
      /\ \A i \in 1 .. n : splits[i].sender = Opening[i]
  BY <1>n DEF Read
<1>2. /\ \A i \in 1 .. n : Opening[i] \in Followed
      /\ \A i, j \in 1 .. n : i # j => Opening[i] # Opening[j]
      /\ Firsts(Opening, n) = Followed
  BY <1>n, OpeningIs DEF OnceEach
<1>3. PICK t : OpenFolds!Trace(t, EmptyBooks, n, splits) /\ t[n] = r
  BY <1>1, OpenFoldTrace
<1>4. t[0] = EmptyBooks /\ \A i \in 1 .. n : t[i] = Opened(t[i - 1], splits[i])
  BY <1>3 DEF OpenFolds!Trace
<1> DEFINE F == {k \in 0 .. n : Filled(t[k], c, Firsts(Opening, k))}
<1>5. 0 \in F
  <2>1. Firsts(Opening, 0) = {} /\ 0 \in 0 .. n
    BY DEF Firsts
  <2>2. Filled(t[0], c, Firsts(Opening, 0))
    BY <1>4, <2>1, EmptyIsFilled
  <2> QED
    BY <2>1, <2>2
<1>6. ASSUME NEW k \in 1 .. n, k - 1 \in F PROVE k \in F
  <2>m. PICK m : m = k - 1
    OBVIOUS
  <2>1. 1 .. k = (1 .. m) \cup {k} /\ k \notin 1 .. m /\ 1 .. m \subseteq 1 .. n
    BY <2>m
  <2>d. PICK D \in SUBSET Followed : D = Firsts(Opening, m) /\ Opening[k] \notin D
    <3>1. \A i \in 1 .. m : Opening[i] \in Followed /\ Opening[i] # Opening[k]
      BY <1>2, <2>1
    <3>2. Firsts(Opening, m) \subseteq Followed /\ Opening[k] \notin Firsts(Opening, m)
      BY <3>1 DEF Firsts
    <3> QED
      BY <3>2
  <2>e. PICK E : E = Firsts(Opening, k) /\ E = D \cup {Opening[k]}
    BY <2>1, <2>d DEF Firsts
  <2>b. PICK b : b = t[m]
    OBVIOUS
  <2>s. PICK split : split = splits[k]
    OBVIOUS
  <2>u. PICK u : u = t[k]
    OBVIOUS
  <2>2. Filled(b, c, D)
    BY <1>6, <2>m, <2>d, <2>b
  <2>3. u = Opened(b, split)
    BY <1>4, <2>m, <2>b, <2>s, <2>u
  <2>4. split.sender \in Followed \ D /\ E = D \cup {split.sender}
    BY <1>1, <1>2, <2>d, <2>e, <2>s
  <2>5. /\ split.deposit = c.escrow[split.sender].deposit
        /\ split.reserve = c.escrow[split.sender].reserve
    BY <1>n, <2>s DEF AsHeld
  <2>6. Filled(u, c, E)
    BY <2>2, <2>3, <2>4, <2>5, OpenedFills
  <2>7. k \in 0 .. n
    OBVIOUS
  <2> QED
    BY <2>6, <2>7, <2>e, <2>u
<1> HIDE DEF F
<1>7. n \in F
  BY <1>5, <1>6, OpenFolds!TraceInduction
<1>8. Filled(r, c, Followed)
  BY <1>2, <1>3, <1>7 DEF F
<1>9. OpenedOf(r, Followed)
  BY OpeningKeepsOrder
<1> QED
  BY <1>8, <1>9, FilledMirrors

\* What the first senders are said to hold, they held at the anchor, unless it has left.
SnapshotRead ==
    pc \in {"snapshot", "anchored"} =>
        \E h \in Hashes : h = anchor /\ Stands(h) /\ (Left(h) \/ AsHeld(opening, Contract[h]))

\* These books have the events of the branch h since s, and the balances at h.
Mirrored(b, s, h) == RowsTell(b) /\ Owes(b, Base(Contract[s]), AmountsOf(Contract[h]))

BooksMirror == checkpoint.next # 0 => Mirrored(books, snapshot.hash, checkpoint.hash)

MirrorInv == SnapshotRead /\ BooksMirror

\* What the node is asked for is accepted, in whatever order it answers.
LEMMA AnswersAccepted ==
    ASSUME LedgerInv, EscrowInv, pc = "headers", NEW answer \in Answers
    PROVE  Accepted(Correlated(OrderedUnique(answer)))
<1>c. PICK c \in Hashes : c = chain
  BY DEF LedgerInv, LedgerTyping
<1>4. Confirmed /\ checkpoint.next # 0 /\ checkpoint.next \in Nat
  BY DEF EscrowInv, EscrowTyping, StepKnows
<1>f. PICK first \in Nat \ {0} : first = checkpoint.next
  BY <1>4
<1>l. PICK last \in Int : last = Final
  BY <1>4, BatchTyped
<1>g. PICK g : g = Logs(c, first, last)
  OBVIOUS
<1>s. PICK S : Lists(g, S)
  BY <1>g, LogsAre
<1>1. g = FilteredLogs
  BY <1>c, <1>f, <1>l, <1>g DEF FilteredLogs
<1>2. Lists(answer, S)
  BY <1>1, <1>s, ReverseLists DEF Answers
<1>3. ToSet(answer) = ToSet(g)
  BY <1>2, <1>s DEF Lists
<1>5. OrderedUnique(answer) = g
  BY <1>3, <1>g, AnswersAreOrdered
<1>6. Accepted(Correlated(g))
  BY <1>g, LogsAccepted
<1> QED
  BY <1>5, <1>6

\* A batch that is verified is applied, and the books mirror its last block.
LEMMA VerifiedMirrors ==
    ASSUME CanonicalInv, LedgerInv, EscrowInv, MirrorInv, pc = "recheck", Verified
    PROVE  \E h \in Hashes : \E s \in Hashes :
              /\ h = fetched[Final] /\ s = snapshot.hash
              /\ Mirrors(Outcome, Base(Contract[s]), AmountsOf(Contract[h]))
<1>1. checkpoint.next # 0
  BY DEF EscrowInv, StepKnows
<1>b. PICK b : b = books /\ InOrder(b, Followed) /\ b.ok /\ BooksFollow(b, checkpoint.hash, snapshot.hash)
               /\ Mirrored(b, snapshot.hash, checkpoint.hash)
  BY <1>1 DEF CanonicalInv, BooksFollowChain, LedgerInv, BooksInOrder, MirrorInv, BooksMirror
<1>g. PICK g \in Hashes : g = checkpoint.hash
  BY <1>b DEF BooksFollow
<1>s. PICK s \in Hashes : s = snapshot.hash /\ On(s, g) /\ BooksFollow(b, g, s)
  BY <1>b, <1>g DEF BooksFollow
<1>v. \E h \in Hashes : \E first \in Nat \ {0} : \E last \in Nat :
         /\ h = fetched[Final] /\ On(g, h)
         /\ first = Len(g) + 1 /\ last = Len(h) /\ last = Final
         /\ logs = EventsOf(h, first, last)
  BY <1>g, VerifiedLogs
<1>h. PICK h \in Hashes : \E first \in Nat \ {0} : \E last \in Nat :
         /\ h = fetched[Final] /\ On(g, h)
         /\ first = Len(g) + 1 /\ last = Len(h) /\ last = Final
         /\ logs = EventsOf(h, first, last)
  BY <1>v
<1>f. PICK first \in Nat \ {0} : \E last \in Nat :
         /\ h = fetched[Final] /\ On(g, h)
         /\ first = Len(g) + 1 /\ last = Len(h) /\ last = Final
         /\ logs = EventsOf(h, first, last)
  BY <1>h
<1>l. PICK last \in Nat :
         /\ h = fetched[Final] /\ On(g, h)
         /\ first = Len(g) + 1 /\ last = Len(h) /\ last = Final
         /\ logs = EventsOf(h, first, last)
  BY <1>f
<1>i. PICK list : list = Logs(h, first, last)
  OBVIOUS
<1>e. PICK events : events = logs /\ events = Correlated(list).events
  BY <1>l, <1>i DEF EventsOf
<1>m. PICK m : m = AmountsOf(Contract[g])
  OBVIOUS
<1>r. PICK r : r = AmountsOf(Contract[h])
  OBVIOUS
<1>p. PICK base : base = Base(Contract[s])
  OBVIOUS
<1>o. PICK c : c = Outcome /\ c = Applied(b, events)
  BY <1>b, <1>e DEF Outcome
<1>2. Mirrors(b, base, m)
  BY <1>b, <1>g, <1>m, <1>p, <1>s DEF Mirrored, Mirrors
<1>3. Tells(list, m, r)
  <2>1. Len(g) \in Nat /\ Len(g) <= Len(h) /\ g = Ancestor(h, Len(g))
    BY <1>l, HashIs DEF On
  <2>2. first <= last + 1 /\ last <= Len(h) /\ g = Ancestor(h, first - 1)
    BY <1>l, <2>1
  <2>3. h = Ancestor(h, last)
    BY <1>l, AncestorOfItself, HashesAreBranches
  <2> QED
    BY <1>i, <1>m, <1>r, <2>2, <2>3, LogsTell
<1>i2. PICK i \in Int : i = last
  OBVIOUS
<1>4. Increasing(list)
  BY <1>i, <1>i2, LogsIncrease
<1>5. Lists(list, Since(h, g))
  <2>1. Lists(list, IdsWithin(h, first, i))
    BY <1>i, <1>i2, LogsAre
  <2> QED
    BY <1>i2, <1>l, <2>1 DEF Since
<1>6. \A id \in Since(h, g) : NotLive(b, id)
  <2> TAKE id \in Since(h, g)
  <2>1. Len(id.block) \in Len(g) + 1 .. Len(h)
    BY <1>l, SinceAreLogs
  <2>2. \A other \in Since(g, s) : Len(other.block) \in Len(s) + 1 .. Len(g)
    BY <1>s, SinceAreLogs
  <2>3. Len(g) \in Nat
    BY HashIs
  <2>4. id \notin Since(g, s)
    BY <2>1, <2>2, <2>3
  <2> QED
    BY <1>s, <2>4 DEF NotLive, BooksFollow, RedemptionsOf
<1>7. \A k \in 1 .. Len(list) : NotLive(b, list[k])
  <2>1. list \in Seq(Ids) /\ ToSet(list) = Since(h, g)
    BY <1>5 DEF Lists
  <2>2. \A k \in 1 .. Len(list) : list[k] \in Since(h, g)
    BY <2>1, ToSetOfSeq
  <2> QED
    BY <1>6, <2>2
<1>8. BaseOf(base)
  BY <1>p, BaseIsBase
<1>9. Mirrors(c, base, r)
  BY <1>2, <1>3, <1>4, <1>7, <1>8, <1>e, <1>o, AppliedMirrors
<1> QED
  BY <1>9, <1>l, <1>o, <1>p, <1>r, <1>s

\* Before the first step.
LEMMA MirrorInvInit == EscrowInit => MirrorInv
BY DEF EscrowInit, MirrorInv, SnapshotRead, BooksMirror

\* BooksMirror speaks of the database alone.
LEMMA BooksMirrorStays ==
    ASSUME BooksMirror, UNCHANGED <<checkpoint, snapshot, books>>
    PROVE  BooksMirror'
BY DEF BooksMirror, Mirrored, RowsTell, Owes

\* At the end of a step nothing of the snapshot is in memory.
LEMMA EndKeepsMirror ==
    ASSUME BooksMirror', NEW next \in {"idle", "stopped"}, EndStep(next)
    PROVE  MirrorInv'
BY DEF MirrorInv, SnapshotRead, EndStep

\* Steps that do not touch the opening snapshot, nor the books.
LEMMA ReadsKeepMirror ==
    ASSUME MirrorInv, UNCHANGED <<checkpoint, snapshot, books>>, pc' \notin {"snapshot", "anchored"}
    PROVE  MirrorInv'
BY BooksMirrorStays DEF MirrorInv, SnapshotRead

\* The anchor is on the chain when it is read, and no sender is read yet.
LEMMA ReadAnchorKeepsMirror ==
    ASSUME MirrorInv, CanonicalInv, LedgerInv, EscrowInv, ReadAnchor
    PROVE  MirrorInv'
<1>1. /\ UNCHANGED <<checkpoint, snapshot, books, chain, gone, opening>>
      /\ pc = "anchor" /\ pc' = "snapshot"
  BY DEF ReadAnchor, Ask, node, database
<1>2. BooksMirror'
  BY <1>1, BooksMirrorStays DEF MirrorInv
<1>3. opening = <<>>
  BY <1>1 DEF LedgerInv, ReadSoFar
<1>c. PICK c \in Hashes : c = chain
  BY DEF LedgerInv, LedgerTyping
<1>l. PICK l \in Nat : l = Len(c)
  BY HashIs
<1>n. PICK n \in Int : n = First - 1 /\ n <= l /\ anchor' = Ancestor(c, n)
  BY <1>c, <1>l, ConfigAssumption DEF ReadAnchor, First, EscrowInv, EscrowTyping
<1>4. \E k \in 0 .. l : anchor' = Ancestor(c, k)
  <2>1. CASE n \in 0 .. l
    BY <2>1, <1>n
  <2>2. CASE n < 0
    <3>1. Ancestor(c, n) = <<>> /\ Ancestor(c, 0) = <<>>
      BY <2>2, SubSeqProperties, HashIs, EmptySeq DEF Ancestor
    <3> QED
      BY <1>n, <3>1
  <2> QED
    BY <1>n, <2>1, <2>2
<1>k. PICK k \in 0 .. l : anchor' = Ancestor(c, k)
  BY <1>4
<1>h. PICK h \in Hashes : h = anchor' /\ On(h, c)
  BY <1>k, <1>l, AncestorIs, AncestorIsOn
<1>5. AsHeld(opening', Contract[h])
  BY <1>1, <1>3 DEF AsHeld
<1>6. Stands(h)'
  BY <1>1, <1>c, <1>h DEF Stands
<1>7. SnapshotRead'
  BY <1>5, <1>6, <1>h DEF SnapshotRead, AsHeld
<1> QED
  BY <1>2, <1>7 DEF MirrorInv

\* A sender is read at the anchor: what it is said to hold it held there, or the anchor left.
LEMMA ReadSenderInfoKeepsMirror ==
    ASSUME MirrorInv, CanonicalInv, LedgerInv, EscrowInv, ReadSenderInfo
    PROVE  MirrorInv'
<1>1. /\ UNCHANGED <<checkpoint, snapshot, books, chain, gone, anchor>> /\ pc = "snapshot"
  BY DEF ReadSenderInfo, Ask, node, database
<1>2. BooksMirror'
  BY <1>1, BooksMirrorStays DEF MirrorInv
<1>c. PICK c \in Hashes : c = chain
  BY DEF LedgerInv, LedgerTyping
<1>h. PICK h \in Hashes : h = anchor /\ Stands(h) /\ (Left(h) \/ AsHeld(opening, Contract[h]))
  BY <1>1 DEF MirrorInv, SnapshotRead
<1>3. (Stands(h)' <=> Stands(h)) /\ (Left(h)' <=> Left(h))
  BY <1>1 DEF Stands, Left
<1>4. ASSUME ~Left(h) PROVE AsHeld(opening', Contract[h])
  <2>1. On(h, c) /\ AsHeld(opening, Contract[h])
    BY <1>c, <1>h, <1>4 DEF Stands
  <2>2. Ancestor(chain, Len(anchor)) = h
    BY <1>c, <1>h, <2>1 DEF On
  <2>p. PICK sender : sender = Opening[Len(opening) + 1]
    OBVIOUS
  <2>e. PICK e : e = Contract[h].escrow[sender]
    OBVIOUS
  <2>s. PICK s : s = [sender |-> sender, deposit |-> e.deposit, reserve |-> e.reserve]
    OBVIOUS
  <2>3. opening' = Append(opening, s)
    BY <2>2, <2>p, <2>e, <2>s DEF ReadSenderInfo
  <2>q. PICK q : q = opening /\ Read(q)
    BY <1>1 DEF LedgerInv, ReadSoFar
  <2>t. PICK T : T = [sender : Followed, deposit : Int, reserve : Int]
    OBVIOUS
  <2>u. PICK U : U = T \cup {s}
    OBVIOUS
  <2>4. q \in Seq(U) /\ s \in U
    <3>1. q \in Seq(T)
      BY <2>q, <2>t DEF Read
    <3> QED
      BY <2>u, <3>1
  <2>n. PICK n \in Nat : n = Len(q)
    BY <2>4
  <2>a. PICK r : r = Append(q, s) /\ Len(r) = n + 1 /\ r[n + 1] = s /\ \A i \in 1 .. n : r[i] = q[i]
    <3>1. /\ Len(Append(q, s)) = Len(q) + 1 /\ Append(q, s)[Len(q) + 1] = s
          /\ \A i \in 1 .. Len(q) : Append(q, s)[i] = q[i]
      BY <2>4, AppendProperties
    <3> QED
      BY <2>n, <3>1
  <2>5. \A i \in 1 .. n : /\ q[i].deposit = Contract[h].escrow[q[i].sender].deposit
                          /\ q[i].reserve = Contract[h].escrow[q[i].sender].reserve
    BY <2>1, <2>n, <2>q DEF AsHeld
  <2>6. AsHeld(r, Contract[h])
    <3> SUFFICES ASSUME NEW i \in 1 .. n + 1
                 PROVE  /\ r[i].deposit = Contract[h].escrow[r[i].sender].deposit
                        /\ r[i].reserve = Contract[h].escrow[r[i].sender].reserve
      BY <2>a DEF AsHeld
    <3>1. CASE i \in 1 .. n
      BY <2>5, <2>a, <3>1
    <3>2. CASE i = n + 1
      BY <2>a, <2>e, <2>s, <3>2
    <3> QED
      BY <2>n, <3>1, <3>2
  <2> QED
    BY <2>3, <2>6, <2>a, <2>q
<1>7. SnapshotRead'
  <2>1. h = anchor' /\ Stands(h)' /\ (Left(h)' \/ AsHeld(opening', Contract[h]))
    BY <1>1, <1>3, <1>4, <1>h
  <2> QED
    BY <2>1 DEF SnapshotRead, AsHeld
<1> QED
  BY <1>2, <1>7 DEF MirrorInv

\* The chain moves: the contract at a hash does not.
LEMMA ChainStaysMirror ==
    ASSUME MirrorInv, CanonicalInv, LedgerInv, EscrowInv,
           NEW payload \in Payloads, NEW n \in 0 .. MaxHeight, Mine(payload) \/ Reorganise(n, payload)
    PROVE  MirrorInv'
<1>1. UNCHANGED <<checkpoint, snapshot, books, pc, anchor, opening>>
  BY DEF Mine, Reorganise, database, local
<1>2. BooksMirror'
  BY <1>1, BooksMirrorStays DEF MirrorInv
<1>3. SnapshotRead'
  <2> SUFFICES ASSUME pc \in {"snapshot", "anchored"}
               PROVE  SnapshotRead'
    BY <1>1 DEF SnapshotRead
  <2>h. PICK h \in Hashes : h = anchor /\ Stands(h) /\ (Left(h) \/ AsHeld(opening, Contract[h]))
    BY DEF MirrorInv, SnapshotRead
  <2>1. (Left(h) => Left(h)') /\ (Stands(h) => Stands(h)')
    BY StandingStays DEF CanonicalInv
  <2>2. h = anchor' /\ Stands(h)' /\ (Left(h)' \/ AsHeld(opening', Contract[h]))
    BY <1>1, <2>1, <2>h
  <2> QED
    BY <2>2 DEF SnapshotRead, AsHeld
<1> QED
  BY <1>2, <1>3 DEF MirrorInv

\* The snapshot is committed after the anchor was found on the chain again, so it had not
\* left and the senders held what is written.
LEMMA BootstrapKeepsMirror ==
    ASSUME MirrorInv, CanonicalInv, LedgerInv, EscrowInv, Bootstrap
    PROVE  MirrorInv'
<1>1. /\ pc = "anchored" /\ pc' = "compare" /\ AnchorVerified
      /\ checkpoint' = [next |-> Len(anchor) + 1, hash |-> anchor]
      /\ snapshot' = [hash |-> anchor, splits |-> opening]
  BY DEF Bootstrap, Ask
<1>h. PICK h \in Hashes : h = anchor /\ (Left(h) \/ AsHeld(opening, Contract[h]))
  BY <1>1 DEF MirrorInv, SnapshotRead
<1>2. ~Left(h)
  <2>1. On(h, chain)
    BY <1>1, <1>h DEF AnchorVerified, OnChain, On
  <2> QED
    BY <2>1, LeftIsOff DEF CanonicalInv, LedgerInv
<1>3. Read(opening) /\ Len(opening) = Len(Opening) /\ books = EmptyBooks
  BY <1>1 DEF LedgerInv, ReadSoFar, BooksInOrder
<1>r. PICK r : r = books' /\ r = FoldLeft(Opened, EmptyBooks, opening)
  BY <1>3 DEF Bootstrap
<1>q. PICK q : q = opening
  OBVIOUS
<1>c. PICK c \in Contracts : c = Contract[h]
  BY ContractIs
<1>4. Mirrors(r, Base(c), AmountsOf(c))
  <2>1. Read(q) /\ Len(q) = Len(Opening) /\ AsHeld(q, c) /\ r = FoldLeft(Opened, EmptyBooks, q)
    BY <1>2, <1>3, <1>c, <1>h, <1>q, <1>r
  <2> QED
    BY <2>1, OpeningMirrors
<1>5. Mirrored(r, h, h)
  BY <1>4, <1>c DEF Mirrored, Mirrors
<1>6. BooksMirror'
  <2>1. Mirrored(books', snapshot'.hash, checkpoint'.hash)
    BY <1>1, <1>5, <1>h, <1>r
  <2> QED
    BY <2>1 DEF BooksMirror, Mirrored, RowsTell, Owes
<1>7. SnapshotRead'
  BY <1>1 DEF SnapshotRead
<1> QED
  BY <1>6, <1>7 DEF MirrorInv

\* The rewind mirrors the ancestor.
LEMMA RewindKeepsMirror ==
    ASSUME MirrorInv, CanonicalInv, LedgerInv, EscrowInv, Rewind
    PROVE  MirrorInv'
<1>1. /\ pc = "walk" /\ EndStep("idle") /\ books' = Rewound(books, candidate)
      /\ checkpoint' = [next |-> candidate + 1, hash |-> blocks[candidate]]
      /\ snapshot' = snapshot /\ candidate >= Len(snapshot.hash)
  BY DEF Rewind
<1>b. PICK b : b = books /\ InOrder(b, Followed) /\ BooksFollow(b, checkpoint.hash, snapshot.hash)
               /\ Mirrored(b, snapshot.hash, checkpoint.hash)
  BY <1>1 DEF CanonicalInv, BooksFollowChain, LedgerInv, BooksInOrder, EscrowInv, StepKnows,
              MirrorInv, BooksMirror
<1>h. PICK h \in Hashes : h = checkpoint.hash
  BY <1>b DEF BooksFollow
<1>s. PICK s \in Hashes : s = snapshot.hash /\ On(s, h) /\ BooksFollow(b, h, s)
  BY <1>b, <1>h DEF BooksFollow
<1>2. candidate \in DOMAIN blocks /\ blocks[candidate] = Ancestor(checkpoint.hash, candidate)
  BY <1>1 DEF EscrowInv, StepKnows, StoredChain
<1>m. PICK m \in 0 .. Len(h) : m = candidate /\ Len(s) <= m
  <2>1. PICK n \in Nat : DOMAIN blocks = n .. Len(h)
    BY <1>1, <1>h DEF EscrowInv, StepKnows, StoredChain, StoredFrom
  <2> QED
    BY <1>1, <1>2, <1>s, <2>1, HashIs
<1>g. PICK g \in Hashes : g = Ancestor(h, m) /\ Len(g) = m /\ On(g, h)
  BY AncestorIs, AncestorIsOn
<1>3. On(s, g)
  <2>k. PICK k \in 0 .. m : k = Len(s) /\ s = Ancestor(h, k)
    BY <1>m, <1>s, HashIs DEF On
  <2>1. Ancestor(g, k) = Ancestor(h, k)
    BY <1>g, OnIsTransitive
  <2> QED
    BY <1>g, <2>1, <2>k DEF On
<1>p. PICK base : base = Base(Contract[s])
  OBVIOUS
<1>r. PICK r : r = books' /\ r = Rewound(b, Len(g))
  BY <1>1, <1>b, <1>g, <1>m
<1>4. RowsTell(b) /\ Owes(b, base, AmountsOf(Contract[h])) /\ Followers(b, Since(h, s))
  BY <1>b, <1>h, <1>p, <1>s DEF Mirrored, Followers, BooksFollow
<1>5. RowsTell(r) /\ Owes(r, base, AmountsOf(Contract[g]))
  BY <1>3, <1>4, <1>b, <1>g, <1>r, <1>s, RewoundMirrors
<1>6. Mirrored(r, s, g)
  BY <1>5, <1>p DEF Mirrored
<1>7. BooksMirror'
  <2>1. Mirrored(books', snapshot'.hash, checkpoint'.hash)
    BY <1>1, <1>2, <1>6, <1>g, <1>h, <1>m, <1>r, <1>s
  <2> QED
    BY <2>1 DEF BooksMirror, Mirrored, RowsTell, Owes
<1> QED
  BY <1>1, <1>7, EndKeepsMirror

\* The batch that is committed mirrors its last block.
LEMMA ApplyKeepsMirror ==
    ASSUME MirrorInv, CanonicalInv, LedgerInv, EscrowInv, ApplyChain
    PROVE  MirrorInv'
<1>1. /\ pc = "recheck" /\ Verified /\ EndStep("idle") /\ books' = Outcome
      /\ checkpoint' = [next |-> Final + 1, hash |-> fetched[Final]]
      /\ snapshot' = snapshot
  BY DEF ApplyChain
<1>h. PICK h \in Hashes : \E s \in Hashes :
              /\ h = fetched[Final] /\ s = snapshot.hash
              /\ Mirrors(Outcome, Base(Contract[s]), AmountsOf(Contract[h]))
  BY <1>1, VerifiedMirrors
<1>s. PICK s \in Hashes : /\ h = fetched[Final] /\ s = snapshot.hash
                          /\ Mirrors(Outcome, Base(Contract[s]), AmountsOf(Contract[h]))
  BY <1>h
<1>2. Mirrored(Outcome, s, h)
  BY <1>s DEF Mirrors, Mirrored
<1>3. Mirrored(books', snapshot'.hash, checkpoint'.hash)
  BY <1>1, <1>2, <1>s
<1>4. BooksMirror'
  BY <1>3 DEF BooksMirror, Mirrored, RowsTell, Owes
<1> QED
  BY <1>1, <1>4, EndKeepsMirror

\* Every step keeps the mirror.
LEMMA MirrorInvNext ==
    MirrorInv /\ CanonicalInv /\ LedgerInv /\ EscrowInv /\ [EscrowNext]_escrowVars => MirrorInv'
<1> SUFFICES ASSUME MirrorInv, CanonicalInv, LedgerInv, EscrowInv, [EscrowNext]_escrowVars
             PROVE  MirrorInv'
  OBVIOUS
<1>1. CASE BeginStep \/ FindOrphaned \/ TryOlder \/ FilterLogs \/ \E n \in Batch : FetchHeader(n)
  <2>1. UNCHANGED <<checkpoint, snapshot, books>> /\ pc' \notin {"snapshot", "anchored"}
    BY <1>1 DEF BeginStep, FindOrphaned, TryOlder, FilterLogs, FetchHeader, Ask, database
  <2> QED
    BY <2>1, ReadsKeepMirror
<1>2. CASE Compare
  <2>1. UNCHANGED <<checkpoint, snapshot, books>> /\ pc' \notin {"snapshot", "anchored"}
    BY <1>2 DEF Compare, EndStep, database
  <2> QED
    BY <2>1, ReadsKeepMirror
<1>3. CASE ReadAnchor
  BY <1>3, ReadAnchorKeepsMirror
<1>4. CASE ReadSenderInfo
  BY <1>4, ReadSenderInfoKeepsMirror
<1>5. CASE Bootstrap
  BY <1>5, BootstrapKeepsMirror
<1>6. CASE GiveUp \/ Refuse \/ Fail
  <2>1. UNCHANGED <<checkpoint, snapshot, books>> /\ pc' \notin {"snapshot", "anchored"}
    BY <1>6 DEF GiveUp, Refuse, Fail, EndStep, database
  <2> QED
    BY <2>1, ReadsKeepMirror
<1>7. CASE Rewind
  BY <1>7, RewindKeepsMirror
<1>8. CASE ApplyChain
  BY <1>8, ApplyKeepsMirror
<1>9. CASE \E payload \in Payloads : Mine(payload) \/ \E n \in 0 .. MaxHeight : Reorganise(n, payload)
  <2>p. PICK payload \in Payloads : Mine(payload) \/ \E n \in 0 .. MaxHeight : Reorganise(n, payload)
    BY <1>9
  <2>1. CASE Mine(payload)
    <3>1. 0 \in 0 .. MaxHeight
      BY MaxHeightAssumption
    <3> QED
      BY <2>1, <3>1, ChainStaysMirror
  <2>2. CASE \E n \in 0 .. MaxHeight : Reorganise(n, payload)
    BY <2>2, ChainStaysMirror
  <2> QED
    BY <2>p, <2>1, <2>2
<1>10. CASE UNCHANGED escrowVars
  <2>1. UNCHANGED <<checkpoint, snapshot, books, chain, gone, anchor, opening, pc>>
    BY <1>10 DEF escrowVars, node, database, local
  <2>2. BooksMirror'
    BY <2>1, BooksMirrorStays DEF MirrorInv
  <2>3. SnapshotRead'
    BY <2>1 DEF MirrorInv, SnapshotRead, AsHeld, Stands, Left
  <2> QED
    BY <2>2, <2>3 DEF MirrorInv
<1> QED
  BY <1>1, <1>2, <1>3, <1>4, <1>5, <1>6, <1>7, <1>8, <1>9, <1>10 DEF EscrowNext, Listener

\* The opening snapshot is the contract's, and the books follow the contract from there: row
\* by row in what happened, account by account in what is left.
THEOREM MirrorInvariant == EscrowSpec => []MirrorInv
<1>1. EscrowInit => MirrorInv
  BY MirrorInvInit
<1>2. MirrorInv /\ CanonicalInv /\ LedgerInv /\ EscrowInv /\ [EscrowNext]_escrowVars => MirrorInv'
  BY MirrorInvNext
<1> QED
  BY <1>1, <1>2, CanonicalInvariant, LedgerInvariant, EscrowInvariant, PTL DEF EscrowSpec

\* The escrow accounts hold what the contract held at the checkpoint's block, and the
\* settled spend is what its redemptions since the snapshot paid.
THEOREM LedgerMirrorsTheContract == EscrowSpec => []LedgerMirrorsContract
<1>1. MirrorInv /\ CanonicalInv /\ LedgerInv /\ EscrowInv => LedgerMirrorsContract
  <2> SUFFICES ASSUME MirrorInv, CanonicalInv, LedgerInv, EscrowInv, checkpoint.next > 0, NEW f \in Followed
               PROVE  LET contract == Contract[checkpoint.hash].escrow[f]
                      IN  /\ books.ledger[f].deposit = contract.deposit
                          /\ books.ledger[f].reserve = contract.reserve
                          /\ books.ledger[f].spend = contract.paid - Contract[snapshot.hash].escrow[f].paid
    BY DEF LedgerMirrorsContract
  <2>1. BooksFollow(books, checkpoint.hash, snapshot.hash) /\ Mirrored(books, snapshot.hash, checkpoint.hash)
    BY DEF CanonicalInv, BooksFollowChain, MirrorInv, BooksMirror, EscrowInv, EscrowTyping
  <2>c. PICK c \in Contracts : c = Contract[snapshot.hash]
    BY <2>1, ContractIs DEF BooksFollow
  <2>d. PICK d \in Contracts : d = Contract[checkpoint.hash]
    BY <2>1, ContractIs DEF BooksFollow
  <2>b. PICK b : b = books /\ Owes(b, Base(c), AmountsOf(d))
    BY <2>1, <2>c, <2>d DEF Mirrored
  <2>2. /\ b.ledger[f].deposit = d.escrow[f].deposit
        /\ b.ledger[f].reserve = d.escrow[f].reserve
        /\ b.ledger[f].spend = d.escrow[f].paid - c.escrow[f].paid
    BY <2>b, MirroredAmounts
  <2> QED
    BY <2>2, <2>b, <2>c, <2>d
<1> QED
  BY <1>1, MirrorInvariant, CanonicalInvariant, LedgerInvariant, EscrowInvariant, PTL

\* A batch whose blocks and logs are those of the chain is never refused.
THEOREM BooksNeverRefuse == EscrowSpec => []NeverRefusedByBooks
<1>1. MirrorInv /\ CanonicalInv /\ LedgerInv /\ EscrowInv => NeverRefusedByBooks
  <2> SUFFICES ASSUME MirrorInv, CanonicalInv, LedgerInv, EscrowInv PROVE NeverRefusedByBooks
    OBVIOUS
  <2>1. pc = "headers" => \A answer \in Answers : Accepted(Correlated(OrderedUnique(answer)))
    BY AnswersAccepted
  <2>2. pc = "recheck" /\ Verified => Outcome.ok
    <3> SUFFICES ASSUME pc = "recheck", Verified PROVE Outcome.ok
      OBVIOUS
    <3>h. PICK h \in Hashes : \E s \in Hashes :
              /\ h = fetched[Final] /\ s = snapshot.hash
              /\ Mirrors(Outcome, Base(Contract[s]), AmountsOf(Contract[h]))
      BY VerifiedMirrors
    <3> QED
      BY <3>h DEF Mirrors
  <2> QED
    BY <2>1, <2>2 DEF NeverRefusedByBooks
<1> QED
  BY <1>1, MirrorInvariant, CanonicalInvariant, LedgerInvariant, EscrowInvariant, PTL
=============================================================================
