----------------------------- MODULE Idempotency -----------------------------
(***************************************************************************)
(* Management requests that are sent again.  A client that lost an answer  *)
(* repeats its call with the same idempotency key; the call, its effect on *)
(* the ledger and the stored answer share one immediate transaction        *)
(* (writeIdempotent in src/internal/store/idempotency.go), whichever       *)
(* connection or caller it comes from.  Beside it the ledger is managed    *)
(* without keys and charged for usage (Budget).                            *)
(*                                                                         *)
(* A call that has arrived can be handled again at any time, so repeats    *)
(* that were delayed, and answers that were lost because the connection or *)
(* the process died after the commit, are all here.                        *)
(***************************************************************************)
EXTENDS Budget

CONSTANTS
    Calls,      \* the requests clients make: [key, op, target, amount]
    KeyIds,     \* ids of API keys
    None,       \* no idempotency key; no answer yet; no id in an answer
    Failed      \* the answer of a call that was refused or failed

Operations == {"create_allocation", "fund_grant", "fund_allocation",
               "create_key", "create_key_for_grant"}

\* Operations that name an allocation; the others name a grant.
OnAllocation == {"fund_allocation", "create_key"}

ASSUME CallsAssumption ==
    \A c \in Calls :
        /\ c.op \in Operations
        /\ c.amount \in Amounts \cup {All}
        /\ IF c.op \in OnAllocation THEN c.target \in Allocations
                                    ELSE c.target \in Grants

VARIABLES
    issued,     \* api_keys.id
    responses,  \* management_idempotency
    reply,      \* the client's last answer to a call
    performed   \* history: how often a call's mutation was committed

idemVars == <<vars, issued, responses, reply, performed>>

\* The ids of an answer's JSON body.
Results == [allocation : Allocations \cup {None}, apiKey : KeyIds \cup {None}]

-----------------------------------------------------------------------------
\* Mutant of Scope: keys are kept per target.
ScopeOfTarget(c) == c.target

\* Keys are shared by all operations within a grant.
Scope(c) == IF c.op \in OnAllocation THEN GrantOf[c.target] ELSE c.target

\* An allocation that is not there has no grant to look the key up in.
ScopeExists(c) == c.op \in OnAllocation => status[c.target] # "absent"

\* Mutant of Found: answers are no longer replayed once the grant is closed.
FoundWhileOpen(c) ==
    {row \in responses : /\ row.grant = Scope(c) /\ row.call.key = c.key
                         /\ GrantOpen(Scope(c))}

Found(c) == {row \in responses : row.grant = Scope(c) /\ row.call.key = c.key}

InsertKey(k) ==
    /\ k \notin issued
    /\ issued' = issued \cup {k}

\* The mutation of each operation and the ids it answers with.
Mutate(c, result) ==
    LET a == result.allocation
        k == result.apiKey
    IN  \/ /\ c.op = "create_allocation"
           /\ a \in Allocations /\ GrantOf[a] = c.target /\ k = None
           /\ CreateAllocation(a, "active", c.amount)
           /\ UNCHANGED issued
        \/ /\ c.op = "create_key_for_grant"
           /\ a \in Allocations /\ GrantOf[a] = c.target /\ k \in KeyIds
           /\ CreateAllocation(a, "active", c.amount)
           /\ InsertKey(k)
        \/ /\ c.op = "create_key"
           /\ a = c.target /\ k \in KeyIds
           /\ status[a] \in AllocationStatuses \ {"revoked"}
           /\ InsertKey(k)
           /\ UNCHANGED vars
        \/ /\ c.op = "fund_allocation"
           /\ a = c.target /\ k = None
           /\ FundAllocation(a, c.amount)
           /\ UNCHANGED issued
        \/ /\ c.op = "fund_grant"
           /\ a = None /\ k = None
           /\ c.amount # All
           /\ FundGrant(c.target, c.amount)
           /\ UNCHANGED issued

\* Mutant of Stored: calls on allocations are not remembered.
StoredOnGrant(c, result) ==
    IF c.op \in OnAllocation THEN {}
    ELSE {[grant |-> Scope(c), call |-> c, result |-> result]}

\* The row a committed call leaves; none without a key.
Stored(c, result) ==
    IF c.key = None THEN {}
    ELSE {[grant |-> Scope(c), call |-> c, result |-> result]}

Execute(c, result) ==
    /\ c.key = None \/ (ScopeExists(c) /\ Found(c) = {})
    /\ Mutate(c, result)
    /\ responses' = responses \cup Stored(c, result)
    /\ performed' = [performed EXCEPT ![c] = @ + 1]
    /\ reply' \in {reply, [reply EXCEPT ![c] = result]}

Replay(c) ==
    /\ c.key # None
    /\ ScopeExists(c)
    /\ \E row \in Found(c) :
          /\ row.call = c
          /\ reply' = [reply EXCEPT ![c] = row.result]
    /\ UNCHANGED <<vars, issued, responses, performed>>

\* The key was used for another call.
Conflict(c) ==
    /\ c.key # None
    /\ ScopeExists(c)
    /\ \E row \in Found(c) : row.call # c
    /\ reply' = [reply EXCEPT ![c] = Failed]
    /\ UNCHANGED <<vars, issued, responses, performed>>

\* The mutation is refused, or fails: it is rolled back and nothing is stored.
Refuse(c) ==
    /\ c.key = None \/ ~ScopeExists(c) \/ Found(c) = {}
    /\ reply' = [reply EXCEPT ![c] = Failed]
    /\ UNCHANGED <<vars, issued, responses, performed>>

LedgerMoves ==
    /\ Management \/ Usage
    /\ UNCHANGED <<issued, responses, reply, performed>>

-----------------------------------------------------------------------------
IdemInit ==
    /\ Init
    /\ issued = {}
    /\ responses = {}
    /\ reply = [c \in Calls |-> None]
    /\ performed = [c \in Calls |-> 0]

IdemNext ==
    \/ LedgerMoves
    \/ \E c \in Calls :
          \/ \E result \in Results : Execute(c, result)
          \/ Replay(c)
          \/ Conflict(c)
          \/ Refuse(c)

IdemSpec == IdemInit /\ [][IdemNext]_idemVars

-----------------------------------------------------------------------------
(***************************************************************************)
(* Properties                                                              *)
(***************************************************************************)
\* However often and by whomever a call with a key is repeated, and whichever
\* of its answers were lost, it moved money or created rows exactly once if an
\* answer is stored for it and never otherwise.
ExecutedOnce ==
    \A c \in Calls : c.key # None =>
        performed[c] = IF \E row \in responses : row.call = c THEN 1 ELSE 0

\* The resources of a grant: itself and its allocations.
Owner(c) == IF c.op \in OnAllocation THEN GrantOf[c.target] ELSE c.target

\* A key stands for one call within a grant, also when one of two calls names
\* the grant and the other an allocation of it.
OneCallPerKey ==
    \A c, d \in Calls :
        /\ c # d /\ c.key # None /\ c.key = d.key
        /\ Owner(c) = Owner(d)
        => performed[c] = 0 \/ performed[d] = 0

\* Once committed, a call is answered the same way for ever, whatever became
\* of the grant or the allocation, and its repeats do nothing.
RetryStep ==
    \A row \in responses :
        /\ reply'[row.call] \in {reply[row.call], row.result}
        /\ reply[row.call] = row.result => reply'[row.call] = row.result
        /\ performed'[row.call] = performed[row.call]

RetriesAgree == [][RetryStep]_idemVars
=============================================================================
