----------------------------- MODULE Pagination -----------------------------
(***************************************************************************)
(* A management client that walks the list of settlements page by page     *)
(* (src/internal/app/pagination.go, listQuery in                           *)
(* src/internal/store/manage.go), all of them or those of one allocation,  *)
(* while the chain listener inserts settlements and ingestion attributes   *)
(* them.  Each page is one SELECT; nothing is held between two pages but   *)
(* the cursor, which the client has.                                       *)
(*                                                                         *)
(* settlements.seq, an INTEGER PRIMARY KEY AUTOINCREMENT, is the row's     *)
(* place in rows: writers take turns.                                      *)
(***************************************************************************)
EXTENDS Attribution, Sequences

CONSTANTS
    Allocations,
    AllocationOf,   \* payment_sessions.allocation_id
    Limits,         \* values of ?limit=
    Unfiltered,     \* no ?allocation_id=
    NoWalk          \* no walk is going on

ASSUME AllocationOfAssumption == AllocationOf \in [Sessions -> Allocations]
ASSUME LimitsAssumption == Limits \subseteq Nat \ {0}
ASSUME FilterAssumption == Unfiltered \notin Allocations /\ NoWalk \notin Allocations \cup {Unfiltered}

VARIABLES
    rows,       \* the settlements in order of insertion
    filter,     \* listCursor.AllocationID, the filter of the walk
    cursor,     \* listCursor.Seq, 0 where next_cursor is empty
    page,       \* sequence numbers of the last page's items
    returned,   \* those of the pages before it
    steady      \* history: the rows that the filter has matched since the walk began

walkVars == <<filter, cursor, page, returned>>
pageVars == <<attrVars, rows, walkVars, steady>>

Filters == Allocations \cup {Unfiltered}

\* The WHERE clause, for a row.
Selects(f, i) ==
    f = Unfiltered \/ (session[rows[i]] # NoSession /\ AllocationOf[session[rows[i]]] = f)

\* Mutant of After: the row the cursor names comes again.
AfterInclusive(f, n) == {i \in DOMAIN rows : i >= n /\ Selects(f, i)}

\* The rows that remain after a cursor.
After(f, n) == {i \in DOMAIN rows : i > n /\ Selects(f, i)}

\* P is the first of them, as many as the limit allows.
IsPage(P, remaining, limit) ==
    /\ \A i \in P, j \in remaining \ P : i < j
    /\ Cardinality(P) = limit \/ (P = remaining /\ Cardinality(P) < limit)

\* Mutant of NextCursor: that of the first row the page has no room for.
NextCursorBeyond(P, remaining) ==
    IF P = remaining THEN 0
    ELSE CHOOSE i \in remaining \ P : \A j \in remaining \ P : i <= j

\* That of the page's last row, if the row fetched beyond the limit shows there are more.
NextCursor(P, remaining) ==
    IF P = remaining THEN 0 ELSE CHOOSE i \in P : \A j \in P : j <= i

Page(f, n, limit) ==
    LET remaining == After(f, n)
    IN  \E P \in SUBSET remaining :
            /\ IsPage(P, remaining, limit)
            /\ page' = P
            /\ cursor' = NextCursor(P, remaining)

-----------------------------------------------------------------------------
\* A request without a cursor.
FirstPage(f, limit) ==
    /\ filter = NoWalk
    /\ filter' = f
    /\ Page(f, 0, limit)
    /\ returned' = {}
    /\ steady' = {i \in DOMAIN rows : Selects(f, i)}
    /\ UNCHANGED <<attrVars, rows>>

\* One with a cursor; it is refused unless the cursor was made for the same filter.
NextPage(f, limit) ==
    /\ filter = f
    /\ cursor # 0
    /\ Page(f, cursor, limit)
    /\ returned' = returned \cup page
    /\ UNCHANGED <<attrVars, rows, filter, steady>>

\* No next_cursor: the client has it all.
Finish ==
    /\ filter # NoWalk /\ cursor = 0
    /\ filter' = NoWalk
    /\ page' = {} /\ returned' = {} /\ steady' = {}
    /\ UNCHANGED <<attrVars, rows, cursor>>

\* Mutant of Inserted: a redemption that is canonical again gets another row.
InsertedAgain(x) == Append(rows, x)

\* A redemption that is canonical again keeps its row.
Inserted(x) == IF state[x] = "absent" THEN Append(rows, x) ELSE rows

\* A transaction of ingestion or of the chain listener.
Write ==
    /\ \/ (\E s \in Sessions, t \in Tickets : Sign(s, t)) /\ UNCHANGED rows
       \/ (\E x \in Settlements : Orphan(x)) /\ UNCHANGED rows
       \/ \E x \in Settlements :
             /\ Settle(x)
             /\ rows' = Inserted(x)
    /\ UNCHANGED walkVars
    /\ steady' = {i \in steady : Selects(filter, i)'}

-----------------------------------------------------------------------------
PageInit ==
    /\ AttrInit
    /\ rows = <<>>
    /\ filter = NoWalk /\ cursor = 0 /\ page = {} /\ returned = {}
    /\ steady = {}

PageNext ==
    \/ Write
    \/ \E f \in Filters, limit \in Limits : FirstPage(f, limit) \/ NextPage(f, limit)
    \/ Finish

PageSpec == PageInit /\ [][PageNext]_pageVars

-----------------------------------------------------------------------------
(***************************************************************************)
(* Properties                                                              *)
(***************************************************************************)
\* The rows are the settlements that exist, each once.
PageTypeOK ==
    /\ AttrTypeOK
    /\ rows \in Seq(Settlements)
    /\ \A x \in Settlements :
          state[x] # "absent" <=> \E i \in DOMAIN rows : rows[i] = x
    /\ \A i, j \in DOMAIN rows : rows[i] = rows[j] => i = j
    /\ filter \in Filters \cup {NoWalk}
    /\ cursor \in 0 .. Len(rows)
    /\ page \subseteq DOMAIN rows /\ returned \subseteq DOMAIN rows /\ steady \subseteq DOMAIN rows

\* The pages of a walk never repeat a row nor go back, whatever is inserted, orphaned
\* or attributed in between, and whatever limit each of them asks for.
NoRowTwice == \A i \in page, j \in returned : j < i

\* A row that existed when the walk began and matched its filter all along is not
\* skipped: it is among the rows of the pages so far unless the cursor is before it,
\* and in any case when the walk ends.
NothingSkipped ==
    filter # NoWalk =>
        \A i \in steady : i \in page \cup returned \/ (cursor # 0 /\ i > cursor)
=============================================================================
