----------------------------- MODULE Migrations -----------------------------
(***************************************************************************)
(* Schema migrations (src/migrations/migrations.go): several processes may *)
(* bring the same database up to their release at once.  Up reads the      *)
(* history in one statement, and then applies what was missing, each       *)
(* migration in a transaction of its own.                                  *)
(*                                                                         *)
(* Migration n is the n-th file; a release knows the first of them.        *)
(* Transactions are immediate: writers take turns, so one is one step.     *)
(***************************************************************************)
EXTENDS Integers, FiniteSets

CONSTANTS
    Processes,
    Releases    \* how many migrations each release of the program knows

ASSUME ReleasesAssumption == Releases \subseteq Nat

VARIABLES
    applied,    \* rows of table migrations
    schema,     \* migrations whose tables the database has
    release,    \* of the program that is installed
    mig,        \* Up: what each process does
    plan        \* Up: the migrations it found missing

migrationVars == <<applied, schema, release, mig, plan>>

catalog == 1 .. release

\* Mutant of Foreign: unknown rows are ignored.
ForeignGap == \E n \in catalog \ applied, m \in catalog \cap applied : n < m

\* The history is not that of this release: it has a row the release does not know,
\* or a gap.
Foreign == ~(applied \subseteq catalog) \/ \E n \in catalog \ applied, m \in applied : n < m

-----------------------------------------------------------------------------
\* List, with what it makes of the rows.
List(p) ==
    /\ mig[p] = "begin"
    /\ IF Foreign
         THEN mig' = [mig EXCEPT ![p] = "refused"] /\ UNCHANGED plan
         ELSE /\ mig' = [mig EXCEPT ![p] = "apply"]
              /\ plan' = [plan EXCEPT ![p] = catalog \ applied]
    /\ UNCHANGED <<applied, schema, release>>

Lowest(S) == CHOOSE n \in S : \A m \in S : n <= m

\* A script creates its own tables, beside those of the migrations before it.
Runs(n) == n \notin schema /\ \A m \in 1 .. n - 1 : m \in schema

\* Mutant of Present: the transaction trusts what List saw.
PresentBefore(n) == FALSE

\* Another process has applied it since.
Present(n) == n \in applied

\* apply: the script and its row in one transaction.
Apply(p) ==
    /\ mig[p] = "apply" /\ plan[p] # {}
    /\ LET n == Lowest(plan[p])
       IN  /\ plan' = [plan EXCEPT ![p] = @ \ {n}]
           /\ \/ Present(n) /\ UNCHANGED <<applied, schema, mig>>
              \/ /\ ~Present(n) /\ Runs(n)
                 /\ applied' = applied \cup {n} /\ schema' = schema \cup {n}
                 /\ UNCHANGED mig
              \/ /\ ~Present(n) /\ ~Runs(n)
                 /\ mig' = [mig EXCEPT ![p] = "broken"]
                 /\ UNCHANGED <<applied, schema>>
    /\ UNCHANGED release

Up(p) == List(p) \/ Apply(p)

Migrated(p) == mig[p] = "apply" /\ plan[p] = {}

\* `migrate down`, for which everything else is to be stopped: the last script is undone
\* and its row deleted, in one transaction.
Down ==
    /\ ~Foreign
    /\ applied # {}
    /\ LET n == CHOOSE n \in applied : \A m \in applied : m <= n
       IN  applied' = applied \ {n} /\ schema' = schema \ {n}
    /\ UNCHANGED <<release, mig, plan>>

\* Another release is installed, for which everything is to be stopped as well.
Install(r) ==
    /\ r # release
    /\ release' = r
    /\ UNCHANGED <<applied, schema, mig, plan>>

MigrationsInit ==
    /\ applied = {} /\ schema = {}
    /\ release \in Releases
    /\ mig = [p \in Processes |-> "begin"]
    /\ plan = [p \in Processes |-> {}]

-----------------------------------------------------------------------------
(***************************************************************************)
(* Properties                                                              *)
(***************************************************************************)
\* However many processes migrate at once, and wherever they are killed, the rows tell
\* what the schema has, the history has no gap, and no script meets a schema it does
\* not fit.
HistoryIsWhole ==
    /\ schema = applied
    /\ applied = 1 .. Cardinality(applied)
    /\ \A p \in Processes : mig[p] # "broken"
=============================================================================
