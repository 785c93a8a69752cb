----------------------------- MODULE FoldProofs -----------------------------
(***************************************************************************)
(* What the folds of the community modules compute, for any operator op    *)
(* and any finite set or sequence.                                         *)
(*                                                                         *)
(* A fold is a value of a function that is chosen to satisfy a recursive   *)
(* equation on the subsets of what is folded.  That one exists is proved   *)
(* by induction in first-order form: a nonempty set of finite sets has a   *)
(* minimal element.  A fold is then the last of a trace, from the base,    *)
(* one element at a time, and what is inductive along the trace is true of *)
(* the fold.                                                               *)
(***************************************************************************)
EXTENDS Integers, SequencesExt, FiniteSetTheorems, WellFoundedInduction, TLAPS

CONSTANT op(_, _)

-----------------------------------------------------------------------------
\* Among some subsets of a finite set there is one that no other of them
\* contains.
LEMMA MinimalSubset ==
    ASSUME NEW S, IsFiniteSet(S), NEW F \in SUBSET SUBSET S, F # {}
    PROVE  \E U \in F : \A V \in F : V \subseteq U => V = U
<1>1. F \subseteq FiniteSubsetsOf(S)
  BY FS_FiniteSubsetsOfFinite
<1>2. PICK U \in F : \A V \in F : <<V, U>> \notin StrictSubsetOrdering(S)
  BY <1>1, FS_StrictSubsetOrderingWellFounded, WFMin
<1> QED
  BY <1>2 DEF StrictSubsetOrdering

\* What holds of the empty set, and of a set if it holds of the set without any one of
\* its elements, holds of every finite set.
THEOREM FiniteInduction ==
    ASSUME NEW S, IsFiniteSet(S), NEW F, {} \in F,
           \A T \in SUBSET S : (T # {} /\ \A x \in T : T \ {x} \in F) => T \in F
    PROVE  S \in F
<1> DEFINE G == {T \in SUBSET S : T \notin F}
<1>1. SUFFICES ASSUME S \notin F PROVE FALSE
  OBVIOUS
<1>2. G # {} /\ G \in SUBSET SUBSET S
  BY <1>1
<1>3. PICK U \in G : \A V \in G : V \subseteq U => V = U
  <2> HIDE DEF G
  <2> QED
    BY <1>2, MinimalSubset
<1>4. ASSUME NEW x \in U PROVE U \ {x} \in F
  <2>1. U \ {x} \in SUBSET S /\ U \ {x} \subseteq U /\ U \ {x} # U
    BY <1>3, <1>4
  <2> QED
    BY <1>3, <2>1
<1> QED
  BY <1>3, <1>4

-----------------------------------------------------------------------------
(***************************************************************************)
(* The recursive equation of a fold                                        *)
(***************************************************************************)
\* FoldLeft hands op what it has before the next element, FoldSet after it.
Step(left, x, v) == IF left THEN op(v, x) ELSE op(x, v)

\* ch picks the element of a set that is folded last.
Unfolds(g, left, base, fun, ch, S) ==
    g = [T \in SUBSET S |-> IF T = {} THEN base ELSE Step(left, fun[ch[T]], g[T \ {ch[T]}])]

Picks(ch, S) == \A T \in SUBSET S : T # {} => ch[T] \in T

\* Two unfoldings of a fold agree wherever both are defined.
LEMMA UnfoldingIsUnique ==
    ASSUME NEW S, IsFiniteSet(S), NEW left, NEW base, NEW fun, NEW ch, Picks(ch, S),
           NEW T \in SUBSET S, NEW U \in SUBSET S,
           NEW g, Unfolds(g, left, base, fun, ch, T), NEW h, Unfolds(h, left, base, fun, ch, U)
    PROVE  \A V \in SUBSET (T \cap U) : g[V] = h[V]
<1> DEFINE F == {V \in SUBSET (T \cap U) : g[V] # h[V]}
<1>1. SUFFICES ASSUME F # {} PROVE FALSE
  OBVIOUS
<1>2. F \in SUBSET SUBSET S
  OBVIOUS
<1>3. PICK V \in F : \A W \in F : W \subseteq V => W = V
  <2> HIDE DEF F
  <2> QED
    BY <1>1, <1>2, MinimalSubset
<1>4. V \in SUBSET T /\ V \in SUBSET U /\ g[V] # h[V]
  BY <1>3
<1>5. /\ g[V] = IF V = {} THEN base ELSE Step(left, fun[ch[V]], g[V \ {ch[V]}])
      /\ h[V] = IF V = {} THEN base ELSE Step(left, fun[ch[V]], h[V \ {ch[V]}])
  BY <1>4 DEF Unfolds
<1>6. V # {} /\ ch[V] \in V
  BY <1>4, <1>5 DEF Picks
<1>7. V \ {ch[V]} \notin F
  BY <1>3, <1>6
<1> QED
  BY <1>4, <1>5, <1>6, <1>7

\* An unfolding over a set is one over each of its subsets.
LEMMA UnfoldingRestricts ==
    ASSUME NEW left, NEW base, NEW fun, NEW ch, NEW T, NEW U \in SUBSET T,
           NEW g, Unfolds(g, left, base, fun, ch, T)
    PROVE  Unfolds([V \in SUBSET U |-> g[V]], left, base, fun, ch, U)
<1> DEFINE h == [V \in SUBSET U |-> g[V]]
<1>1. \A V \in SUBSET U : g[V] = IF V = {} THEN base ELSE Step(left, fun[ch[V]], g[V \ {ch[V]}])
  BY DEF Unfolds
<1>2. \A V \in SUBSET U : V \ {ch[V]} \in SUBSET U
  OBVIOUS
<1> QED
  BY <1>1, <1>2 DEF Unfolds

\* Over a finite set, every fold has an unfolding.
LEMMA UnfoldingExists ==
    ASSUME NEW S, IsFiniteSet(S), NEW left, NEW base, NEW fun, NEW ch, Picks(ch, S)
    PROVE  \E g : Unfolds(g, left, base, fun, ch, S)
<1> DEFINE Solved(T) == \E g : Unfolds(g, left, base, fun, ch, T)
           F == {T \in SUBSET S : Solved(T)}
           the(T) == CHOOSE g : Unfolds(g, left, base, fun, ch, T)
           before(V) == V \ {ch[V]}
           value(V) == the(V)[V]
<1>1. \A T \in SUBSET S : Solved(T) => Unfolds(the(T), left, base, fun, ch, T)
  OBVIOUS
\* What solves T solves its subsets, and tells their values.
<1>2. ASSUME NEW T \in SUBSET S, Solved(T), NEW U \in SUBSET T
      PROVE  Solved(U) /\ value(U) = the(T)[U]
  <2>1. Unfolds(the(T), left, base, fun, ch, T)
    BY <1>1, <1>2
  <2> HIDE DEF the
  <2>2. Unfolds([V \in SUBSET U |-> the(T)[V]], left, base, fun, ch, U)
    BY <2>1, UnfoldingRestricts
  <2>3. Solved(U) /\ U \in SUBSET S
    BY <2>2
  <2>4. Unfolds(the(U), left, base, fun, ch, U)
    BY <1>1, <2>3
  <2>5. U \in SUBSET (U \cap T)
    OBVIOUS
  <2>6. the(U)[U] = the(T)[U]
    BY <2>1, <2>3, <2>4, <2>5, UnfoldingIsUnique
  <2> QED
    BY <2>3, <2>6
<1>3. ASSUME NEW U \in SUBSET S, Solved(U)
      PROVE  value(U) = IF U = {} THEN base ELSE Step(left, fun[ch[U]], value(before(U)))
  <2>1. Unfolds(the(U), left, base, fun, ch, U) /\ before(U) \in SUBSET U
    BY <1>1, <1>3
  <2>2. value(before(U)) = the(U)[before(U)]
    BY <1>2, <1>3, <2>1
  <2> HIDE DEF the
  <2>3. the(U)[U] = IF U = {} THEN base ELSE Step(left, fun[ch[U]], the(U)[U \ {ch[U]}])
    BY <2>1 DEF Unfolds
  <2> QED
    BY <2>2, <2>3
<1>4. ASSUME NEW T \in SUBSET S, T # {}, \A x \in T : Solved(T \ {x})
      PROVE  Solved(T)
  <2> DEFINE g == [V \in SUBSET T |-> IF V = {} THEN base ELSE Step(left, fun[ch[V]], value(before(V)))]
  <2> HIDE DEF the, Solved, value
  <2>1. ASSUME NEW V \in SUBSET T, V # {} PROVE g[before(V)] = value(before(V))
    <3> DEFINE W == before(V)
    <3>1. ch[V] \in V /\ W \in SUBSET T /\ W \in SUBSET S /\ ch[V] \in T /\ W \in SUBSET (T \ {ch[V]})
      BY <2>1 DEF Picks
    <3>2. Solved(T \ {ch[V]}) /\ T \ {ch[V]} \in SUBSET S
      BY <1>4, <3>1
    <3>3. Solved(W)
      BY <1>2, <3>1, <3>2
    <3>4. value(W) = IF W = {} THEN base ELSE Step(left, fun[ch[W]], value(before(W)))
      BY <1>3, <3>1, <3>3
    <3> QED
      BY <3>1, <3>4
  <2>2. g = [V \in SUBSET T |-> IF V = {} THEN base ELSE Step(left, fun[ch[V]], g[before(V)])]
    BY <2>1
  <2>3. Unfolds(g, left, base, fun, ch, T)
    BY <2>2 DEF Unfolds
  <2> QED
    BY <2>3 DEF Solved
<1>5. Solved({})
  <2>1. Unfolds([V \in SUBSET {} |-> base], left, base, fun, ch, {})
    BY DEF Unfolds
  <2> QED
    BY <2>1
<1> HIDE DEF Solved
<1>6. {} \in F /\ \A T \in SUBSET S : (T # {} /\ \A x \in T : T \ {x} \in F) => T \in F
  BY <1>4, <1>5
<1> HIDE DEF F
<1>7. S \in F
  BY <1>6, FiniteInduction
<1> QED
  BY <1>7 DEF F, Solved
-----------------------------------------------------------------------------
(***************************************************************************)
(* Traces.  The folds of op, each with a name of its own.                  *)
(***************************************************************************)
Sum(base, fun, S) == FoldFunctionOnSet(op, base, fun, S)
SetFold(base, S) == FoldSet(op, base, S)
LeftFold(base, seq) == FoldLeft(op, base, seq)

\* What t is of each subset of S comes from the subset without one of its elements.
Folds(t, base, fun, S) ==
    /\ t[{}] = base
    /\ \A T \in SUBSET S : T # {} => \E x \in T : t[T] = op(fun[x], t[T \ {x}])

\* A fold of the values of a function: the last of a trace.
THEOREM FoldFunctionTrace ==
    ASSUME NEW S, IsFiniteSet(S), NEW base, NEW fun
    PROVE  \E t : Folds(t, base, fun, S) /\ t[S] = Sum(base, fun, S)
<1> DEFINE ch == [T \in SUBSET S |-> CHOOSE x \in T : TRUE]
           Iter(g) == g = [T \in SUBSET S |-> IF T = {} THEN base
                                ELSE op(fun[CHOOSE x \in T : TRUE], g[T \ {CHOOSE x \in T : TRUE}])]
<1>1. \A T \in SUBSET S : T # {} => (CHOOSE x \in T : TRUE) \in T
  OBVIOUS
<1>2. PICK g : Unfolds(g, FALSE, base, fun, ch, S)
  BY <1>1, UnfoldingExists DEF Picks
<1>3. Iter(g)
  BY <1>2 DEF Unfolds, Step
<1>4. PICK t : Iter(t) /\ t[S] = Sum(base, fun, S)
  BY <1>3 DEF Sum, FoldFunctionOnSet, MapThenFoldSet
<1>5. \A T \in SUBSET S : t[T] = IF T = {} THEN base
                  ELSE op(fun[CHOOSE x \in T : TRUE], t[T \ {CHOOSE x \in T : TRUE}])
  BY <1>4
<1>6. t[{}] = base
  BY <1>5
<1>7. \A T \in SUBSET S : T # {} => \E x \in T : t[T] = op(fun[x], t[T \ {x}])
  BY <1>1, <1>5
<1> QED
  BY <1>4, <1>6, <1>7 DEF Folds

\* A fold of the elements of a set.
THEOREM FoldSetTrace ==
    ASSUME NEW S, IsFiniteSet(S), NEW base
    PROVE  \E t : /\ t[{}] = base
                  /\ t[S] = SetFold(base, S)
                  /\ \A T \in SUBSET S : T # {} =>
                        \E x \in T : t[T] = op(x, t[T \ {x}])
<1> DEFINE ch == [T \in SUBSET S |-> CHOOSE x \in T : TRUE]
           fun == [x \in S |-> x]
           Iter(g) == g = [T \in SUBSET S |-> IF T = {} THEN base
                                ELSE op(CHOOSE x \in T : TRUE, g[T \ {CHOOSE x \in T : TRUE}])]
<1>1. \A T \in SUBSET S : T # {} => (CHOOSE x \in T : TRUE) \in T
  OBVIOUS
<1>2. PICK g : Unfolds(g, FALSE, base, fun, ch, S)
  BY <1>1, UnfoldingExists DEF Picks
<1>3. Iter(g)
  BY <1>1, <1>2 DEF Unfolds, Step
<1>4. PICK t : Iter(t) /\ t[S] = SetFold(base, S)
  BY <1>3 DEF SetFold, FoldSet, MapThenFoldSet
<1>5. \A T \in SUBSET S : t[T] = IF T = {} THEN base
                  ELSE op(CHOOSE x \in T : TRUE, t[T \ {CHOOSE x \in T : TRUE}])
  BY <1>4
<1>6. t[{}] = base
  BY <1>5
<1>7. \A T \in SUBSET S : T # {} => \E x \in T : t[T] = op(x, t[T \ {x}])
  BY <1>1, <1>5
<1> QED
  BY <1>4, <1>6, <1>7

\* What t is of each subset of S comes from the subset without one of its elements.
SetTrace(t, base, S) ==
    /\ t[{}] = base
    /\ \A T \in SUBSET S : T # {} => \E x \in T : t[T] = op(x, t[T \ {x}])

\* A fold over a finite set has a trace, which ends at what the fold returns.
LEMMA SetTraceExists ==
    ASSUME NEW S, IsFiniteSet(S), NEW base
    PROVE  \E t : SetTrace(t, base, S) /\ t[S] = SetFold(base, S)
BY FoldSetTrace DEF SetTrace

\* A set of indices has a greatest.
LEMMA GreatestExists ==
    ASSUME NEW n \in Nat, NEW T \in SUBSET (1 .. n), T # {}
    PROVE  \E m \in T : \A y \in T : m >= y
<1> DEFINE S == 1 .. n
           above(i) == {j \in T : j >= i}
           F == {above(i) : i \in T}
<1>1. IsFiniteSet(S)
  BY FS_Interval
<1>2. F # {} /\ F \in SUBSET SUBSET S
  OBVIOUS
<1>3. PICK U \in F : \A V \in F : V \subseteq U => V = U
  <2> HIDE DEF F, S
  <2> QED
    BY <1>1, <1>2, MinimalSubset
<1>4. PICK m \in T : U = above(m)
  BY <1>3
<1>5. ASSUME NEW y \in T, ~(m >= y) PROVE FALSE
  <2>1. m \in Int /\ y \in Int /\ y > m /\ \A j \in T : j \in Int
    BY <1>5
  <2>2. m \in above(m) /\ m \notin above(y)
    BY <2>1
  <2>3. \A j \in T : j >= y => j >= m
    BY <2>1
  <2>4. above(y) \in F /\ above(y) \subseteq above(m)
    BY <2>3
  <2> HIDE DEF above, F
  <2> QED
    BY <1>3, <1>4, <2>2, <2>4
<1> QED
  BY <1>5

\* A fold over a sequence: what it is of a prefix comes from the prefix without its last
\* element.
THEOREM FoldLeftTrace ==
    ASSUME NEW n \in Nat, NEW seq, DOMAIN seq = 1 .. n, NEW base
    PROVE  \E t : /\ t[0] = base
                  /\ t[n] = LeftFold(base, seq)
                  /\ \A i \in 1 .. n : t[i] = op(t[i - 1], seq[i])
<1> DEFINE S == 1 .. n
           ch == [T \in SUBSET S |-> Max(T)]
           Iter(g) == g = [T \in SUBSET S |-> IF T = {} THEN base
                                ELSE op(g[T \ {Max(T)}], seq[Max(T)])]
<1>1. IsFiniteSet(S)
  BY FS_Interval
<1>2. \A i \in S : Max(1 .. i) = i /\ (1 .. i) \ {i} = 1 .. (i - 1) /\ 1 .. i \in SUBSET S
  <2> TAKE i \in S
  <2>1. Max(1 .. i) = i
    BY DEF Max
  <2> QED
    BY <2>1
<1>3. \A T \in SUBSET S : T # {} => Max(T) \in T
  BY GreatestExists DEF Max
<1>4. PICK g : Unfolds(g, TRUE, base, seq, ch, S)
  BY <1>1, <1>3, UnfoldingExists DEF Picks
<1>5. Iter(g)
  BY <1>4 DEF Unfolds, Step
<1>6. PICK t : Iter(t) /\ t[S] = LeftFold(base, seq)
  BY <1>5 DEF LeftFold, FoldLeft, MapThenFoldSet
<1> DEFINE s == [i \in 0 .. n |-> t[1 .. i]]
<1>7. \A i \in S : t[1 .. i] = op(t[1 .. (i - 1)], seq[i])
  <2> TAKE i \in S
  <2>1. 1 .. i # {} /\ 1 .. i \in SUBSET S
    BY <1>2
  <2>2. t[1 .. i] = op(t[(1 .. i) \ {Max(1 .. i)}], seq[Max(1 .. i)])
    BY <1>6, <2>1
  <2> QED
    BY <1>2, <2>2
<1>8. t[{}] = base /\ 1 .. 0 = {}
  BY <1>6
<1>9. s[0] = base /\ s[n] = t[S] /\ \A i \in 1 .. n : s[i] = op(s[i - 1], seq[i])
  BY <1>7, <1>8
<1> QED
  BY <1>6, <1>9

\* What holds at the start of a trace, and of each step if it holds of the one before,
\* holds at its end.
THEOREM TraceInduction ==
    ASSUME NEW n \in Nat, NEW F, 0 \in F, \A i \in 1 .. n : i - 1 \in F => i \in F
    PROVE  n \in F
<1> DEFINE T == {j \in 1 .. n + 1 : n + 1 - j \notin F}
<1>1. SUFFICES ASSUME n \notin F PROVE FALSE
  OBVIOUS
<1>2. 1 \in T /\ T \in SUBSET (1 .. n + 1)
  BY <1>1
<1>3. PICK m \in T : \A y \in T : m >= y
  <2>1. PICK k \in Nat : k = n + 1
    OBVIOUS
  <2>2. T \in SUBSET (1 .. k) /\ T # {}
    BY <1>2, <2>1
  <2> HIDE DEF T
  <2> QED
    BY <2>2, GreatestExists
<1> DEFINE i == n + 1 - m
<1>4. m \in 1 .. n + 1 /\ i \notin F /\ i \in 0 .. n
  OBVIOUS
<1>5. i \in 1 .. n /\ i - 1 \notin F
  BY <1>4
<1>6. m + 1 \in 1 .. n + 1 /\ n + 1 - (m + 1) = i - 1
  BY <1>4, <1>5
<1>7. m + 1 \in T
  BY <1>5, <1>6
<1>8. m >= m + 1
  BY <1>3, <1>7
<1> QED
  BY <1>4, <1>8

\* Any trace of a fold ends in it.
THEOREM FoldLeftIs ==
    ASSUME NEW n \in Nat, NEW seq, DOMAIN seq = 1 .. n, NEW base,
           NEW t, t[0] = base, \A i \in 1 .. n : t[i] = op(t[i - 1], seq[i])
    PROVE  LeftFold(base, seq) = t[n]
<1>1. PICK u : /\ u[0] = base /\ u[n] = LeftFold(base, seq)
               /\ \A i \in 1 .. n : u[i] = op(u[i - 1], seq[i])
  BY FoldLeftTrace
<1> DEFINE F == {i \in 0 .. n : u[i] = t[i]}
<1>2. 0 \in F
  BY <1>1
<1>3. \A i \in 1 .. n : i - 1 \in F => i \in F
  BY <1>1
<1> HIDE DEF F
<1>4. n \in F
  BY <1>2, <1>3, TraceInduction
<1> QED
  BY <1>1, <1>4 DEF F

\* What each step keeps.
THEOREM FoldLeftKeeps ==
    ASSUME NEW n \in Nat, NEW seq, DOMAIN seq = 1 .. n, NEW D, NEW base \in D,
           NEW E, \A i \in 1 .. n : seq[i] \in E, \A d \in D, e \in E : op(d, e) \in D
    PROVE  LeftFold(base, seq) \in D
<1>1. PICK t : /\ t[0] = base
               /\ t[n] = LeftFold(base, seq)
               /\ \A i \in 1 .. n : t[i] = op(t[i - 1], seq[i])
  BY FoldLeftTrace
<1> DEFINE F == {i \in 0 .. n : t[i] \in D}
<1>2. 0 \in F
  BY <1>1
<1>3. \A i \in 1 .. n : i - 1 \in F => i \in F
  BY <1>1
<1> HIDE DEF F
<1>4. n \in F
  BY <1>2, <1>3, TraceInduction
<1> QED
  BY <1>1, <1>4 DEF F

Trace(t, base, n, seq) == t[0] = base /\ \A i \in 1 .. n : t[i] = op(t[i - 1], seq[i])

\* seq is the m elements of first and then the n elements of rest.
Joins(seq, k, m, first, n, rest) ==
    /\ k = m + n /\ DOMAIN seq = 1 .. k
    /\ DOMAIN first = 1 .. m /\ \A i \in 1 .. m : first[i] = seq[i]
    /\ DOMAIN rest = 1 .. n /\ \A i \in 1 .. n : rest[i] = seq[m + i]

\* A fold over a sequence has a trace, which ends at what the fold returns.
LEMMA TraceExists ==
    ASSUME NEW n \in Nat, NEW seq, DOMAIN seq = 1 .. n, NEW base
    PROVE  \E t : Trace(t, base, n, seq) /\ t[n] = LeftFold(base, seq)
BY FoldLeftTrace DEF Trace

\* Whatever trace of it is taken, it ends at what the fold returns.
LEMMA TraceEnds ==
    ASSUME NEW n \in Nat, NEW seq, DOMAIN seq = 1 .. n, NEW base, NEW t, Trace(t, base, n, seq)
    PROVE  LeftFold(base, seq) = t[n]
BY FoldLeftIs DEF Trace

\* A trace over two sequences joined is one over the first and, from there, one
\* over the rest.
LEMMA TraceSplits ==
    ASSUME NEW k \in Nat, NEW m \in Nat, NEW n \in Nat, NEW seq, NEW first, NEW rest,
           Joins(seq, k, m, first, n, rest), NEW base, NEW t, Trace(t, base, k, seq)
    PROVE  /\ Trace(t, base, m, first)
           /\ \E u : Trace(u, t[m], n, rest) /\ u[n] = t[k]
<1> DEFINE u == [i \in 0 .. n |-> t[m + i]]
<1>1. \A i \in 1 .. n : u[i] = op(u[i - 1], rest[i])
  <2> TAKE i \in 1 .. n
  <2>1. m + i \in 1 .. k /\ m + i - 1 = m + (i - 1) /\ i - 1 \in 0 .. n /\ i \in 0 .. n
    BY DEF Joins
  <2>2. t[m + i] = op(t[m + (i - 1)], seq[m + i])
    BY <2>1 DEF Trace
  <2> QED
    BY <2>1, <2>2 DEF Joins
<1>2. u[0] = t[m] /\ u[n] = t[k]
  BY DEF Joins
<1>3. Trace(u, t[m], n, rest)
  BY <1>1, <1>2 DEF Trace
<1>4. Trace(t, base, m, first)
  BY DEF Trace, Joins
<1> QED
  BY <1>2, <1>3, <1>4

\* A fold over two sequences, one after the other.
THEOREM FoldLeftJoined ==
    ASSUME NEW k \in Nat, NEW m \in Nat, NEW n \in Nat, NEW seq, NEW first, NEW rest,
           Joins(seq, k, m, first, n, rest), NEW base
    PROVE  LeftFold(base, seq) = LeftFold(LeftFold(base, first), rest)
<1>1. DOMAIN seq = 1 .. k /\ DOMAIN first = 1 .. m /\ DOMAIN rest = 1 .. n
  BY DEF Joins
<1>2. PICK t : Trace(t, base, k, seq) /\ t[k] = LeftFold(base, seq)
  BY <1>1, TraceExists
<1>3. LeftFold(base, first) = t[m]
  BY <1>1, <1>2, TraceSplits, TraceEnds
<1>4. PICK u : Trace(u, t[m], n, rest) /\ u[n] = t[k]
  BY <1>2, TraceSplits
<1>5. LeftFold(t[m], rest) = u[n]
  BY <1>1, <1>4, TraceEnds
<1> QED
  BY <1>2, <1>3, <1>4, <1>5

\* Folding nothing.
THEOREM FoldLeftNothing ==
    ASSUME NEW base, NEW seq, DOMAIN seq = {}
    PROVE  LeftFold(base, seq) = base
<1>1. DOMAIN seq = 1 .. 0
  OBVIOUS
<1>2. PICK t : t[0] = base /\ t[0] = LeftFold(base, seq)
  BY <1>1, FoldLeftTrace
<1> QED
  BY <1>2

\* The last element is folded last.
THEOREM FoldLeftLast ==
    ASSUME NEW n \in Nat, NEW k \in Nat, k = n + 1, NEW base, NEW seq, DOMAIN seq = 1 .. k,
           NEW front, DOMAIN front = 1 .. n, \A i \in 1 .. n : front[i] = seq[i]
    PROVE  LeftFold(base, seq) = op(LeftFold(base, front), seq[k])
<1>1. PICK t : /\ t[0] = base /\ t[k] = LeftFold(base, seq)
               /\ \A i \in 1 .. k : t[i] = op(t[i - 1], seq[i])
  BY FoldLeftTrace
<1>2. \A i \in 1 .. n : t[i] = op(t[i - 1], front[i])
  BY <1>1
<1>3. LeftFold(base, front) = t[n]
  BY <1>1, <1>2, FoldLeftIs
<1>4. k \in 1 .. k /\ k - 1 = n
  OBVIOUS
<1> QED
  BY <1>1, <1>3, <1>4
-----------------------------------------------------------------------------
(***************************************************************************)
(* Sums: an op that is taken in any order                                  *)
(***************************************************************************)
Commutes(D) ==
    /\ \A a, b \in D : op(a, b) \in D
    /\ \A a, b, c \in D : op(a, op(b, c)) = op(b, op(a, c))

\* What a function on the subsets of S is that adds up fun.
AddsUp(t, base, fun, S) ==
    /\ t[{}] = base
    /\ \A T \in SUBSET S : \A x \in T : t[T] = op(fun[x], t[T \ {x}])

\* Whatever element is taken out last, it is the same sum.
LEMMA TraceAddsUp ==
    ASSUME NEW S, IsFiniteSet(S), NEW D, Commutes(D), NEW base \in D,
           NEW fun, \A x \in S : fun[x] \in D,
           NEW t, Folds(t, base, fun, S)
    PROVE  AddsUp(t, base, fun, S) /\ \A T \in SUBSET S : t[T] \in D
<1> DEFINE In(T) == t[T] \in D
           Added(T) == \A x \in T : t[T] = op(fun[x], t[T \ {x}])
           F(R) == {T \in SUBSET R : \A U \in SUBSET T : In(U) /\ Added(U)}
<1>1. ASSUME NEW T \in SUBSET S, T # {}, \A U \in SUBSET T : U # T => In(U) /\ Added(U)
      PROVE  In(T) /\ Added(T)
  <2>1. PICK c \in T : t[T] = op(fun[c], t[T \ {c}])
    BY <1>1 DEF Folds
  <2>2. /\ T \ {c} \in SUBSET T /\ T \ {c} # T /\ fun[c] \in D
    BY <2>1
  <2>3. t[T \ {c}] \in D
    BY <1>1, <2>2
  <2>4. In(T)
    <3> DEFINE u == fun[c]
               v == t[T \ {c}]
    <3>1. u \in D /\ v \in D /\ t[T] = op(u, v)
      BY <2>1, <2>2, <2>3
    <3> HIDE DEF u, v
    <3> QED
      BY <3>1 DEF Commutes
  <2>5. ASSUME NEW x \in T, x # c PROVE t[T] = op(fun[x], t[T \ {x}])
    <3> DEFINE V == T \ {c, x}
    <3>1. /\ T \ {x} \in SUBSET T /\ T \ {x} # T /\ V \in SUBSET T /\ V # T /\ fun[x] \in D
          /\ x \in T \ {c} /\ c \in T \ {x}
      BY <2>1, <2>5
    <3>2. (T \ {c}) \ {x} = V /\ (T \ {x}) \ {c} = V
      OBVIOUS
    <3>3. In(V) /\ Added(T \ {c}) /\ Added(T \ {x})
      BY <1>1, <2>2, <3>1
    <3> DEFINE u == fun[c]
               v == fun[x]
               w == t[V]
    <3>4. t[T \ {c}] = op(v, w) /\ t[T \ {x}] = op(u, w) /\ u \in D /\ v \in D /\ w \in D
      BY <2>2, <3>1, <3>2, <3>3
    <3>5. t[T] = op(u, t[T \ {c}])
      BY <2>1
    <3> HIDE DEF u, v, w
    <3>6. op(u, op(v, w)) = op(v, op(u, w))
      BY <3>4 DEF Commutes
    <3>7. t[T] = op(v, t[T \ {x}])
      BY <3>4, <3>5, <3>6
    <3> QED
      BY <3>7 DEF v
  <2> QED
    BY <2>1, <2>4, <2>5
<1>2. In({}) /\ Added({})
  BY DEF Folds
<1> HIDE DEF In, Added
<1>3. {} \in F(S)
  BY <1>2
<1>4. ASSUME NEW T \in SUBSET S, T # {}, \A x \in T : T \ {x} \in F(S)
      PROVE  T \in F(S)
  <2>1. ASSUME NEW U \in SUBSET T, U # T PROVE \E x \in T : U \in SUBSET (T \ {x})
    <3>1. PICK x \in T : x \notin U
      BY <2>1
    <3> QED
      BY <3>1
  <2>2. \A U \in SUBSET T : U # T => In(U) /\ Added(U)
    BY <1>4, <2>1
  <2> QED
    BY <1>1, <1>4, <2>2
<1> DEFINE G == F(S)
<1> HIDE DEF F
<1>5. {} \in G /\ \A T \in SUBSET S : (T # {} /\ \A x \in T : T \ {x} \in G) => T \in G
  BY <1>3, <1>4
<1>6. S \in G
  <2> HIDE DEF G
  <2> QED
    BY <1>5, FiniteInduction
<1>7. \A T \in SUBSET S : In(T) /\ Added(T)
  BY <1>6 DEF F
<1> QED
  BY <1>7 DEF AddsUp, Folds, In, Added

\* Two that add up to the same on each element of T are the same on T.
LEMMA SumsAgree ==
    ASSUME NEW T, IsFiniteSet(T), NEW base,
           NEW S, NEW fun, NEW t, AddsUp(t, base, fun, S), T \subseteq S,
           NEW R, NEW gun, NEW r, AddsUp(r, base, gun, R), T \subseteq R,
           \A x \in T : fun[x] = gun[x]
    PROVE  t[T] = r[T]
<1> DEFINE F == {U \in SUBSET T : t[U] = r[U]}
<1>1. {} \in F
  BY DEF AddsUp
<1>2. ASSUME NEW U \in SUBSET T, U # {}, \A x \in U : U \ {x} \in F
      PROVE  U \in F
  <2>1. PICK x \in U : t[U \ {x}] = r[U \ {x}]
    BY <1>2
  <2>2. U \in SUBSET S /\ U \in SUBSET R /\ fun[x] = gun[x]
    OBVIOUS
  <2>3. t[U] = op(fun[x], t[U \ {x}]) /\ r[U] = op(gun[x], r[U \ {x}])
    BY <2>2 DEF AddsUp
  <2> QED
    BY <2>1, <2>2, <2>3
<1> HIDE DEF F
<1>3. T \in F
  BY <1>1, <1>2, FiniteInduction
<1> QED
  BY <1>3 DEF F

\* Over values on which the operation commutes, the order of a sum does not
\* matter.
LEMMA SumAddsUp ==
    ASSUME NEW S, IsFiniteSet(S), NEW D, Commutes(D), NEW base \in D,
           NEW fun, \A x \in S : fun[x] \in D
    PROVE  \E t : AddsUp(t, base, fun, S) /\ t[S] = Sum(base, fun, S) /\ t[S] \in D
<1>1. PICK t : Folds(t, base, fun, S) /\ t[S] = Sum(base, fun, S)
  BY FoldFunctionTrace
<1>2. AddsUp(t, base, fun, S) /\ t[S] \in D
  BY <1>1, TraceAddsUp
<1> QED
  BY <1>1, <1>2

\* Nothing adds up to the base, and each element adds its own.
THEOREM SumEmpty ==
    ASSUME NEW D, Commutes(D), NEW base \in D, NEW fun
    PROVE  Sum(base, fun, {}) = base
<1>1. IsFiniteSet({})
  BY FS_EmptySet
<1> QED
  BY <1>1, FoldFunctionTrace DEF Folds

\* A sum is in its domain, and is any of its values and the sum of the rest.
THEOREM SumWithout ==
    ASSUME NEW S, IsFiniteSet(S), NEW D, Commutes(D), NEW base \in D,
           NEW fun, \A x \in S : fun[x] \in D
    PROVE  /\ Sum(base, fun, S) \in D
           /\ \A x \in S : Sum(base, fun, S) = op(fun[x], Sum(base, fun, S \ {x}))
<1>1. PICK t : AddsUp(t, base, fun, S) /\ t[S] = Sum(base, fun, S) /\ t[S] \in D
  BY SumAddsUp
<1>2. ASSUME NEW x \in S PROVE Sum(base, fun, S) = op(fun[x], Sum(base, fun, S \ {x}))
  <2> DEFINE R == S \ {x}
  <2>1. IsFiniteSet(R) /\ R \subseteq S
    BY FS_Subset
  <2>2. \A y \in R : fun[y] \in D
    OBVIOUS
  <2> HIDE DEF R
  <2>3. PICK r : AddsUp(r, base, fun, R) /\ r[R] = Sum(base, fun, R)
    BY <2>1, <2>2, SumAddsUp
  <2>4. R \subseteq R /\ \A y \in R : fun[y] = fun[y]
    OBVIOUS
  <2>5. t[R] = r[R]
    BY <1>1, <2>1, <2>3, <2>4, SumsAgree
  <2>6. t[S] = op(fun[x], t[S \ {x}])
    BY <1>1 DEF AddsUp
  <2> QED
    BY <1>1, <2>3, <2>5, <2>6 DEF R
<1> QED
  BY <1>1, <1>2

\* A sum depends on the summands alone.
THEOREM SumSame ==
    ASSUME NEW S, IsFiniteSet(S), NEW D, Commutes(D), NEW base \in D,
           NEW fun, \A x \in S : fun[x] \in D, NEW gun, \A x \in S : fun[x] = gun[x]
    PROVE  Sum(base, fun, S) = Sum(base, gun, S)
<1>1. PICK t : AddsUp(t, base, fun, S) /\ t[S] = Sum(base, fun, S)
  BY SumAddsUp
<1>2. PICK r : AddsUp(r, base, gun, S) /\ r[S] = Sum(base, gun, S)
  BY SumAddsUp
<1>3. S \subseteq S
  OBVIOUS
<1>4. t[S] = r[S]
  BY <1>1, <1>2, <1>3, SumsAgree
<1> QED
  BY <1>1, <1>2, <1>4
=============================================================================
