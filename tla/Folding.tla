------------------------------ MODULE Folding -------------------------------
(***************************************************************************)
(* Folds over sequences and sums over finite sets.  FoldLeft of the        *)
(* community modules, which goes through the indices from the last one     *)
(* down, folds from the left, one element after the other.  MapThenSumSet  *)
(* picks the elements in an arbitrary order; the sum does not depend on    *)
(* it.  op is the step of a fold, val is what is summed, p a parameter of  *)
(* either.                                                                 *)
(***************************************************************************)
EXTENDS SequencesExt, FiniteSetTheorems, TLAPS

CONSTANTS
    op(_, _, _),
    val(_, _)

----------------------------------------------------------------------------
(* Folds.                                                                  *)

Fold(p, base, s) == FoldLeft(LAMBDA a, x : op(p, a, x), base, s)

(* The function over the sets of indices that FoldLeft defines.            *)
IterDef(q, f, t) == IF t = {} THEN q.base ELSE op(q.p, f[t \ {Max(t)}], q.s[Max(t)])

Iter == INSTANCE Recursion WITH Def <- IterDef

(* A set of indices has a largest one.                                     *)
LEMMA MaxTop ==
    ASSUME NEW n \in Nat, NEW t \in SUBSET (1..n), t # {}
    PROVE  Max(t) \in t /\ \A y \in t : Max(t) >= y
<1> DEFINE T == {m \in Nat : \A u \in SUBSET (1..m) : u # {} => \E x \in u : \A y \in u : x >= y}
<1>1. 0 \in T
  <2>1. 1..0 = {}
    OBVIOUS
  <2> QED
    BY <2>1
<1>2. ASSUME NEW m \in Nat, m \in T PROVE m + 1 \in T
  <2> SUFFICES ASSUME NEW u \in SUBSET (1..(m + 1)), u # {}
               PROVE  \E x \in u : \A y \in u : x >= y
    OBVIOUS
  <2>1. CASE m + 1 \in u
    BY <2>1
  <2>2. CASE m + 1 \notin u
    <3>1. u \in SUBSET (1..m)
      BY <2>2
    <3> QED
      BY <3>1, <1>2
  <2> QED
    BY <2>1, <2>2
<1> HIDE DEF T
<1>3. \A m \in Nat : m \in T
  BY <1>1, <1>2, Iter!NatInSet
<1>4. \E x \in t : \A y \in t : x >= y
  BY <1>3 DEF T
<1> QED
  BY <1>4 DEF Max

(* FoldLeft is that function, at the whole domain.                         *)
LEMMA FoldIsIter ==
    ASSUME NEW p, NEW base, NEW n \in Nat, NEW s, DOMAIN s = 1..n
    PROVE  Fold(p, base, s) = Iter!Rec([p |-> p, base |-> base, s |-> s], SUBSET (1..n))[1..n]
BY DEF Fold, FoldLeft, MapThenFoldSet, Iter!Rec, IterDef

(* Sets of indices are finite.                                             *)
LEMMA SubsetsFinite ==
    ASSUME NEW n \in Nat, NEW t \in SUBSET (1..n)
    PROVE  IsFiniteSet(t) /\ Cardinality(t) \in Nat
<1>1. IsFiniteSet(1..n)
  BY FS_Interval
<1>2. IsFiniteSet(t)
  BY <1>1, FS_Subset
<1> QED
  BY <1>2, FS_CardinalityType

(* It descends along the number of indices.                                *)
LEMMA IterEquation ==
    ASSUME NEW p, NEW n \in Nat, NEW S, S = SUBSET (1..n)
    PROVE  \A t \in S : Iter!Rec(p, S)[t] = IterDef(p, Iter!Rec(p, S), t)
<1> DEFINE rank == [t \in S |-> Cardinality(t)]
<1>1. rank \in [S -> Nat]
  BY SubsetsFinite
<1>2. Iter!Descends(p, S, rank)
  <2> SUFFICES ASSUME NEW g, NEW h, NEW x \in S,
                      \A y \in S : rank[y] < rank[x] => g[y] = h[y]
               PROVE  IterDef(p, g, x) = IterDef(p, h, x)
    BY DEF Iter!Descends
  <2>1. ASSUME x # {} PROVE x \ {Max(x)} \in S /\ rank[x \ {Max(x)}] < rank[x]
    <3>1. Max(x) \in x
      BY <2>1, MaxTop
    <3>2. IsFiniteSet(x) /\ Cardinality(x) \in Nat
      BY SubsetsFinite
    <3>3. Cardinality(x \ {Max(x)}) = Cardinality(x) - 1
      BY <3>1, <3>2, FS_RemoveElement
    <3>4. x \ {Max(x)} \in S
      OBVIOUS
    <3> QED
      BY <3>2, <3>3, <3>4
  <2> HIDE DEF rank
  <2> QED
    BY <2>1 DEF IterDef
<1>3. PICK r \in [S -> Nat] : Iter!Descends(p, S, r)
  <2> HIDE DEF rank
  <2> QED
    BY <1>1, <1>2
<1> HIDE DEF rank
<1>4. ASSUME NEW t \in S PROVE Iter!Rec(p, S)[t] = IterDef(p, Iter!Rec(p, S), t)
  BY <1>3, Iter!RecEquation
<1> QED
  BY <1>4

(* The partial results of a fold.                                          *)
Runs(p, base, s, n, g) ==
    /\ g[0] = base
    /\ \A m \in 1..n : g[m] = op(p, g[m - 1], s[m])

(* A fold ends a run through its partial results.                          *)
LEMMA FoldRuns ==
    ASSUME NEW p, NEW base, NEW n \in Nat, NEW s, DOMAIN s = 1..n
    PROVE  \E g : Runs(p, base, s, n, g) /\ Fold(p, base, s) = g[n]
<1> DEFINE q == [p |-> p, base |-> base, s |-> s]
           S == SUBSET (1..n)
           f == Iter!Rec(q, S)
           g == [m \in 0..n |-> f[1..m]]
<1>1. \A t \in S : f[t] = IterDef(q, f, t)
  BY IterEquation, Zenon
<1>2. Fold(p, base, s) = g[n]
  <2>1. g[n] = f[1..n]
    <3> HIDE DEF f
    <3> QED
      OBVIOUS
  <2> QED
    BY FoldIsIter, <2>1
<1>3. g[0] = base
  <2>1. 1..0 = {} /\ 1..0 \in S
    OBVIOUS
  <2>2. g[0] = f[1..0]
    <3> HIDE DEF f
    <3> QED
      OBVIOUS
  <2>3. f[1..0] = q.base
    <3> HIDE DEF f, q, S
    <3> QED
      BY <1>1, <2>1 DEF IterDef
  <2> QED
    BY <2>2, <2>3
<1>4. ASSUME NEW m \in 1..n PROVE g[m] = op(p, g[m - 1], s[m])
  <2>1. 1..m \in S /\ 1..m # {} /\ 1..(m - 1) \in S
    <3>1. m \in Nat /\ 1 <= m /\ m <= n
      OBVIOUS
    <3>2. 1..m \subseteq 1..n /\ 1..(m - 1) \subseteq 1..n /\ m \in 1..m
      BY <3>1
    <3> QED
      BY <3>2
  <2>2. Max(1..m) = m
    <3>1. Max(1..m) \in 1..m /\ \A y \in 1..m : Max(1..m) >= y
      BY <2>1, MaxTop
    <3>2. m \in 1..m
      OBVIOUS
    <3> HIDE DEF S, f, g, q
    <3> QED
      BY <3>1, <3>2
  <2>3. (1..m) \ {m} = 1..(m - 1)
    OBVIOUS
  <2>4. f[1..m] = op(p, f[1..(m - 1)], s[m])
    <3>1. q.s = s /\ q.p = p
      OBVIOUS
    <3> HIDE DEF f, S, q
    <3> QED
      BY <1>1, <2>1, <2>2, <2>3, <3>1 DEF IterDef
  <2> HIDE DEF f
  <2> QED
    BY <2>4
<1> QED
  BY <1>2, <1>3, <1>4 DEF Runs

(* The partial results are determined.                                     *)
LEMMA RunsUnique ==
    ASSUME NEW p, NEW base, NEW n \in Nat, NEW s, NEW g, NEW h,
           Runs(p, base, s, n, g), Runs(p, base, s, n, h)
    PROVE  \A m \in 0..n : g[m] = h[m]
<1> DEFINE T == {m \in Nat : m <= n => g[m] = h[m]}
<1>1. 0 \in T
  BY DEF Runs
<1>2. ASSUME NEW m \in Nat, m \in T PROVE m + 1 \in T
  <2> SUFFICES ASSUME m + 1 <= n PROVE g[m + 1] = h[m + 1]
    OBVIOUS
  <2>1. m + 1 \in 1..n /\ (m + 1) - 1 = m
    OBVIOUS
  <2>2. g[m] = h[m]
    BY <1>2
  <2> QED
    BY <2>1, <2>2 DEF Runs
<1> HIDE DEF T
<1>3. \A m \in Nat : m \in T
  BY <1>1, <1>2, Iter!NatInSet
<1> QED
  BY <1>3 DEF T

(* Folding nothing gives the base.                                         *)
THEOREM FoldEmpty == ASSUME NEW p, NEW base PROVE Fold(p, base, <<>>) = base
<1>1. DOMAIN <<>> = 1..0
  OBVIOUS
<1>2. \E g : Runs(p, base, <<>>, 0, g) /\ Fold(p, base, <<>>) = g[0]
  BY <1>1, FoldRuns
<1> QED
  BY <1>2 DEF Runs

(* One more element is one more application.                               *)
THEOREM FoldAppend ==
    ASSUME NEW p, NEW base, NEW T, NEW s \in Seq(T), NEW x \in T
    PROVE  Fold(p, base, Append(s, x)) = op(p, Fold(p, base, s), x)
<1> DEFINE n == Len(s)
           u == Append(s, x)
<1>1. n \in Nat /\ DOMAIN s = 1..n /\ DOMAIN u = 1..(n + 1)
  OBVIOUS
<1>2. u[n + 1] = x /\ \A m \in 1..n : u[m] = s[m]
  OBVIOUS
<1> HIDE DEF n, u
<1>3. PICK g : Runs(p, base, u, n + 1, g) /\ Fold(p, base, u) = g[n + 1]
  BY <1>1, FoldRuns
<1>4. PICK h : Runs(p, base, s, n, h) /\ Fold(p, base, s) = h[n]
  BY <1>1, FoldRuns
<1>5. Runs(p, base, s, n, g)
  BY <1>1, <1>2, <1>3 DEF Runs
<1>6. g[n] = h[n]
  BY <1>1, <1>4, <1>5, RunsUnique
<1>7. g[n + 1] = op(p, g[n], x)
  <2>1. n + 1 \in 1..(n + 1) /\ (n + 1) - 1 = n
    BY <1>1
  <2> QED
    BY <2>1, <1>2, <1>3 DEF Runs
<1> QED
  BY <1>3, <1>4, <1>6, <1>7 DEF u

(* Folding two lists one after the other is folding the joined list.       *)
THEOREM FoldConcat ==
    ASSUME NEW p, NEW base, NEW T, NEW s \in Seq(T), NEW t \in Seq(T)
    PROVE  Fold(p, base, s \o t) = Fold(p, Fold(p, base, s), t)
<1> DEFINE n == Len(s)
           m == Len(t)
           u == s \o t
<1>1. /\ n \in Nat /\ m \in Nat
      /\ DOMAIN s = 1..n /\ DOMAIN t = 1..m /\ DOMAIN u = 1..(n + m)
  OBVIOUS
<1>2. /\ \A i \in 1..n : u[i] = s[i]
      /\ \A i \in 1..m : u[n + i] = t[i]
  OBVIOUS
<1> HIDE DEF n, m, u
<1>3. PICK g : Runs(p, base, u, n + m, g) /\ Fold(p, base, u) = g[n + m]
  BY <1>1, FoldRuns
<1>4. PICK h : Runs(p, base, s, n, h) /\ Fold(p, base, s) = h[n]
  BY <1>1, FoldRuns
<1>5. Runs(p, base, s, n, g)
  BY <1>1, <1>2, <1>3 DEF Runs
<1>6. g[n] = Fold(p, base, s)
  BY <1>1, <1>4, <1>5, RunsUnique
<1> DEFINE b == Fold(p, base, s)
           f == [i \in 0..m |-> g[n + i]]
<1> HIDE DEF b
<1>7. Runs(p, b, t, m, f)
  <2>1. f[0] = b
    BY <1>1, <1>6 DEF b
  <2>2. ASSUME NEW i \in 1..m PROVE f[i] = op(p, f[i - 1], t[i])
    <3>1. n + i \in 1..(n + m) /\ (n + i) - 1 = n + (i - 1) /\ i - 1 \in 0..m /\ i \in 0..m
      BY <1>1
    <3>2. g[n + i] = op(p, g[(n + i) - 1], u[n + i])
      BY <1>3, <3>1 DEF Runs
    <3> QED
      BY <1>2, <3>1, <3>2
  <2> HIDE DEF f
  <2> QED
    BY <2>1, <2>2 DEF Runs
<1>8. f[m] = g[n + m]
  BY <1>1
<1> HIDE DEF f
<1>9. PICK k : Runs(p, b, t, m, k) /\ Fold(p, b, t) = k[m]
  BY <1>1, FoldRuns
<1>10. f[m] = k[m]
  BY <1>1, <1>7, <1>9, RunsUnique
<1> QED
  BY <1>3, <1>8, <1>9, <1>10 DEF b, u

(* Steps that agree on the elements of a list give the same fold.          *)
THEOREM FoldSame ==
    ASSUME NEW p, NEW q, NEW base, NEW T, NEW s \in Seq(T),
           \A a : \A i \in 1..Len(s) : op(p, a, s[i]) = op(q, a, s[i])
    PROVE  Fold(p, base, s) = Fold(q, base, s)
<1> DEFINE n == Len(s)
<1>1. n \in Nat /\ DOMAIN s = 1..n
  OBVIOUS
<1>2. \A a : \A i \in 1..n : op(p, a, s[i]) = op(q, a, s[i])
  OBVIOUS
<1> HIDE DEF n
<1>3. PICK g : Runs(p, base, s, n, g) /\ Fold(p, base, s) = g[n]
  BY <1>1, FoldRuns
<1>4. PICK h : Runs(q, base, s, n, h) /\ Fold(q, base, s) = h[n]
  BY <1>1, FoldRuns
<1>5. Runs(q, base, s, n, g)
  BY <1>2, <1>3 DEF Runs
<1> QED
  BY <1>1, <1>3, <1>4, <1>5, RunsUnique

(* What every step preserves holds at the end.                             *)
THEOREM FoldInSet ==
    ASSUME NEW p, NEW base, NEW T, NEW s \in Seq(T), NEW S, base \in S,
           \A a \in S : \A i \in 1..Len(s) : op(p, a, s[i]) \in S
    PROVE  Fold(p, base, s) \in S
<1> DEFINE n == Len(s)
<1>1. n \in Nat /\ DOMAIN s = 1..n
  OBVIOUS
<1>2. \A a \in S : \A i \in 1..n : op(p, a, s[i]) \in S
  OBVIOUS
<1> HIDE DEF n
<1>3. PICK g : Runs(p, base, s, n, g) /\ Fold(p, base, s) = g[n]
  BY <1>1, FoldRuns
<1> DEFINE Z == {m \in Nat : m <= n => g[m] \in S}
<1>4. 0 \in Z
  BY <1>3 DEF Runs
<1>5. ASSUME NEW m \in Nat, m \in Z PROVE m + 1 \in Z
  <2> SUFFICES ASSUME m + 1 <= n PROVE g[m + 1] \in S
    OBVIOUS
  <2>1. m + 1 \in 1..n /\ (m + 1) - 1 = m /\ g[m] \in S
    BY <1>1, <1>5
  <2> QED
    BY <1>2, <1>3, <2>1 DEF Runs
<1> HIDE DEF Z
<1>6. \A m \in Nat : m \in Z
  BY <1>4, <1>5, Iter!NatInSet
<1> QED
  BY <1>1, <1>3, <1>6 DEF Z

----------------------------------------------------------------------------
(* Sums.                                                                   *)

Sum(p, S) == MapThenSumSet(LAMBDA x : val(p, x), S)

Pick(t) == CHOOSE x \in t : TRUE

SumDef(p, f, t) == IF t = {} THEN 0 ELSE val(p, Pick(t)) + f[t \ {Pick(t)}]

SumIter == INSTANCE Recursion WITH Def <- SumDef

(* What is summed are numbers.                                             *)
Numbers(p, S) == \A x \in S : val(p, x) \in Int

(* MapThenSumSet is the recursive function of SumDef, at the whole set.    *)
LEMMA SumIsIter == \A p, S : Sum(p, S) = SumIter!Rec(p, SUBSET S)[S]
BY DEF Sum, MapThenSumSet, MapThenFoldSet, SumIter!Rec, SumDef, Pick

(* Taking one element out of a finite set.                                 *)
LEMMA Smaller ==
    ASSUME NEW t, IsFiniteSet(t), NEW x \in t
    PROVE  /\ IsFiniteSet(t \ {x})
           /\ Cardinality(t) \in Nat
           /\ Cardinality(t \ {x}) = Cardinality(t) - 1
           /\ Cardinality(t \ {x}) \in Nat
BY FS_RemoveElement, FS_CardinalityType

(* It descends along the cardinality.                                      *)
LEMMA SumEquation ==
    ASSUME NEW p, NEW S, IsFiniteSet(S)
    PROVE  \A t \in SUBSET S : SumIter!Rec(p, SUBSET S)[t] = SumDef(p, SumIter!Rec(p, SUBSET S), t)
<1> DEFINE D == SUBSET S
           rank == [t \in D |-> Cardinality(t)]
<1>1. \A t \in D : IsFiniteSet(t)
  BY FS_Subset
<1>2. rank \in [D -> Nat]
  BY <1>1, FS_CardinalityType
<1>3. SumIter!Descends(p, D, rank)
  <2> SUFFICES ASSUME NEW g, NEW h, NEW t \in D,
                      \A y \in D : rank[y] < rank[t] => g[y] = h[y]
               PROVE  SumDef(p, g, t) = SumDef(p, h, t)
    BY DEF SumIter!Descends
  <2>1. ASSUME t # {} PROVE t \ {Pick(t)} \in D /\ rank[t \ {Pick(t)}] < rank[t]
    <3>1. Pick(t) \in t
      BY <2>1 DEF Pick
    <3>2. /\ Cardinality(t) \in Nat
          /\ Cardinality(t \ {Pick(t)}) = Cardinality(t) - 1
      BY <1>1, <3>1, Smaller
    <3> QED
      BY <3>2
  <2> HIDE DEF rank, D
  <2> QED
    BY <2>1 DEF SumDef
<1>4. PICK r \in [D -> Nat] : SumIter!Descends(p, D, r)
  <2> HIDE DEF rank, D
  <2> QED
    BY <1>2, <1>3
<1> HIDE DEF D
<1>5. ASSUME NEW t \in D PROVE SumIter!Rec(p, D)[t] = SumDef(p, SumIter!Rec(p, D), t)
  BY <1>4, SumIter!RecEquation
<1> QED
  BY <1>5 DEF D

(* The partial sums are sums.                                              *)
LEMMA PartialSum ==
    ASSUME NEW p, NEW S, IsFiniteSet(S), NEW t \in SUBSET S
    PROVE  SumIter!Rec(p, SUBSET S)[t] = Sum(p, t)
<1> DEFINE f == SumIter!Rec(p, SUBSET S)
           g == SumIter!Rec(p, SUBSET t)
           T == {n \in Nat : \A u \in SUBSET t : Cardinality(u) = n => f[u] = g[u]}
<1>1. IsFiniteSet(t)
  BY FS_Subset
<1>2. \A u \in SUBSET t : f[u] = SumDef(p, f, u) /\ g[u] = SumDef(p, g, u)
  BY <1>1, SumEquation
<1>3. \A u \in SUBSET t : IsFiniteSet(u) /\ Cardinality(u) \in Nat
  BY <1>1, FS_Subset, FS_CardinalityType
<1> HIDE DEF f, g
<1>4. 0 \in T
  <2> SUFFICES ASSUME NEW u \in SUBSET t, Cardinality(u) = 0 PROVE f[u] = g[u]
    OBVIOUS
  <2>1. u = {}
    BY <1>3, FS_EmptySet
  <2> QED
    BY <1>2, <2>1 DEF SumDef
<1>5. ASSUME NEW n \in Nat, n \in T PROVE n + 1 \in T
  <2> SUFFICES ASSUME NEW u \in SUBSET t, Cardinality(u) = n + 1 PROVE f[u] = g[u]
    OBVIOUS
  <2>1. u # {}
    BY FS_EmptySet
  <2>2. Pick(u) \in u
    BY <2>1 DEF Pick
  <2>3. Cardinality(u \ {Pick(u)}) = n
    BY <1>3, <2>2, Smaller
  <2>4. f[u \ {Pick(u)}] = g[u \ {Pick(u)}]
    BY <1>5, <2>3
  <2> QED
    BY <1>2, <2>1, <2>4 DEF SumDef
<1> HIDE DEF T
<1>6. \A n \in Nat : n \in T
  BY <1>4, <1>5, SumIter!NatInSet
<1>7. f[t] = g[t]
  BY <1>3, <1>6 DEF T
<1> QED
  BY <1>7, SumIsIter DEF f, g

(* The equation of the sum, in the order of the CHOOSE.                    *)
LEMMA SumPick ==
    ASSUME NEW p, NEW S, IsFiniteSet(S), S # {}
    PROVE  /\ Pick(S) \in S
           /\ Sum(p, S) = val(p, Pick(S)) + Sum(p, S \ {Pick(S)})
<1> DEFINE f == SumIter!Rec(p, SUBSET S)
<1>1. f[S] = SumDef(p, f, S)
  BY SumEquation
<1>2. f[S] = Sum(p, S) /\ f[S \ {Pick(S)}] = Sum(p, S \ {Pick(S)})
  BY PartialSum
<1> HIDE DEF f
<1>3. Pick(S) \in S
  BY DEF Pick
<1> QED
  BY <1>1, <1>2, <1>3 DEF SumDef

(* The sum over no elements is zero.                                       *)
THEOREM SumEmpty == \A p : Sum(p, {}) = 0
<1> SUFFICES ASSUME NEW p PROVE Sum(p, {}) = 0
  OBVIOUS
<1>1. IsFiniteSet({})
  BY FS_EmptySet
<1>2. SumIter!Rec(p, SUBSET {})[{}] = SumDef(p, SumIter!Rec(p, SUBSET {}), {})
  BY <1>1, SumEquation
<1> QED
  BY <1>2, SumIsIter DEF SumDef

(* A sum of integers is an integer, a sum of naturals a natural.           *)
THEOREM SumType ==
    ASSUME NEW p, NEW S, IsFiniteSet(S), Numbers(p, S)
    PROVE  /\ Sum(p, S) \in Int
           /\ (\A x \in S : val(p, x) >= 0) => Sum(p, S) >= 0
<1> DEFINE T == {n \in Nat : \A u \in SUBSET S : Cardinality(u) = n =>
                   /\ Sum(p, u) \in Int
                   /\ (\A x \in S : val(p, x) >= 0) => Sum(p, u) >= 0}
<1>1. \A u \in SUBSET S : IsFiniteSet(u) /\ Cardinality(u) \in Nat
  BY FS_Subset, FS_CardinalityType
<1>2. 0 \in T
  <2>1. \A u \in SUBSET S : Cardinality(u) = 0 => u = {}
    BY <1>1, FS_EmptySet
  <2> QED
    BY <2>1, SumEmpty
<1>3. ASSUME NEW n \in Nat, n \in T PROVE n + 1 \in T
  <2> SUFFICES ASSUME NEW u \in SUBSET S, Cardinality(u) = n + 1
               PROVE  /\ Sum(p, u) \in Int
                      /\ (\A x \in S : val(p, x) >= 0) => Sum(p, u) >= 0
    OBVIOUS
  <2>1. u # {}
    BY FS_EmptySet
  <2>2. Pick(u) \in u /\ Sum(p, u) = val(p, Pick(u)) + Sum(p, u \ {Pick(u)})
    BY <1>1, <2>1, SumPick
  <2>3. Cardinality(u \ {Pick(u)}) = n
    BY <1>1, <2>2, Smaller
  <2>4. /\ Sum(p, u \ {Pick(u)}) \in Int
        /\ (\A x \in S : val(p, x) >= 0) => Sum(p, u \ {Pick(u)}) >= 0
    BY <1>3, <2>3
  <2> QED
    BY <2>2, <2>4 DEF Numbers
<1> HIDE DEF T
<1>4. \A n \in Nat : n \in T
  BY <1>2, <1>3, SumIter!NatInSet
<1> QED
  BY <1>1, <1>4 DEF T

(* Any element can be taken out first.                                     *)
THEOREM SumRemove ==
    ASSUME NEW p, NEW S, IsFiniteSet(S), Numbers(p, S), NEW z \in S
    PROVE  Sum(p, S) = val(p, z) + Sum(p, S \ {z})
<1> DEFINE T == {n \in Nat : \A u \in SUBSET S : Cardinality(u) = n =>
                   \A x \in u : Sum(p, u) = val(p, x) + Sum(p, u \ {x})}
<1>1. \A u \in SUBSET S : IsFiniteSet(u) /\ Cardinality(u) \in Nat
  BY FS_Subset, FS_CardinalityType
<1>2. 0 \in T
  <2>1. \A u \in SUBSET S : Cardinality(u) = 0 => u = {}
    BY <1>1, FS_EmptySet
  <2> QED
    BY <2>1
<1>3. ASSUME NEW n \in Nat, n \in T PROVE n + 1 \in T
  <2> SUFFICES ASSUME NEW u \in SUBSET S, Cardinality(u) = n + 1, NEW x \in u
               PROVE  Sum(p, u) = val(p, x) + Sum(p, u \ {x})
    OBVIOUS
  <2> DEFINE y == Pick(u)
  <2>1. y \in u /\ Sum(p, u) = val(p, y) + Sum(p, u \ {y})
    BY <1>1, SumPick
  <2> HIDE DEF y
  <2>2. CASE x = y
    BY <2>1, <2>2
  <2>3. CASE x # y
    <3>1. Cardinality(u \ {x}) = n /\ Cardinality(u \ {y}) = n
      BY <1>1, <2>1, Smaller
    <3>2. /\ Sum(p, u \ {y}) = val(p, x) + Sum(p, (u \ {y}) \ {x})
          /\ Sum(p, u \ {x}) = val(p, y) + Sum(p, (u \ {x}) \ {y})
      BY <1>3, <2>1, <2>3, <3>1
    <3>3. (u \ {y}) \ {x} = (u \ {x}) \ {y}
      OBVIOUS
    <3>4. Sum(p, (u \ {x}) \ {y}) \in Int
      <4>1. IsFiniteSet((u \ {x}) \ {y}) /\ Numbers(p, (u \ {x}) \ {y})
        BY <1>1 DEF Numbers
      <4> QED
        BY <4>1, SumType
    <3>5. val(p, x) \in Int /\ val(p, y) \in Int
      BY <2>1 DEF Numbers
    <3> DEFINE a == Sum(p, (u \ {x}) \ {y})
    <3>6. Sum(p, u \ {y}) = val(p, x) + a /\ Sum(p, u \ {x}) = val(p, y) + a
      BY <3>2, <3>3
    <3>7. a \in Int
      BY <3>4
    <3> HIDE DEF a, T
    <3> QED
      BY <2>1, <3>5, <3>6, <3>7
  <2> QED
    BY <2>2, <2>3
<1> HIDE DEF T
<1>4. \A n \in Nat : n \in T
  BY <1>2, <1>3, SumIter!NatInSet
<1> QED
  BY <1>1, <1>4 DEF T

(* The sum depends on the summands only.                                   *)
THEOREM SumSame ==
    ASSUME NEW p, NEW q, NEW S, IsFiniteSet(S), \A x \in S : val(p, x) = val(q, x)
    PROVE  Sum(p, S) = Sum(q, S)
<1> DEFINE T == {n \in Nat : \A u \in SUBSET S : Cardinality(u) = n => Sum(p, u) = Sum(q, u)}
<1>1. \A u \in SUBSET S : IsFiniteSet(u) /\ Cardinality(u) \in Nat
  BY FS_Subset, FS_CardinalityType
<1>2. 0 \in T
  <2>1. \A u \in SUBSET S : Cardinality(u) = 0 => u = {}
    BY <1>1, FS_EmptySet
  <2> QED
    BY <2>1, SumEmpty
<1>3. ASSUME NEW n \in Nat, n \in T PROVE n + 1 \in T
  <2> SUFFICES ASSUME NEW u \in SUBSET S, Cardinality(u) = n + 1
               PROVE  Sum(p, u) = Sum(q, u)
    OBVIOUS
  <2>1. u # {}
    BY FS_EmptySet
  <2>2. /\ Pick(u) \in u
        /\ Sum(p, u) = val(p, Pick(u)) + Sum(p, u \ {Pick(u)})
        /\ Sum(q, u) = val(q, Pick(u)) + Sum(q, u \ {Pick(u)})
    BY <1>1, <2>1, SumPick
  <2>3. Cardinality(u \ {Pick(u)}) = n
    BY <1>1, <2>2, Smaller
  <2>4. Sum(p, u \ {Pick(u)}) = Sum(q, u \ {Pick(u)})
    BY <1>3, <2>3
  <2> QED
    BY <2>2, <2>4
<1> HIDE DEF T
<1>4. \A n \in Nat : n \in T
  BY <1>2, <1>3, SumIter!NatInSet
<1> QED
  BY <1>1, <1>4 DEF T
=============================================================================
