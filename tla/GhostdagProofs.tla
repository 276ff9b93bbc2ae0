--------------------------- MODULE GhostdagProofs ---------------------------
(***************************************************************************)
(* What the operators of Ghostdag do with any engine value e, for every    *)
(* set of hashes and every anticone bound k: what a block is weighed, what *)
(* it merges, how the total order lists it, which blocks are blue, and     *)
(* that add_block preserves all of that.  The engine by itself             *)
(* (DagEngineProofs) and the engine inside a node, which is built block by *)
(* block, rebuilt by prune and replayed from a log (DagNodeProofs), use    *)
(* the same facts.                                                         *)
(***************************************************************************)
EXTENDS Ghostdag, FiniteSetTheorems, WellFoundedInduction, TLAPS

(* A set of blocks whose weights are natural numbers.                      *)
Weighed(e, S) ==
    /\ S \subseteq Nat
    /\ \A x \in S : e.gd[x].blue_work \in Nat

(* The order by (blue work, hash) is total on weighed blocks, so a finite  *)
(* non-empty set of them has a heaviest one: the iterator's max() that     *)
(* find_selected_parent unwraps.                                           *)
LEMMA HeaviestExists ==
    ASSUME NEW e, NEW S, Weighed(e, S), IsFiniteSet(S), S # {}
    PROVE  \E p \in S : \A q \in S \ {p} : Lighter(e, q, p)
<1> DEFINE Above(x) == {y \in S : Lighter(e, x, y)}
           T == {Above(x) : x \in S}
           R == StrictSubsetOrdering(S)
<1>1. T \subseteq FiniteSubsetsOf(S)
  <2> SUFFICES ASSUME NEW x \in S PROVE Above(x) \in FiniteSubsetsOf(S)
    OBVIOUS
  <2>1. Above(x) \in SUBSET S
    OBVIOUS
  <2>2. IsFiniteSet(Above(x))
    BY <2>1, FS_Subset
  <2> QED
    BY <2>1, <2>2 DEF FiniteSubsetsOf
<1>2. T # {}
  OBVIOUS
<1>3. IsWellFoundedOn(R, FiniteSubsetsOf(S))
  BY FS_StrictSubsetOrderingWellFounded
<1>4. PICK A \in T : \A B \in T : ~(<<B, A>> \in R)
  <2> HIDE DEF T, R
  <2> QED
    BY <1>1, <1>2, <1>3, WFMin
<1>5. PICK p \in S : A = Above(p)
  BY <1>4
<1>6. Above(p) = {}
  <2> SUFFICES ASSUME NEW y \in Above(p) PROVE FALSE
    OBVIOUS
  <2>1. Above(y) \subseteq Above(p)
    <3> SUFFICES ASSUME NEW z \in S, Lighter(e, y, z)
                 PROVE  Lighter(e, p, z)
      OBVIOUS
    <3>1. y \in S /\ Lighter(e, p, y)
      OBVIOUS
    <3> QED
      BY <3>1 DEF Lighter, Weighed
  <2>2. y \notin Above(y)
    BY DEF Lighter, Weighed
  <2>3. <<Above(y), Above(p)>> \in R
    BY <2>1, <2>2 DEF StrictSubsetOrdering
  <2> QED
    BY <1>4, <1>5, <2>3
<1>7. \A q \in S \ {p} : Lighter(e, q, p)
  BY <1>6 DEF Lighter, Weighed
<1> QED
  BY <1>7

(* find_selected_parent returns one of the parents, and the heaviest.      *)
LEMMA SelectedParent ==
    ASSUME NEW e, NEW ps, Weighed(e, ps), IsFiniteSet(ps), ps # {}
    PROVE  /\ FindSelectedParent(e, ps) \in ps
           /\ \A q \in ps \ {FindSelectedParent(e, ps)} :
                 Lighter(e, q, FindSelectedParent(e, ps))
BY HeaviestExists DEF FindSelectedParent

(* What the GHOSTDAG data of a new block is, whatever the colouring does:  *)
(* blues and reds split the mergeset, the selected parent is blue, and the *)
(* block outweighs its selected parent, hence each of its parents.         *)
LEMMA DataFacts ==
    ASSUME NEW e, NEW ps, Weighed(e, Blocks(e)), IsFiniteSet(Blocks(e)),
           ps \subseteq Blocks(e), ps # {},
           e.past \in [Blocks(e) -> SUBSET Blocks(e)]
    PROVE  LET d  == GhostdagData(e, ps)
               sp == FindSelectedParent(e, ps)
           IN  /\ sp \in ps
               /\ d.selected_parent = sp
               /\ sp \in d.blues
               /\ d.blues \cap d.reds = {}
               /\ d.blues \cup d.reds = {sp} \cup UnorderedMergeset(e, sp, ps)
               /\ d.blue_work \in Nat
               /\ \A p \in ps : e.gd[p].blue_work < d.blue_work
<1> DEFINE d     == GhostdagData(e, ps)
           sp    == FindSelectedParent(e, ps)
           ms    == UnorderedMergeset(e, sp, ps)
           blues == {sp} \cup (ms \cap ColorMergeset(e, sp, ms).blues)
<1>1. IsFiniteSet(ps) /\ Weighed(e, ps)
  BY FS_Subset DEF Weighed
<1>2. /\ sp \in ps
      /\ \A q \in ps \ {sp} : Lighter(e, q, sp)
  BY <1>1, SelectedParent
<1>3. /\ d.selected_parent = sp
      /\ d.blues = blues
      /\ d.reds = ms \ blues
      /\ d.blue_work = e.gd[sp].blue_work + Cardinality(blues)
  BY DEF GhostdagData, BlueWork
<1>4. ms \subseteq Blocks(e)
  BY DEF UnorderedMergeset
<1>5. IsFiniteSet(blues) /\ blues # {}
  <2>1. blues \in SUBSET Blocks(e)
    BY <1>2, <1>4
  <2> QED
    BY <2>1, FS_Subset
<1>6. Cardinality(blues) \in Nat /\ Cardinality(blues) # 0
  BY <1>5, FS_CardinalityType, FS_EmptySet
<1>7. e.gd[sp].blue_work \in Nat
  BY <1>1, <1>2 DEF Weighed
<1>8. d.blue_work \in Nat /\ e.gd[sp].blue_work < d.blue_work
  <2> HIDE DEF blues, sp, d
  <2> QED
    BY <1>3, <1>6, <1>7
<1>9. \A p \in ps : e.gd[p].blue_work < d.blue_work
  <2> SUFFICES ASSUME NEW p \in ps PROVE e.gd[p].blue_work < d.blue_work
    OBVIOUS
  <2>1. e.gd[p].blue_work \in Nat /\ e.gd[p].blue_work <= e.gd[sp].blue_work
    BY <1>1, <1>2, <1>7 DEF Weighed, Lighter
  <2> HIDE DEF sp, d
  <2> QED
    BY <1>7, <1>8, <2>1
<1> QED
  BY <1>2, <1>3, <1>8, <1>9

----------------------------------------------------------------------------
(* Sorting.                                                                *)

(* The order by (blue work, hash) is a strict total order.                 *)
LEMMA LighterOrder ==
    ASSUME NEW e, NEW S, Weighed(e, S)
    PROVE  /\ \A x \in S : ~Lighter(e, x, x)
           /\ \A x, y \in S : x = y \/ Lighter(e, x, y) \/ Lighter(e, y, x)
           /\ \A x, y, z \in S : Lighter(e, x, y) /\ Lighter(e, y, z) => Lighter(e, x, z)
<1>1. \A x \in S : x \in Nat /\ e.gd[x].blue_work \in Nat
  BY DEF Weighed
<1>2. ASSUME NEW x \in S PROVE ~Lighter(e, x, x)
  BY <1>1 DEF Lighter
<1>3. ASSUME NEW x \in S, NEW y \in S
      PROVE  x = y \/ Lighter(e, x, y) \/ Lighter(e, y, x)
  BY <1>1 DEF Lighter
<1>4. ASSUME NEW x \in S, NEW y \in S, NEW z \in S, Lighter(e, x, y), Lighter(e, y, z)
      PROVE  Lighter(e, x, z)
  <2>1. /\ x \in Nat /\ y \in Nat /\ z \in Nat
        /\ e.gd[x].blue_work \in Nat /\ e.gd[y].blue_work \in Nat /\ e.gd[z].blue_work \in Nat
    BY <1>1
  <2> QED
    BY <1>4, <2>1 DEF Lighter
<1> QED
  BY <1>2, <1>3, <1>4

(* SortBlocks lists the blocks of a set in that order, each at the place   *)
(* that the number of lighter ones gives it.                               *)
LEMMA RankedBlocks ==
    ASSUME NEW e, NEW S, Weighed(e, S), IsFiniteSet(S)
    PROVE  LET s == SortBlocks(e, S)
           IN  /\ s \in Seq(S)
               /\ Len(s) = Cardinality(S)
               /\ \A x \in S : \E i \in 1..Len(s) : s[i] = x
               /\ \A i, j \in 1..Len(s) : i < j => Lighter(e, s[i], s[j])
               /\ \A i \in 1..Len(s) : Cardinality({y \in S : Lighter(e, y, s[i])}) = i - 1
               /\ \A x, y \in S :
                     Cardinality({z \in S : Lighter(e, z, x)})
                       = Cardinality({z \in S : Lighter(e, z, y)}) => x = y
<1> DEFINE Under(x) == {y \in S : Lighter(e, y, x)}
           n == Cardinality(S)
           r == [x \in S |-> Cardinality(Under(x)) + 1]
           s == SortBlocks(e, S)
<1>1. n \in Nat
  BY FS_CardinalityType
<1>2. \A x \in S : IsFiniteSet(Under(x)) /\ Cardinality(Under(x)) \in Nat
  <2> SUFFICES ASSUME NEW x \in S
               PROVE  IsFiniteSet(Under(x)) /\ Cardinality(Under(x)) \in Nat
    OBVIOUS
  <2>1. Under(x) \in SUBSET S
    OBVIOUS
  <2> HIDE DEF Under
  <2> QED
    BY <2>1, FS_Subset, FS_CardinalityType
<1>3. ASSUME NEW x \in S PROVE Cardinality(Under(x)) < n
  <2>1. Under(x) \in SUBSET S /\ x \notin Under(x)
    BY LighterOrder
  <2> HIDE DEF Under
  <2>2. Cardinality(Under(x)) <= n /\ (Cardinality(Under(x)) = n => Under(x) = S)
    BY <2>1, FS_Subset
  <2> QED
    BY <1>1, <1>2, <2>1, <2>2
<1>4. ASSUME NEW x \in S, NEW y \in S, Lighter(e, x, y)
      PROVE  Cardinality(Under(x)) < Cardinality(Under(y))
  <2>1. Under(x) \in SUBSET Under(y) /\ x \in Under(y) /\ x \notin Under(x)
    BY <1>4, LighterOrder
  <2> HIDE DEF Under
  <2>2. /\ Cardinality(Under(x)) <= Cardinality(Under(y))
        /\ Cardinality(Under(x)) = Cardinality(Under(y)) => Under(x) = Under(y)
    BY <1>2, <2>1, FS_Subset
  <2> QED
    BY <1>2, <2>1, <2>2
<1>5. r \in Injection(S, 1..n)
  <2>1. r \in [S -> 1..n]
    BY <1>1, <1>2, <1>3
  <2>2. \A x, y \in S : r[x] = r[y] => x = y
    <3> SUFFICES ASSUME NEW x \in S, NEW y \in S, r[x] = r[y], x # y PROVE FALSE
      OBVIOUS
    <3>1. Cardinality(Under(x)) = Cardinality(Under(y))
      BY <1>2
    <3>2. Lighter(e, x, y) \/ Lighter(e, y, x)
      BY LighterOrder
    <3> HIDE DEF Under
    <3> QED
      BY <1>2, <1>4, <3>1, <3>2
  <2> HIDE DEF r
  <2> QED
    BY <2>1, <2>2 DEF Injection, IsInjective
<1>6. \A i \in 1..n : \E x \in S : r[x] = i
  <2>1. IsFiniteSet(1..n) /\ Cardinality(1..n) = n
    BY <1>1, FS_Interval
  <2> HIDE DEF r
  <2>2. r \in Surjection(S, 1..n)
    BY <1>5, <2>1, FS_Injection
  <2> QED
    BY <2>2 DEF Surjection
<1>7. s = [i \in 1..n |-> CHOOSE x \in S : Cardinality(Under(x)) = i - 1]
  BY DEF SortBlocks
<1> HIDE DEF s
<1>8. ASSUME NEW i \in 1..n PROVE s[i] \in S /\ r[s[i]] = i
  <2>1. PICK x \in S : r[x] = i
    BY <1>6
  <2>2. Cardinality(Under(x)) = i - 1
    BY <1>2, <2>1
  <2>3. s[i] \in S /\ Cardinality(Under(s[i])) = i - 1
    <3> HIDE DEF Under, r
    <3> QED
      BY <1>7, <2>2
  <2> QED
    BY <2>3
<1>9. s \in Seq(S) /\ Len(s) = n
  <2>1. s \in [1..n -> S]
    BY <1>7, <1>8
  <2> QED
    BY <1>1, <2>1
<1>10. ASSUME NEW x \in S PROVE \E i \in 1..n : s[i] = x
  <2> HIDE DEF r
  <2>1. r[x] \in 1..n
    BY <1>5 DEF Injection
  <2>2. s[r[x]] \in S /\ r[s[r[x]]] = r[x]
    BY <1>8, <2>1
  <2>3. s[r[x]] = x
    BY <1>5, <2>2 DEF Injection, IsInjective
  <2> QED
    BY <2>1, <2>3
<1>11. ASSUME NEW i \in 1..n, NEW j \in 1..n, i < j PROVE Lighter(e, s[i], s[j])
  <2>1. s[i] \in S /\ s[j] \in S /\ r[s[i]] = i /\ r[s[j]] = j
    BY <1>8
  <2>2. Cardinality(Under(s[i])) < Cardinality(Under(s[j]))
    <3>1. Cardinality(Under(s[i])) + 1 = i /\ Cardinality(Under(s[j])) + 1 = j
      BY <2>1
    <3> HIDE DEF Under, r
    <3> QED
      BY <1>2, <1>11, <2>1, <3>1
  <2>3. s[i] # s[j]
    BY <1>11, <2>1
  <2>4. ~Lighter(e, s[j], s[i])
    <3> HIDE DEF Under, r
    <3> QED
      BY <1>2, <1>4, <2>1, <2>2
  <2> QED
    BY <2>1, <2>3, <2>4, LighterOrder
<1>12. \A i \in 1..n : Cardinality(Under(s[i])) = i - 1
  <2> SUFFICES ASSUME NEW i \in 1..n PROVE Cardinality(Under(s[i])) = i - 1
    OBVIOUS
  <2>1. s[i] \in S /\ Cardinality(Under(s[i])) + 1 = i
    BY <1>8
  <2> HIDE DEF Under, r
  <2> QED
    BY <1>2, <2>1
<1>13. \A x, y \in S : Cardinality(Under(x)) = Cardinality(Under(y)) => x = y
  BY <1>5 DEF Injection, IsInjective
<1>14. /\ \A i \in 1..Len(s) : Cardinality({y \in S : Lighter(e, y, s[i])}) = i - 1
       /\ \A x, y \in S :
             Cardinality({z \in S : Lighter(e, z, x)})
               = Cardinality({z \in S : Lighter(e, z, y)}) => x = y
  BY <1>9, <1>12, <1>13
<1> HIDE DEF Under, r
<1> QED
  BY <1>9, <1>10, <1>11, <1>14 DEF s

(* The first facts alone.                                                  *)
LEMMA SortedBlocks ==
    ASSUME NEW e, NEW S, Weighed(e, S), IsFiniteSet(S)
    PROVE  LET s == SortBlocks(e, S)
           IN  /\ s \in Seq(S)
               /\ Len(s) = Cardinality(S)
               /\ \A x \in S : \E i \in 1..Len(s) : s[i] = x
               /\ \A i, j \in 1..Len(s) : i < j => Lighter(e, s[i], s[j])
BY RankedBlocks

----------------------------------------------------------------------------
(* Recursion along selected parents.                                       *)

(* total_order and the selected chain as instances of Recursion: a value   *)
(* at a block from the value f at its selected parent.                     *)
OrderDef(e, f, x) ==
    IF x = e.genesis
    THEN <<x>>
    ELSE f[e.gd[x].selected_parent] \o Append(SortBlocks(e, Mergeset(e, x)), x)

Orders == INSTANCE Recursion WITH Def <- OrderDef

ChainDef(e, f, x) ==
    IF x = e.genesis THEN <<x>> ELSE Append(f[e.gd[x].selected_parent], x)

Chains == INSTANCE Recursion WITH Def <- ChainDef

(* Selected parents lead down to the first block.                          *)
Climbing(e) ==
    /\ \A b \in Blocks(e) : e.gd[b].blue_work \in Nat
    /\ \A b \in Blocks(e) \ {e.genesis} :
         /\ e.gd[b].selected_parent \in Blocks(e)
         /\ e.gd[e.gd[b].selected_parent].blue_work < e.gd[b].blue_work

(* The measure that decreases along them.                                  *)
Work(e) == [b \in Blocks(e) |-> e.gd[b].blue_work]

(* Induction from the selected parent to the block.                        *)
LEMMA ChainInduction ==
    ASSUME NEW e, Climbing(e), NEW S,
           e.genesis \in Blocks(e) => e.genesis \in S,
           \A b \in Blocks(e) \ {e.genesis} : e.gd[b].selected_parent \in S => b \in S
    PROVE  Blocks(e) \subseteq S
<1> DEFINE T == {n \in Nat : \A b \in Blocks(e) : e.gd[b].blue_work < n => b \in S}
<1>1. 0 \in T
  BY DEF Climbing
<1>2. ASSUME NEW n \in Nat, n \in T PROVE n + 1 \in T
  <2> SUFFICES ASSUME NEW b \in Blocks(e), e.gd[b].blue_work < n + 1
               PROVE  b \in S
    OBVIOUS
  <2>1. CASE b = e.genesis
    BY <2>1
  <2>2. CASE b # e.genesis
    <3>1. /\ e.gd[b].selected_parent \in Blocks(e)
          /\ e.gd[e.gd[b].selected_parent].blue_work < n
      BY <2>2 DEF Climbing
    <3>2. e.gd[b].selected_parent \in S
      BY <1>2, <3>1
    <3> QED
      BY <2>2, <3>2
  <2> QED
    BY <2>1, <2>2
<1> HIDE DEF T
<1>3. \A n \in Nat : n \in T
  BY <1>1, <1>2, Orders!NatInSet
<1> QED
  <2> SUFFICES ASSUME NEW b \in Blocks(e) PROVE b \in S
    OBVIOUS
  <2>1. e.gd[b].blue_work + 1 \in Nat /\ e.gd[b].blue_work < e.gd[b].blue_work + 1
    BY DEF Climbing
  <2> QED
    BY <1>3, <2>1 DEF T

(* total_order up to a block is that of its selected parent, the sorted    *)
(* mergeset and the block.                                                 *)
LEMMA OrderEquation ==
    ASSUME NEW e, Climbing(e), NEW b \in Blocks(e)
    PROVE  OrderUpTo(e, b) =
             IF b = e.genesis THEN <<b>>
             ELSE OrderUpTo(e, e.gd[b].selected_parent)
                    \o Append(SortBlocks(e, Mergeset(e, b)), b)
<1>1. Work(e) \in [Blocks(e) -> Nat]
  BY DEF Work, Climbing
<1>2. Orders!Descends(e, Blocks(e), Work(e))
  BY DEF Orders!Descends, OrderDef, Work, Climbing
<1>3. \A x \in Blocks(e) :
        Orders!Rec(e, Blocks(e))[x] = OrderDef(e, Orders!Rec(e, Blocks(e)), x)
  BY <1>1, <1>2, Orders!RecEquation
<1>4. \A x : OrderUpTo(e, x) = Orders!Rec(e, Blocks(e))[x]
  BY DEF OrderUpTo, Orders!Rec, OrderDef
<1> QED
  BY <1>3, <1>4 DEF OrderDef

(* The selected chain of a block is that of its selected parent, and it.   *)
LEMMA ChainEquation ==
    ASSUME NEW e, Climbing(e), NEW b \in Blocks(e)
    PROVE  SelectedChain(e, b) =
             IF b = e.genesis THEN <<b>>
             ELSE Append(SelectedChain(e, e.gd[b].selected_parent), b)
<1>1. Work(e) \in [Blocks(e) -> Nat]
  BY DEF Work, Climbing
<1>2. Chains!Descends(e, Blocks(e), Work(e))
  BY DEF Chains!Descends, ChainDef, Work, Climbing
<1>3. \A x \in Blocks(e) :
        Chains!Rec(e, Blocks(e))[x] = ChainDef(e, Chains!Rec(e, Blocks(e)), x)
  BY <1>1, <1>2, Chains!RecEquation
<1>4. \A x : SelectedChain(e, x) = Chains!Rec(e, Blocks(e))[x]
  BY DEF SelectedChain, Chains!Rec, ChainDef
<1> QED
  BY <1>3, <1>4 DEF ChainDef

----------------------------------------------------------------------------
(* The total order.                                                        *)

(* s lists the set S, each element after its ancestors.                    *)
Lists(s, S, past) ==
    /\ s \in Seq(S)
    /\ Len(s) = Cardinality(S)
    /\ \A x \in S : \E i \in 1..Len(s) : s[i] = x
    /\ \A i, j \in 1..Len(s) : s[i] \in past[s[j]] => i < j

(* A set closed under ancestry, then more blocks, then a block that is an  *)
(* ancestor of none of them.                                               *)
LEMMA ListsJoin ==
    ASSUME NEW past, NEW S, NEW M, IsFiniteSet(S), IsFiniteSet(M), S \cap M = {},
           NEW x, x \notin S \cup M, x \notin past[x],
           \A y \in S : past[y] \subseteq S,
           \A y \in M : x \notin past[y],
           NEW s, NEW m, Lists(s, S, past), Lists(m, M, past)
    PROVE  Lists(s \o Append(m, x), S \cup M \cup {x}, past)
<1> DEFINE U == S \cup M \cup {x}
           t == s \o Append(m, x)
           a == Len(s)
           c == Len(m)
<1>1. s \in Seq(S) /\ m \in Seq(M) /\ a \in Nat /\ c \in Nat
  BY DEF Lists
<1>2. t \in Seq(U) /\ Len(t) = a + c + 1
  <2>1. s \in Seq(U) /\ Append(m, x) \in Seq(U) /\ Len(Append(m, x)) = c + 1
    BY <1>1
  <2> HIDE DEF U
  <2> QED
    BY <1>1, <2>1
<1>3. \A i \in 1..a : t[i] = s[i] /\ t[i] \in S
  BY <1>1
<1>4. \A i \in 1..c : t[a + i] = m[i] /\ m[i] \in M
  BY <1>1
<1>5. t[a + c + 1] = x
  BY <1>1
<1>6. Len(t) = Cardinality(U)
  <2>1. IsFiniteSet(S \cup M) /\ Cardinality(S \cup M) = Cardinality(S) + Cardinality(M)
    <3>1. Cardinality(S \cap M) = 0
      BY FS_EmptySet
    <3>2. Cardinality(S) \in Nat /\ Cardinality(M) \in Nat
      BY FS_CardinalityType
    <3>3. /\ IsFiniteSet(S \cup M)
          /\ Cardinality(S \cup M) = Cardinality(S) + Cardinality(M) - Cardinality(S \cap M)
      BY FS_Union
    <3> QED
      BY <3>1, <3>2, <3>3
  <2>2. Cardinality(U) = Cardinality(S \cup M) + 1
    BY <2>1, FS_AddElement
  <2>3. a = Cardinality(S) /\ c = Cardinality(M)
    BY DEF Lists
  <2> QED
    BY <1>1, <1>2, <2>1, <2>2, <2>3
<1> HIDE DEF t
<1>7. ASSUME NEW i \in 1..Len(t)
      PROVE  i \in 1..a \/ (\E k \in 1..c : i = a + k) \/ i = a + c + 1
  <2>1. i \in Int /\ 1 <= i /\ i <= a + c + 1
    BY <1>1, <1>2
  <2>2. CASE i > a /\ i # a + c + 1
    <3>1. i - a \in 1..c /\ i = a + (i - a)
      BY <1>1, <2>1, <2>2
    <3> QED
      BY <3>1
  <2> HIDE DEF a, c
  <2> QED
    BY <1>1, <2>1, <2>2
<1>8. ASSUME NEW y \in U PROVE \E i \in 1..Len(t) : t[i] = y
  <2>1. CASE y \in S
    <3>1. PICK i \in 1..a : s[i] = y
      BY <2>1 DEF Lists
    <3> QED
      BY <1>1, <1>2, <1>3, <3>1
  <2>2. CASE y \in M
    <3>1. PICK i \in 1..c : m[i] = y
      BY <2>2 DEF Lists
    <3>2. a + i \in 1..Len(t)
      BY <1>1, <1>2, <3>1
    <3> QED
      BY <1>4, <3>1, <3>2
  <2>3. CASE y = x
    <3>1. a + c + 1 \in 1..Len(t)
      BY <1>1, <1>2
    <3> QED
      BY <1>5, <2>3, <3>1
  <2> QED
    BY <2>1, <2>2, <2>3
<1>9. ASSUME NEW i \in 1..Len(t), NEW j \in 1..Len(t), t[i] \in past[t[j]]
      PROVE  i < j
  <2>1. CASE j \in 1..a
    <3>1. t[j] \in S /\ t[i] \in S
      BY <1>3, <1>9, <2>1
    <3>2. i \in 1..a
      BY <1>4, <1>5, <1>7, <3>1
    <3>3. s[i] \in past[s[j]]
      BY <1>3, <1>9, <2>1, <3>2
    <3> QED
      BY <2>1, <3>2, <3>3 DEF Lists
  <2>2. CASE \E k \in 1..c : j = a + k
    <3>1. PICK k \in 1..c : j = a + k
      BY <2>2
    <3>2. t[j] = m[k] /\ m[k] \in M
      BY <1>4, <3>1
    <3>3. i # a + c + 1
      BY <1>5, <1>9, <3>2
    <3>4. CASE i \in 1..a
      BY <1>1, <3>1, <3>4
    <3>5. CASE \E l \in 1..c : i = a + l
      <4>1. PICK l \in 1..c : i = a + l
        BY <3>5
      <4>2. m[l] \in past[m[k]]
        BY <1>4, <1>9, <3>2, <4>1
      <4>3. l < k
        BY <4>2 DEF Lists
      <4> QED
        BY <1>1, <3>1, <4>1, <4>3
    <3> QED
      BY <1>7, <3>3, <3>4, <3>5
  <2>3. CASE j = a + c + 1
    <3>1. i # j
      BY <1>5, <1>9, <2>3
    <3> QED
      BY <1>1, <1>2, <2>3, <3>1
  <2> QED
    BY <1>7, <2>1, <2>2, <2>3
<1> QED
  BY <1>2, <1>6, <1>8, <1>9 DEF Lists, t

(* s lists b and its ancestors, each once and after all its ancestors.     *)
LinearisesIn(e, s, b) ==
    /\ Len(s) = Cardinality(ToSet(s))
    /\ ToSet(s) = e.past[b] \cup {b}
    /\ \A i, j \in DOMAIN s : s[i] \in e.past[s[j]] => i < j

(* A list is a linearisation.                                              *)
LEMMA ListsLinearise ==
    ASSUME NEW e, NEW b, NEW s, Lists(s, e.past[b] \cup {b}, e.past)
    PROVE  LinearisesIn(e, s, b)
<1> DEFINE S == e.past[b] \cup {b}
<1>1. s \in Seq(S) /\ DOMAIN s = 1..Len(s) /\ Len(s) \in Nat
  BY DEF Lists
<1>2. ToSet(s) = S
  <2>1. \A i \in 1..Len(s) : s[i] \in S
    BY <1>1
  <2>2. \A x \in S : \E i \in 1..Len(s) : s[i] = x
    BY DEF Lists
  <2> HIDE DEF S
  <2> QED
    BY <1>1, <2>1, <2>2 DEF ToSet
<1> QED
  BY <1>1, <1>2 DEF Lists, LinearisesIn

----------------------------------------------------------------------------
(* What holds of an engine whatever parents its blocks have.               *)

TypesOK(e) ==
    /\ Blocks(e) \subseteq Hash
    /\ IsFiniteSet(Blocks(e))
    /\ DOMAIN e.parents = Blocks(e)
    /\ e.past \in [Blocks(e) -> SUBSET Blocks(e)]
    /\ e.tip \in Blocks(e)
    /\ \A b \in Blocks(e) :
         /\ e.gd[b].blue_work \in Nat
         /\ b # e.genesis => e.gd[b].selected_parent \in e.parents[b]

(* Parents are ancestors; ancestry is transitive and irreflexive.          *)
Ancestral(e) ==
    \A b \in Blocks(e) :
        /\ b \notin e.past[b]
        /\ b # e.genesis => e.parents[b] \subseteq e.past[b]
        /\ \A a \in e.past[b] : e.past[a] \subseteq e.past[b]

Climbs(e) ==
    \A b \in Blocks(e) : \A a \in e.past[b] : e.gd[a].blue_work < e.gd[b].blue_work

TipIsHeavy(e) == \A b \in Blocks(e) \ {e.tip} : Lighter(e, b, e.tip)

(* Blues and reds are what the selected parent had not seen.               *)
Merged(e) ==
    \A b \in Blocks(e) \ {e.genesis} :
        LET d == e.gd[b]
        IN  IsAntichain(e, e.parents[b]) =>
                /\ d.blues \cap d.reds = {}
                /\ d.blues \cup d.reds = e.past[b] \ e.past[d.selected_parent]

(* TipIsHeavy needs no help from the DAG, but Climbs needs the transitive  *)
(* past and Merged an irreflexive one, so all are carried together.        *)
EngineOK(e) ==
    /\ TypesOK(e)
    /\ Ancestral(e)
    /\ Climbs(e)
    /\ TipIsHeavy(e)
    /\ Merged(e)

(* The first block alone satisfies it.                                     *)
LEMMA NewEngineOK == ASSUME NEW g \in Hash PROVE EngineOK(NewEngine(g))
<1> DEFINE e == NewEngine(g)
<1>1. /\ Blocks(e) = {g}
      /\ e.genesis = g
      /\ e.tip = g
      /\ e.past = [x \in {g} |-> {}]
      /\ DOMAIN e.parents = {g}
      /\ e.gd[g].blue_work = 0
  BY DEF NewEngine, Blocks
<1> HIDE DEF e
<1>2. IsFiniteSet({g})
  BY FS_Singleton
<1>3. TypesOK(e)
  <2>1. e.past \in [{g} -> SUBSET {g}]
    BY <1>1
  <2> QED
    BY <1>1, <1>2, <2>1 DEF TypesOK
<1>4. EngineOK(e)
  BY <1>1, <1>3 DEF EngineOK, Ancestral, Climbs, TipIsHeavy, Merged
<1> QED
  BY <1>4 DEF e

(* e2 is e with one block more: one new entry per store, the others        *)
(* untouched.                                                              *)
Added(e, b, ps, e2) ==
    LET d == GhostdagData(e, ps)
    IN  /\ b \notin Blocks(e)
        /\ e2.genesis = e.genesis
        /\ Blocks(e2) = Blocks(e) \cup {b}
        /\ \A x \in Blocks(e) :
              /\ e2.gd[x] = e.gd[x]
              /\ e2.past[x] = e.past[x]
              /\ e2.parents[x] = e.parents[x]
        /\ e2.gd[b] = d
        /\ e2.parents[b] = ps
        /\ e2.past[b] = ps \cup UNION {e.past[p] : p \in ps}
        /\ DOMAIN e2.parents = Blocks(e) \cup {b}
        /\ DOMAIN e2.past = Blocks(e) \cup {b}
        /\ e2.past = [x \in DOMAIN e2.past |-> e2.past[x]]
        /\ e2.tip = IF HeavierThanTip(e, d, b) THEN b ELSE e.tip

(* What add_block changes.                                                 *)
LEMMA AddBlockFacts ==
    ASSUME NEW e, TypesOK(e), NEW b \in Hash, NEW ps \in SUBSET Blocks(e), ps # {},
           b \notin Blocks(e), NEW e2, e2 = AddToEngine(e, b, ps)
    PROVE  Added(e, b, ps, e2)
<1>1. b \notin Blocks(e) /\ e2 = AddToEngine(e, b, ps)
  OBVIOUS
<1>2. DOMAIN e.parents = Blocks(e) /\ DOMAIN e.past = Blocks(e)
  BY DEF TypesOK
<1> HIDE DEF TypesOK
<1> QED
  BY <1>1, <1>2 DEF AddToEngine, Insert, PastOf, Blocks, Added

(* One step per conjunct: adding a block preserves the invariant.          *)
LEMMA AddKeepsOK ==
    ASSUME NEW e, EngineOK(e), NEW b \in Hash, NEW ps \in SUBSET Blocks(e), ps # {},
           b \notin Blocks(e), NEW e2, e2 = AddToEngine(e, b, ps)
    PROVE  EngineOK(e2)
<1> DEFINE d  == GhostdagData(e, ps)
           sp == FindSelectedParent(e, ps)
           B  == Blocks(e)
<1>1. TypesOK(e) /\ Ancestral(e) /\ Climbs(e) /\ TipIsHeavy(e)
  BY DEF EngineOK
<1>2. /\ B \subseteq Hash /\ IsFiniteSet(B) /\ e.tip \in B
      /\ e.past \in [B -> SUBSET B]
      /\ \A x \in B : e.gd[x].blue_work \in Nat
  BY <1>1 DEF TypesOK
<1>3. Weighed(e, B)
  BY <1>2, HashAssumption DEF Weighed
<1>4. /\ sp \in ps
      /\ d.selected_parent = sp
      /\ d.blues \cap d.reds = {}
      /\ d.blues \cup d.reds = {sp} \cup UnorderedMergeset(e, sp, ps)
      /\ d.blue_work \in Nat
      /\ \A p \in ps : e.gd[p].blue_work < d.blue_work
  BY <1>2, <1>3, DataFacts
<1>5. /\ b \notin B
      /\ e2.genesis = e.genesis
      /\ Blocks(e2) = B \cup {b}
      /\ \A x \in B : /\ e2.gd[x] = e.gd[x]
                       /\ e2.past[x] = e.past[x]
                       /\ e2.parents[x] = e.parents[x]
      /\ e2.gd[b] = d
      /\ e2.parents[b] = ps
      /\ e2.past[b] = ps \cup UNION {e.past[p] : p \in ps}
      /\ DOMAIN e2.parents = B \cup {b}
      /\ DOMAIN e2.past = B \cup {b}
      /\ e2.past = [x \in DOMAIN e2.past |-> e2.past[x]]
      /\ e2.tip = IF HeavierThanTip(e, d, b) THEN b ELSE e.tip
  <2>1. Added(e, b, ps, e2)
    BY <1>1, <1>2, AddBlockFacts
  <2> QED
    BY <2>1 DEF Added
<1> HIDE DEF d, sp, B
<1>6. TypesOK(e2)
  <2>1. IsFiniteSet(B \cup {b})
    BY <1>2, FS_AddElement
  <2>2. e2.past \in [B \cup {b} -> SUBSET (B \cup {b})]
    <3>1. \A x \in B \cup {b} : e2.past[x] \subseteq B \cup {b}
      BY <1>2, <1>5 DEF B
    <3> QED
      BY <1>5, <3>1
  <2>3. \A x \in B : x # e.genesis => e.gd[x].selected_parent \in e.parents[x]
    BY <1>1 DEF TypesOK, B
  <2>5. \A x \in B \cup {b} :
          /\ e2.gd[x].blue_work \in Nat
          /\ x # e.genesis => e2.gd[x].selected_parent \in e2.parents[x]
    BY <1>2, <1>4, <1>5, <2>3
  <2>6. e2.tip \in B \cup {b}
    BY <1>2, <1>5
  <2> QED
    BY <1>2, <1>5, <2>1, <2>2, <2>5, <2>6 DEF TypesOK
<1>7. Ancestral(e2)
  <2> SUFFICES ASSUME NEW x \in B \cup {b}
               PROVE  /\ x \notin e2.past[x]
                      /\ x # e.genesis => e2.parents[x] \subseteq e2.past[x]
                      /\ \A a \in e2.past[x] : e2.past[a] \subseteq e2.past[x]
    BY <1>5 DEF Ancestral
  <2>1. /\ \A y \in B : y \notin e.past[y]
        /\ \A y \in B : y # e.genesis => e.parents[y] \subseteq e.past[y]
        /\ \A y \in B : \A a \in e.past[y] : e.past[a] \subseteq e.past[y]
    BY <1>1 DEF Ancestral, B
  <2>2. \A y \in B : e.past[y] \subseteq B
    BY <1>2
  <2>3. CASE x \in B
    <3>1. e2.past[x] = e.past[x] /\ e2.parents[x] = e.parents[x]
      BY <1>5, <2>3
    <3>2. \A a \in e.past[x] : a \in B /\ e2.past[a] = e.past[a]
      BY <1>5, <2>2, <2>3
    <3>3. \A a \in e2.past[x] : e2.past[a] \subseteq e2.past[x]
      BY <2>1, <2>3, <3>1, <3>2
    <3>4. x \notin e2.past[x]
      BY <2>1, <2>3, <3>1
    <3>5. x # e.genesis => e2.parents[x] \subseteq e2.past[x]
      BY <2>1, <2>3, <3>1
    <3> QED
      BY <3>3, <3>4, <3>5
  <2>4. CASE x = b
    <3>1. e2.past[b] \subseteq B
      BY <1>5, <2>2 DEF B
    <3>2. \A a \in e2.past[b] : e2.past[a] \subseteq e2.past[b]
      <4> SUFFICES ASSUME NEW a \in e2.past[b], NEW z \in e2.past[a]
                   PROVE  z \in e2.past[b]
        OBVIOUS
      <4>1. e2.past[a] = e.past[a]
        BY <1>5, <3>1
      <4>2. PICK p \in ps : a = p \/ a \in e.past[p]
        BY <1>5
      <4>3. p \in B /\ z \in e.past[a]
        BY <4>1 DEF B
      <4>4. a \in e.past[p] => e.past[a] \subseteq e.past[p]
        BY <2>1, <4>3
      <4>5. z \in e.past[p]
        BY <4>2, <4>3, <4>4
      <4> QED
        BY <1>5, <4>5
    <3> QED
      BY <1>5, <2>4, <3>1, <3>2
  <2> QED
    BY <2>3, <2>4
<1>8. Climbs(e2)
  <2> SUFFICES ASSUME NEW x \in B \cup {b}, NEW a \in e2.past[x]
               PROVE  e2.gd[a].blue_work < e2.gd[x].blue_work
    BY <1>5 DEF Climbs
  <2>1. \A y \in B : \A z \in e.past[y] :
          z \in B /\ e.gd[z].blue_work < e.gd[y].blue_work
    BY <1>1, <1>2 DEF Climbs, B
  <2>2. CASE x \in B
    BY <1>5, <2>1, <2>2
  <2>3. CASE x = b
    <3>1. CASE a \in ps
      BY <1>4, <1>5, <2>3, <3>1 DEF B
    <3>2. CASE \E p \in ps : a \in e.past[p]
      <4>1. PICK p \in ps : a \in e.past[p]
        BY <3>2
      <4>2. a \in B /\ p \in B /\ e.gd[a].blue_work < e.gd[p].blue_work
        BY <2>1, <4>1 DEF B
      <4>3. e.gd[p].blue_work < d.blue_work
        BY <1>4
      <4> QED
        BY <1>2, <1>4, <1>5, <2>3, <4>2, <4>3
    <3> QED
      BY <1>5, <2>3, <3>1, <3>2
  <2> QED
    BY <2>2, <2>3
<1>9. TipIsHeavy(e2)
  <2> SUFFICES ASSUME NEW x \in B \cup {b}, x # e2.tip
               PROVE  Lighter(e2, x, e2.tip)
    BY <1>5 DEF TipIsHeavy
  <2>1. \A y \in B : y # e.tip => Lighter(e, y, e.tip)
    BY <1>1 DEF TipIsHeavy, B
  <2>2. B \subseteq Nat /\ b \in Nat
    BY <1>2, HashAssumption
  <2>3. CASE HeavierThanTip(e, d, b)
    <3>1. e2.tip = b /\ x \in B
      BY <1>5, <2>3
    <3>2. x = e.tip \/ Lighter(e, x, e.tip)
      BY <2>1, <3>1
    <3>3. /\ e.gd[x].blue_work \in Nat /\ e.gd[e.tip].blue_work \in Nat
          /\ x \in Nat /\ e.tip \in Nat
      BY <1>2, <2>2, <3>1
    <3>4. \/ e.gd[x].blue_work < d.blue_work
          \/ e.gd[x].blue_work = d.blue_work /\ x < b
      BY <1>4, <2>2, <2>3, <3>2, <3>3 DEF HeavierThanTip, Lighter
    <3> QED
      BY <1>5, <3>1, <3>4 DEF Lighter
  <2>4. CASE ~HeavierThanTip(e, d, b)
    <3>1. e2.tip = e.tip
      BY <1>5, <2>4
    <3>2. CASE x \in B
      BY <1>2, <1>5, <2>1, <3>1, <3>2 DEF Lighter
    <3>3. CASE x = b
      <4>1. e.gd[e.tip].blue_work \in Nat /\ e.tip \in Nat /\ e.tip # b
        BY <1>2, <1>5, <2>2
      <4>2. \/ d.blue_work < e.gd[e.tip].blue_work
            \/ d.blue_work = e.gd[e.tip].blue_work /\ b < e.tip
        BY <1>4, <2>2, <2>4, <4>1 DEF HeavierThanTip
      <4> QED
        BY <1>2, <1>5, <3>1, <3>3, <4>2 DEF Lighter
    <3> QED
      BY <3>2, <3>3
  <2> QED
    BY <2>3, <2>4
<1>10. Merged(e2)
  <2> SUFFICES ASSUME NEW x \in (B \cup {b}) \ {e.genesis},
                      IsAntichain(e2, e2.parents[x])
               PROVE  /\ e2.gd[x].blues \cap e2.gd[x].reds = {}
                      /\ e2.gd[x].blues \cup e2.gd[x].reds =
                           e2.past[x] \ e2.past[e2.gd[x].selected_parent]
    BY <1>5 DEF Merged
  <2>1. CASE x \in B
    <3>1. e.parents[x] \subseteq B
      <4>1. e.parents[x] \subseteq e.past[x]
        BY <1>1, <2>1 DEF Ancestral, B
      <4> QED
        BY <1>2, <2>1, <4>1
    <3>2. e.gd[x].selected_parent \in B
      BY <1>1, <2>1, <3>1 DEF TypesOK, B
    <3>3. IsAntichain(e, e.parents[x])
      <4>1. e2.parents[x] = e.parents[x]
        BY <1>5, <2>1
      <4> QED
        BY <1>5, <3>1, <4>1 DEF IsAntichain
    <3>4. /\ e.gd[x].blues \cap e.gd[x].reds = {}
          /\ e.gd[x].blues \cup e.gd[x].reds =
               e.past[x] \ e.past[e.gd[x].selected_parent]
      BY <2>1, <3>3 DEF EngineOK, Merged, B
    <3> QED
      BY <1>5, <2>1, <3>2, <3>4
  <2>2. CASE x = b
    <3>1. \A p, q \in ps : p \notin e.past[q]
      <4>1. \A p, q \in ps : p \notin e2.past[q]
        BY <1>5, <2>2 DEF IsAntichain
      <4> QED
        BY <1>5, <4>1 DEF B
    <3>2. {sp} \cup UnorderedMergeset(e, sp, ps) = e2.past[b] \ e.past[sp]
      <4>1. sp \notin e.past[sp]
        BY <1>4, <3>1
      <4> QED
        BY <1>4, <1>5, <3>1, <4>1 DEF UnorderedMergeset, IsDagAncestorOf
    <3>3. e2.past[sp] = e.past[sp]
      BY <1>4, <1>5 DEF B
    <3> QED
      BY <1>4, <1>5, <2>2, <3>2, <3>3
  <2> QED
    BY <2>1, <2>2
<1> QED
  BY <1>6, <1>7, <1>8, <1>9, <1>10 DEF EngineOK

----------------------------------------------------------------------------
(* Below honest blocks.                                                    *)

Antichains(e) ==
    \A b \in Blocks(e) \ {e.genesis} : IsAntichain(e, e.parents[b])

(* The first block merges nothing, every other has it in its past, and a   *)
(* selected parent is always blue.                                         *)
BluesOK(e) ==
    /\ e.genesis \in Blocks(e)
    /\ e.past[e.genesis] = {}
    /\ e.gd[e.genesis].selected_parent = ORIGIN
    /\ e.gd[e.genesis].blues = {ORIGIN}
    /\ e.gd[e.genesis].reds = {}
    /\ \A b \in Blocks(e) \ {e.genesis} :
         /\ e.genesis \in e.past[b]
         /\ e.gd[b].selected_parent \in e.gd[b].blues

(* Selected parents are ancestors, of less work.                           *)
LEMMA SelectedClimbs ==
    ASSUME NEW e, EngineOK(e)
    PROVE  /\ Climbing(e)
           /\ \A b \in Blocks(e) \ {e.genesis} :
                /\ e.gd[b].selected_parent \in e.past[b]
                /\ e.past[e.gd[b].selected_parent] \subseteq e.past[b]
           /\ \A b \in Blocks(e) : e.past[b] \subseteq Blocks(e)
<1>1. /\ \A b \in Blocks(e) : e.past[b] \subseteq Blocks(e)
      /\ \A b \in Blocks(e) : e.gd[b].blue_work \in Nat
  BY DEF EngineOK, TypesOK
<1>2. ASSUME NEW b \in Blocks(e) \ {e.genesis}
      PROVE  /\ e.gd[b].selected_parent \in e.past[b]
             /\ e.past[e.gd[b].selected_parent] \subseteq e.past[b]
  BY DEF EngineOK, TypesOK, Ancestral
<1>3. \A b \in Blocks(e) : \A a \in e.past[b] :
         e.gd[a].blue_work < e.gd[b].blue_work
  BY DEF EngineOK, Climbs
<1> QED
  BY <1>1, <1>2, <1>3 DEF Climbing

(* What a block with antichain parents merges, its selected parent aside,  *)
(* is the part of its past that is not the selected parent or behind it.   *)
LEMMA MergesetIs ==
    ASSUME NEW e, EngineOK(e), BluesOK(e), NEW b \in Blocks(e) \ {e.genesis},
           IsAntichain(e, e.parents[b])
    PROVE  LET p == e.gd[b].selected_parent
           IN  Mergeset(e, b) = e.past[b] \ (e.past[p] \cup {p})
<1> DEFINE d == e.gd[b]
           p == d.selected_parent
<1>1. /\ d.blues \cap d.reds = {}
      /\ d.blues \cup d.reds = e.past[b] \ e.past[p]
  BY DEF EngineOK, Merged
<1>2. p \in d.blues
  BY DEF BluesOK
<1>3. Mergeset(e, b) = (d.blues \ {p}) \cup d.reds
  BY DEF Mergeset
<1> HIDE DEF d, p
<1>4. Mergeset(e, b) = e.past[b] \ (e.past[p] \cup {p})
  BY <1>1, <1>2, <1>3
<1> QED
  BY <1>4 DEF d, p

(* total_order up to any block lists its past and it.                      *)
LEMMA OrderLists ==
    ASSUME NEW e, EngineOK(e), BluesOK(e), Antichains(e)
    PROVE  \A b \in Blocks(e) :
              Lists(OrderUpTo(e, b), e.past[b] \cup {b}, e.past)
<1> DEFINE Good(b) == Lists(OrderUpTo(e, b), e.past[b] \cup {b}, e.past)
           S == {b \in Blocks(e) : Good(b)}
<1>1. /\ IsFiniteSet(Blocks(e)) /\ Blocks(e) \subseteq Nat
      /\ \A b \in Blocks(e) : b \notin e.past[b]
      /\ \A b \in Blocks(e) :
           \A a \in e.past[b] : e.past[a] \subseteq e.past[b]
      /\ \A b \in Blocks(e) : \A a \in e.past[b] :
            e.gd[a].blue_work < e.gd[b].blue_work
      /\ \A b \in Blocks(e) : e.gd[b].blue_work \in Nat
  BY HashAssumption DEF EngineOK, TypesOK, Ancestral, Climbs
<1>2. /\ Climbing(e)
      /\ \A b \in Blocks(e) \ {e.genesis} :
            /\ e.gd[b].selected_parent \in e.past[b]
            /\ e.past[e.gd[b].selected_parent] \subseteq e.past[b]
      /\ \A b \in Blocks(e) : e.past[b] \subseteq Blocks(e)
  BY SelectedClimbs
<1>3. ASSUME e.genesis \in Blocks(e) PROVE Good(e.genesis)
  <2>1. e.past[e.genesis] \cup {e.genesis} = {e.genesis} /\ e.genesis \notin e.past[e.genesis]
    BY DEF BluesOK
  <2>2. OrderUpTo(e, e.genesis) = <<e.genesis>>
    BY <1>1, <1>2, <1>3, OrderEquation
  <2>3. Cardinality({e.genesis}) = 1
    BY FS_Singleton
  <2>4. /\ <<e.genesis>> \in Seq({e.genesis}) /\ Len(<<e.genesis>>) = 1
        /\ \A i \in 1..1 : <<e.genesis>>[i] = e.genesis
        /\ 1 \in 1..1
    OBVIOUS
  <2>5. Lists(<<e.genesis>>, {e.genesis}, e.past)
    BY <2>1, <2>3, <2>4 DEF Lists
  <2> QED
    BY <2>1, <2>2, <2>5
<1>4. ASSUME NEW b \in Blocks(e) \ {e.genesis}, Good(e.gd[b].selected_parent)
      PROVE  Good(b)
  <2> DEFINE p == e.gd[b].selected_parent
             P == e.past[p] \cup {p}
             M == Mergeset(e, b)
             s == OrderUpTo(e, p)
             m == SortBlocks(e, M)
  <2>1. p \in e.past[b] /\ e.past[p] \subseteq e.past[b] /\ p \in Blocks(e)
    BY <1>2
  <2>2. M = e.past[b] \ P
    <3>1. IsAntichain(e, e.parents[b])
      BY DEF Antichains
    <3> QED
      BY <3>1, MergesetIs
  <2>3. OrderUpTo(e, b) = s \o Append(m, b)
    BY <1>1, <1>2, OrderEquation
  <2>4. Lists(s, P, e.past)
    BY <1>4
  <2> HIDE DEF p, M, s, m
  <2>5. P \subseteq e.past[b] /\ P \cap M = {} /\ P \cup M \cup {b} = e.past[b] \cup {b}
    BY <2>1, <2>2
  <2>6. e.past[b] \subseteq Blocks(e) /\ b \notin e.past[b]
    BY <1>1, <1>2
  <2>7. IsFiniteSet(P) /\ IsFiniteSet(M)
    <3>1. P \in SUBSET Blocks(e) /\ M \in SUBSET Blocks(e)
      BY <2>2, <2>5, <2>6
    <3> HIDE DEF P
    <3> QED
      BY <1>1, <3>1, FS_Subset
  <2>8. Lists(m, M, e.past)
    <3>1. M \subseteq Blocks(e)
      BY <2>2, <2>6
    <3>2. Weighed(e, M)
      BY <1>1, <3>1 DEF Weighed
    <3>3. /\ m \in Seq(M)
          /\ Len(m) = Cardinality(M)
          /\ \A x \in M : \E i \in 1..Len(m) : m[i] = x
          /\ \A i, j \in 1..Len(m) : i < j => Lighter(e, m[i], m[j])
      BY <2>7, <3>2, SortedBlocks DEF m
    <3>4. ASSUME NEW i \in 1..Len(m), NEW j \in 1..Len(m), m[i] \in e.past[m[j]]
          PROVE  i < j
      <4>1. m[i] \in M /\ m[j] \in M
        BY <3>3
      <4>2. /\ e.gd[m[i]].blue_work < e.gd[m[j]].blue_work
            /\ e.gd[m[i]].blue_work \in Nat /\ e.gd[m[j]].blue_work \in Nat
        BY <1>1, <3>1, <3>4, <4>1
      <4>3. ~Lighter(e, m[j], m[i])
        BY <4>2 DEF Lighter
      <4>4. ~(j < i) /\ i # j
        BY <3>3, <4>2, <4>3
      <4> QED
        BY <4>4
    <3> QED
      BY <3>3, <3>4 DEF Lists
  <2>9. \A y \in P : e.past[y] \subseteq P
    BY <1>1, <2>1
  <2>10. \A y \in M : b \notin e.past[y]
    BY <1>1, <2>2, <2>6
  <2>11. b \notin P \cup M
    BY <2>5, <2>6, <2>2
  <2> HIDE DEF P
  <2>12. Lists(s \o Append(m, b), P \cup M \cup {b}, e.past)
    BY <2>4, <2>5, <2>6, <2>7, <2>8, <2>9, <2>10, <2>11, ListsJoin
  <2> QED
    BY <2>3, <2>5, <2>12
<1> HIDE DEF Good
<1>5. Blocks(e) \subseteq S
  <2>1. e.genesis \in Blocks(e) => e.genesis \in S
    BY <1>1, <1>3
  <2>2. \A b \in Blocks(e) \ {e.genesis} :
           e.gd[b].selected_parent \in S => b \in S
    BY <1>1, <1>4
  <2> HIDE DEF S
  <2> QED
    BY <1>2, <2>1, <2>2, ChainInduction
<1> QED
  BY <1>5 DEF Good

(* The elements of a sequence and one more.                                *)
LEMMA ToSetAppend ==
    ASSUME NEW T, NEW s \in Seq(T), NEW x \in T
    PROVE  ToSet(Append(s, x)) = ToSet(s) \cup {x}
<1> DEFINE t == Append(s, x)
           n == Len(s)
<1>1. /\ n \in Nat /\ DOMAIN s = 1..n /\ DOMAIN t = 1..(n + 1)
      /\ t[n + 1] = x /\ \A i \in 1..n : t[i] = s[i]
  OBVIOUS
<1>2. \A i \in 1..(n + 1) : i \in 1..n \/ i = n + 1
  BY <1>1
<1>3. \A i \in 1..n : i \in 1..(n + 1)
  BY <1>1
<1>4. n + 1 \in 1..(n + 1)
  BY <1>1
<1> HIDE DEF n, t
<1>5. ToSet(t) = ToSet(s) \cup {x}
  BY <1>1, <1>2, <1>3, <1>4, Zenon DEF ToSet
<1> QED
  BY <1>5 DEF t

(* The blocks of a selected chain are the block and ancestors of it.       *)
LEMMA ChainInPast ==
    ASSUME NEW e, EngineOK(e), NEW b \in Blocks(e)
    PROVE  ToSet(SelectedChain(e, b)) \subseteq e.past[b] \cup {b}
<1> DEFINE S == {x \in Blocks(e) :
                   /\ SelectedChain(e, x) \in Seq(Blocks(e))
                   /\ ToSet(SelectedChain(e, x)) \subseteq e.past[x] \cup {x}}
<1>1. /\ Climbing(e)
      /\ \A x \in Blocks(e) \ {e.genesis} :
            /\ e.gd[x].selected_parent \in e.past[x]
            /\ e.past[e.gd[x].selected_parent] \subseteq e.past[x]
  BY SelectedClimbs DEF EngineOK, TypesOK
<1>2. e.genesis \in Blocks(e) => e.genesis \in S
  <2> SUFFICES ASSUME e.genesis \in Blocks(e) PROVE e.genesis \in S
    BY <1>1
  <2>1. SelectedChain(e, e.genesis) = <<e.genesis>>
    BY <1>1, ChainEquation
  <2>2. <<e.genesis>> \in Seq(Blocks(e)) /\ ToSet(<<e.genesis>>) = {e.genesis}
    BY DEF ToSet
  <2> QED
    BY <2>1, <2>2
<1>3. ASSUME NEW x \in Blocks(e) \ {e.genesis}, e.gd[x].selected_parent \in S
      PROVE  x \in S
  <2> DEFINE p == e.gd[x].selected_parent
             c == SelectedChain(e, p)
  <2>1. SelectedChain(e, x) = Append(c, x)
    BY <1>1, ChainEquation
  <2>2. c \in Seq(Blocks(e)) /\ ToSet(c) \subseteq e.past[p] \cup {p}
    BY <1>3
  <2>3. p \in e.past[x] /\ e.past[p] \subseteq e.past[x]
    BY <1>1
  <2> HIDE DEF p, c
  <2>4. ToSet(Append(c, x)) = ToSet(c) \cup {x}
    BY <2>2, ToSetAppend
  <2>5. Append(c, x) \in Seq(Blocks(e))
    BY <2>2
  <2>6. ToSet(Append(c, x)) \subseteq e.past[x] \cup {x}
    BY <2>2, <2>3, <2>4
  <2> QED
    BY <2>1, <2>5, <2>6
<1>4. Blocks(e) \subseteq S
  <2> HIDE DEF S
  <2> QED
    BY <1>1, <1>2, <1>3, ChainInduction
<1> QED
  BY <1>4

(* The index refuses no block with antichain parents: what it merges is    *)
(* not behind its selected parent, and what the chain below has merged is. *)
LEMMA NotCoveredTwice ==
    ASSUME NEW e, EngineOK(e), BluesOK(e), Antichains(e),
           NEW ps \in SUBSET Blocks(e), ps # {}, IsAntichain(e, ps)
    PROVE  ~CoveredTwice(e, ps)
<1> DEFINE d  == GhostdagData(e, ps)
           sp == FindSelectedParent(e, ps)
<1> SUFFICES ASSUME NEW m \in (d.blues \ {d.selected_parent}) \cup d.reds,
                    NEW w \in ToSet(SelectedChain(e, d.selected_parent)),
                    m \in Mergeset(e, w)
             PROVE  FALSE
  BY DEF CoveredTwice
<1>1. /\ IsFiniteSet(Blocks(e)) /\ Weighed(e, Blocks(e))
      /\ e.past \in [Blocks(e) -> SUBSET Blocks(e)]
  BY HashAssumption DEF EngineOK, TypesOK, Weighed
<1>2. /\ sp \in ps
      /\ d.selected_parent = sp
      /\ d.blues \cup d.reds = {sp} \cup UnorderedMergeset(e, sp, ps)
  BY <1>1, DataFacts
<1>3. m = sp \/ m \in UnorderedMergeset(e, sp, ps)
  <2> HIDE DEF d, sp
  <2> QED
    BY <1>2
<1>4. w \in e.past[sp] \cup {sp} /\ w \in Blocks(e)
  <2> HIDE DEF d, sp
  <2>1. w \in e.past[sp] \cup {sp} /\ sp \in Blocks(e)
    BY <1>2, ChainInPast
  <2> QED
    BY <1>1, <2>1
<1>5. m \in e.past[w]
  <2>1. CASE w = e.genesis
    BY <2>1 DEF BluesOK, Mergeset
  <2>2. CASE w # e.genesis
    <3>1. IsAntichain(e, e.parents[w])
      BY <1>4, <2>2 DEF Antichains
    <3> QED
      BY <1>4, <2>2, <3>1, MergesetIs
  <2> QED
    BY <2>1, <2>2
<1>6. m \in e.past[sp]
  BY <1>2, <1>4, <1>5 DEF EngineOK, Ancestral
<1>7. sp \notin e.past[sp] /\ \A q \in ps : q \notin e.past[sp]
  BY <1>2 DEF IsAntichain
<1> HIDE DEF d, sp
<1> QED
  BY <1>3, <1>6, <1>7 DEF UnorderedMergeset, IsDagAncestorOf

----------------------------------------------------------------------------
(* Anticone sizes.                                                         *)

(* blue_anticone_size as an instance of Recursion, p being the e and  *)
(* the block that is asked about.                                          *)
SizeDef(p, f, x) ==
    IF p.block \in DOMAIN p.e.gd[x].sizes THEN p.e.gd[x].sizes[p.block]
    ELSE IF x = p.e.genesis THEN "not in blue set"
    ELSE f[p.e.gd[x].selected_parent]

Sizes == INSTANCE Recursion WITH Def <- SizeDef

(* The colouring of a mergeset as an instance of Folding, and with it the  *)
(* sum of the blues of chain blocks in the anticone of a candidate.        *)
PeersOf(p, c) == Cardinality(AnticoneBlues(p.e, p.e.gd[c].blues, p.cand))

Coloring == INSTANCE Folding WITH op <- Color, val <- PeersOf

(* The anticone size that the selected chain below x has for a block.      *)
SizeFrom(e, block, x) == Sizes!Rec([e |-> e, block |-> block], Blocks(e))[x]

(* blue_anticone_size looks at one block of the selected chain after the   *)
(* other.                                                                  *)
LEMMA SizeEquation ==
    ASSUME NEW e, Climbing(e), NEW block
    PROVE  /\ \A x \in Blocks(e) :
                SizeFrom(e, block, x) =
                  IF block \in DOMAIN e.gd[x].sizes THEN e.gd[x].sizes[block]
                  ELSE IF x = e.genesis THEN "not in blue set"
                  ELSE SizeFrom(e, block, e.gd[x].selected_parent)
           /\ \A data : BlueAnticoneSize(e, block, data) =
                  IF block \in DOMAIN data.sizes THEN data.sizes[block]
                  ELSE SizeFrom(e, block, data.selected_parent)
<1> DEFINE p == [e |-> e, block |-> block]
<1>1. Work(e) \in [Blocks(e) -> Nat]
  BY DEF Work, Climbing
<1>2. Sizes!Descends(p, Blocks(e), Work(e))
  <2> SUFFICES ASSUME NEW g, NEW h, NEW x \in Blocks(e),
                      \A y \in Blocks(e) : Work(e)[y] < Work(e)[x] => g[y] = h[y]
               PROVE  SizeDef(p, g, x) = SizeDef(p, h, x)
    BY DEF Sizes!Descends
  <2>1. x # e.genesis => g[e.gd[x].selected_parent] = h[e.gd[x].selected_parent]
    BY DEF Work, Climbing
  <2> QED
    BY <2>1 DEF SizeDef
<1>3. \A x \in Blocks(e) : Sizes!Rec(p, Blocks(e))[x] = SizeDef(p, Sizes!Rec(p, Blocks(e)), x)
  <2> HIDE DEF p
  <2> QED
    BY <1>1, <1>2, Sizes!RecEquation
<1>4. \A x : SizeFrom(e, block, x) = Sizes!Rec(p, Blocks(e))[x]
  BY DEF SizeFrom
<1>5. \A data : BlueAnticoneSize(e, block, data) =
                  IF block \in DOMAIN data.sizes THEN data.sizes[block]
                  ELSE Sizes!Rec(p, Blocks(e))[data.selected_parent]
  BY DEF BlueAnticoneSize, Sizes!Rec, SizeDef
<1>6. \A f, x : SizeDef(p, f, x) =
                  IF block \in DOMAIN e.gd[x].sizes THEN e.gd[x].sizes[block]
                  ELSE IF x = e.genesis THEN "not in blue set"
                  ELSE f[e.gd[x].selected_parent]
  BY DEF SizeDef
<1> HIDE DEF p
<1>7. \A x \in Blocks(e) :
        SizeFrom(e, block, x) =
          IF block \in DOMAIN e.gd[x].sizes THEN e.gd[x].sizes[block]
          ELSE IF x = e.genesis THEN "not in blue set"
          ELSE Sizes!Rec(p, Blocks(e))[e.gd[x].selected_parent]
  BY <1>3, <1>4, <1>6
<1> QED
  BY <1>4, <1>5, <1>7, Zenon

(* The blues of the chain blocks W in the anticone of a candidate: how     *)
(* often check_blue_candidate counts one, and which they are.              *)
PeerTotal(e, cand, W) ==
    MapThenSumSet(LAMBDA c : Cardinality(AnticoneBlues(e, e.gd[c].blues, cand)), W)

PeerUnion(e, cand, W) == UNION {AnticoneBlues(e, e.gd[c].blues, cand) : c \in W}

(* The blues in the anticone of a block, counted chain block by chain      *)
(* block, when no two chain blocks have a blue in common.                  *)
LEMMA PeersAdd ==
    ASSUME NEW e, NEW cand, NEW W, IsFiniteSet(W),
           \A c \in W : IsFiniteSet(e.gd[c].blues),
           \A c, d \in W : c # d => e.gd[c].blues \cap e.gd[d].blues = {}
    PROVE  /\ IsFiniteSet(PeerUnion(e, cand, W))
           /\ PeerTotal(e, cand, W) = Cardinality(PeerUnion(e, cand, W))
<1> DEFINE p == [e |-> e, cand |-> cand]
           A(c) == AnticoneBlues(e, e.gd[c].blues, cand)
           V(t) == UNION {A(c) : c \in t}
           T == {n \in Nat : \A t \in SUBSET W : Cardinality(t) = n =>
                   IsFiniteSet(V(t)) /\ Coloring!Sum(p, t) = Cardinality(V(t))}
<1>1. \A c \in W : /\ IsFiniteSet(A(c)) /\ Cardinality(A(c)) \in Nat
                   /\ PeersOf(p, c) = Cardinality(A(c))
  <2> SUFFICES ASSUME NEW c \in W
               PROVE  /\ IsFiniteSet(A(c)) /\ Cardinality(A(c)) \in Nat
                      /\ PeersOf(p, c) = Cardinality(A(c))
    OBVIOUS
  <2>1. A(c) \in SUBSET e.gd[c].blues
    BY DEF AnticoneBlues
  <2>2. PeersOf(p, c) = Cardinality(A(c))
    BY DEF PeersOf
  <2> HIDE DEF A, p
  <2> QED
    BY <2>1, <2>2, FS_Subset, FS_CardinalityType
<1>2. \A c, d \in W : c # d => A(c) \cap A(d) = {}
  BY DEF AnticoneBlues
<1> HIDE DEF A, p
<1>3. \A t \in SUBSET W : IsFiniteSet(t) /\ Cardinality(t) \in Nat
  BY FS_Subset, FS_CardinalityType
<1>4. 0 \in T
  <2> SUFFICES ASSUME NEW t \in SUBSET W, Cardinality(t) = 0
               PROVE  IsFiniteSet(V(t)) /\ Coloring!Sum(p, t) = Cardinality(V(t))
    OBVIOUS
  <2>1. t = {}
    BY <1>3, FS_EmptySet
  <2>2. V(t) = {}
    BY <2>1
  <2>3. Coloring!Sum(p, t) = 0
    BY <2>1, Coloring!SumEmpty
  <2> HIDE DEF V
  <2> QED
    BY <2>2, <2>3, FS_EmptySet
<1>5. ASSUME NEW n \in Nat, n \in T PROVE n + 1 \in T
  <2> SUFFICES ASSUME NEW t \in SUBSET W, Cardinality(t) = n + 1
               PROVE  IsFiniteSet(V(t)) /\ Coloring!Sum(p, t) = Cardinality(V(t))
    OBVIOUS
  <2>1. IsFiniteSet(t) /\ t # {}
    BY <1>3, FS_EmptySet
  <2>2. PICK c \in t : TRUE
    BY <2>1
  <2> DEFINE u == t \ {c}
  <2>3. Cardinality(u) = n /\ u \in SUBSET W
    <3>1. Cardinality(u) = Cardinality(t) - 1
      BY <2>1, <2>2, FS_RemoveElement
    <3> QED
      BY <3>1
  <2>4. IsFiniteSet(V(u)) /\ Coloring!Sum(p, u) = Cardinality(V(u))
    <3> HIDE DEF V, u
    <3> QED
      BY <1>5, <2>3
  <2>5. Coloring!Sum(p, t) = PeersOf(p, c) + Coloring!Sum(p, u)
    <3>1. Coloring!Numbers(p, t)
      BY <1>1 DEF Coloring!Numbers
    <3>2. Coloring!IsFiniteSet(t)
      BY <2>1 DEF Coloring!IsFiniteSet, IsFiniteSet
    <3>3. \A z \in t : Coloring!Sum(p, t) = PeersOf(p, z) + Coloring!Sum(p, t \ {z})
      BY <3>1, <3>2, Coloring!SumRemove
    <3> QED
      BY <2>2, <3>3
  <2>6. V(t) = A(c) \cup V(u) /\ A(c) \cap V(u) = {}
    BY <1>2, <2>2
  <2>7. c \in W
    BY <2>2
  <2> HIDE DEF V, u
  <2>8. /\ IsFiniteSet(V(t))
        /\ Cardinality(V(t)) = Cardinality(A(c)) + Cardinality(V(u)) - Cardinality(A(c) \cap V(u))
    BY <1>1, <2>4, <2>6, <2>7, FS_Union
  <2>9. Cardinality(A(c) \cap V(u)) = 0
    BY <2>6, FS_EmptySet
  <2>10. Cardinality(V(u)) \in Nat
    BY <2>4, FS_CardinalityType
  <2> QED
    BY <1>1, <2>4, <2>5, <2>7, <2>8, <2>9, <2>10
<1> HIDE DEF T
<1>6. \A n \in Nat : n \in T
  BY <1>4, <1>5, Sizes!NatInSet
<1>7. IsFiniteSet(V(W)) /\ Coloring!Sum(p, W) = Cardinality(V(W))
  <2>1. W \in SUBSET W /\ Cardinality(W) \in Nat
    BY FS_CardinalityType
  <2> HIDE DEF V
  <2> QED
    BY <1>6, <2>1 DEF T
<1>8. Coloring!Sum(p, W) = PeerTotal(e, cand, W)
  BY DEF PeerTotal, Coloring!Sum, PeersOf, Coloring!MapThenSumSet, MapThenSumSet,
         Coloring!MapThenFoldSet, MapThenFoldSet, p
<1> QED
  BY <1>7, <1>8 DEF A, PeerUnion

----------------------------------------------------------------------------
(* The colouring.                                                          *)

(* A selected chain is a sequence of blocks.                               *)
LEMMA ChainSeq ==
    ASSUME NEW e, EngineOK(e)
    PROVE  \A b \in Blocks(e) : SelectedChain(e, b) \in Seq(Blocks(e))
<1> DEFINE S == {x \in Blocks(e) : SelectedChain(e, x) \in Seq(Blocks(e))}
<1>1. Climbing(e)
  BY SelectedClimbs
<1>2. \A x \in Blocks(e) :
         SelectedChain(e, x) =
           IF x = e.genesis THEN <<x>>
           ELSE Append(SelectedChain(e, e.gd[x].selected_parent), x)
  BY <1>1, ChainEquation
<1>3. ASSUME e.genesis \in Blocks(e) PROVE e.genesis \in S
  <2>1. SelectedChain(e, e.genesis) = <<e.genesis>>
    BY <1>2, <1>3
  <2>2. <<e.genesis>> \in Seq(Blocks(e))
    BY <1>3
  <2> QED
    BY <1>3, <2>1, <2>2
<1>4. ASSUME NEW x \in Blocks(e) \ {e.genesis},
             e.gd[x].selected_parent \in S
      PROVE  x \in S
  <2>1. SelectedChain(e, x) =
          Append(SelectedChain(e, e.gd[x].selected_parent), x)
    BY <1>2
  <2>2. SelectedChain(e, e.gd[x].selected_parent) \in Seq(Blocks(e))
    BY <1>4
  <2>3. Append(SelectedChain(e, e.gd[x].selected_parent), x) \in Seq(Blocks(e))
    <3> HIDE DEF S
    <3> QED
      BY <2>2
  <2> QED
    BY <2>1, <2>3
<1> HIDE DEF S
<1>5. Blocks(e) \subseteq S
  BY <1>1, <1>3, <1>4, ChainInduction
<1> QED
  BY <1>5 DEF S

(* The selected chain, one block at a time, as a set.                      *)
LEMMA ChainSet ==
    ASSUME NEW e, EngineOK(e)
    PROVE  /\ e.genesis \in Blocks(e) =>
                ToSet(SelectedChain(e, e.genesis)) = {e.genesis}
           /\ \A b \in Blocks(e) \ {e.genesis} :
                ToSet(SelectedChain(e, b)) =
                  ToSet(SelectedChain(e, e.gd[b].selected_parent)) \cup {b}
<1>1. /\ Climbing(e)
      /\ \A x \in Blocks(e) \ {e.genesis} : e.gd[x].selected_parent \in Blocks(e)
  BY SelectedClimbs DEF EngineOK, TypesOK
<1>2. ASSUME e.genesis \in Blocks(e)
      PROVE  ToSet(SelectedChain(e, e.genesis)) = {e.genesis}
  <2>1. SelectedChain(e, e.genesis) = <<e.genesis>>
    BY <1>1, <1>2, ChainEquation
  <2>2. ToSet(<<e.genesis>>) = {e.genesis}
    BY DEF ToSet
  <2> QED
    BY <2>1, <2>2
<1>3. ASSUME NEW b \in Blocks(e) \ {e.genesis}
      PROVE  ToSet(SelectedChain(e, b)) =
               ToSet(SelectedChain(e, e.gd[b].selected_parent)) \cup {b}
  <2> DEFINE s == SelectedChain(e, e.gd[b].selected_parent)
  <2>1. s \in Seq(Blocks(e)) /\ b \in Blocks(e)
    BY <1>1, ChainSeq
  <2>2. SelectedChain(e, b) = Append(s, b)
    BY <1>1, ChainEquation
  <2> HIDE DEF s
  <2>3. ToSet(Append(s, b)) = ToSet(s) \cup {b}
    BY <2>1, ToSetAppend
  <2> QED
    BY <2>2, <2>3 DEF s
<1> QED
  BY <1>2, <1>3

AnticoneIn(e, b) == {x \in Blocks(e) : ~IsDagAncestorOf(e, x, b)
                                         /\ ~IsDagAncestorOf(e, b, x)}

(* The blue set of b: the blues collected along its selected chain.        *)
BlueSetIn(e, b) ==
    (UNION {e.gd[c].blues : c \in ToSet(SelectedChain(e, b))}) \ {ORIGIN}

(* Blues are ancestors that the selected parent does not have, no two      *)
(* blocks of a selected chain have one in common, and the blue set grows   *)
(* along the chain.                                                        *)
LEMMA BluesFacts ==
    ASSUME NEW e, EngineOK(e), BluesOK(e), Antichains(e)
    PROVE  /\ \A b \in Blocks(e) \ {e.genesis} :
                e.gd[b].blues \subseteq
                  e.past[b] \ e.past[e.gd[b].selected_parent]
           /\ \A b \in Blocks(e) : \A c, d \in ToSet(SelectedChain(e, b)) :
                c # d => e.gd[c].blues \cap e.gd[d].blues = {}
           /\ BlueSetIn(e, e.genesis) = {}
           /\ \A b \in Blocks(e) \ {e.genesis} :
                BlueSetIn(e, b) = BlueSetIn(e, e.gd[b].selected_parent) \cup e.gd[b].blues
           /\ \A b \in Blocks(e) : BlueSetIn(e, b) \subseteq e.past[b]
<1> DEFINE chain(b) == ToSet(SelectedChain(e, b))
           sp(b) == e.gd[b].selected_parent
           S == {x \in Blocks(e) :
                   \A c, d \in chain(x) : c # d => e.gd[c].blues \cap e.gd[d].blues = {}}
<1>1. /\ Climbing(e)
      /\ \A b \in Blocks(e) \ {e.genesis} :
            sp(b) \in e.past[b] /\ e.past[sp(b)] \subseteq e.past[b]
      /\ \A b \in Blocks(e) : e.past[b] \subseteq Blocks(e)
      /\ Blocks(e) \subseteq Hash
      /\ \A b \in Blocks(e) :
           \A a \in e.past[b] : e.past[a] \subseteq e.past[b]
  BY SelectedClimbs DEF EngineOK, TypesOK, Ancestral
<1>2. ORIGIN \notin Blocks(e)
  BY <1>1, HashAssumption
<1>3. /\ e.genesis \in Blocks(e)
      /\ e.gd[e.genesis].blues = {ORIGIN}
  BY DEF BluesOK
<1>4. \A b \in Blocks(e) \ {e.genesis} :
         e.gd[b].blues \subseteq e.past[b] \ e.past[sp(b)]
  BY DEF EngineOK, Merged, Antichains
<1>5. /\ chain(e.genesis) = {e.genesis}
      /\ \A b \in Blocks(e) \ {e.genesis} : chain(b) = chain(sp(b)) \cup {b}
      /\ \A b \in Blocks(e) : chain(b) \subseteq e.past[b] \cup {b}
  BY <1>3, ChainSet, ChainInPast
<1> HIDE DEF chain
<1>6. \A b \in Blocks(e) : \A c \in chain(b) :
         c \in Blocks(e) /\ e.gd[c].blues \subseteq e.past[b] \cup {ORIGIN}
  <2> SUFFICES ASSUME NEW b \in Blocks(e), NEW c \in chain(b)
               PROVE  /\ c \in Blocks(e)
                      /\ e.gd[c].blues \subseteq e.past[b] \cup {ORIGIN}
    OBVIOUS
  <2>1. c \in e.past[b] \cup {b} /\ c \in Blocks(e)
    BY <1>1, <1>5
  <2>2. e.past[c] \subseteq e.past[b]
    BY <1>1, <2>1
  <2>3. c # e.genesis => e.gd[c].blues \subseteq e.past[c]
    BY <1>4, <2>1
  <2> QED
    BY <1>3, <2>1, <2>2, <2>3
<1>7. ASSUME NEW x \in Blocks(e) \ {e.genesis}, sp(x) \in S
      PROVE  x \in S
  <2>1. ASSUME NEW c \in chain(sp(x)) PROVE e.gd[c].blues \cap e.gd[x].blues = {}
    <3>1. sp(x) \in Blocks(e)
      BY <1>7
    <3>2. e.gd[c].blues \subseteq e.past[sp(x)] \cup {ORIGIN}
      BY <1>6, <3>1
    <3>3. e.gd[x].blues \cap e.past[sp(x)] = {} /\ ORIGIN \notin e.gd[x].blues
      BY <1>1, <1>2, <1>4
    <3> QED
      BY <3>2, <3>3
  <2>2. \A c, d \in chain(sp(x)) : c # d => e.gd[c].blues \cap e.gd[d].blues = {}
    BY <1>7
  <2>3. chain(x) = chain(sp(x)) \cup {x}
    BY <1>5
  <2> HIDE DEF sp
  <2> QED
    BY <2>1, <2>2, <2>3
<1>8. e.genesis \in S
  BY <1>3, <1>5
<1>9. Blocks(e) \subseteq S
  <2>1. e.genesis \in Blocks(e) => e.genesis \in S
    BY <1>1, <1>8
  <2>2. \A x \in Blocks(e) \ {e.genesis} :
           e.gd[x].selected_parent \in S => x \in S
    BY <1>1, <1>7
  <2> HIDE DEF S
  <2> QED
    BY <1>1, <2>1, <2>2, ChainInduction
<1>10. \A b, x : x \in BlueSetIn(e, b) <=>
                    x # ORIGIN /\ \E c \in chain(b) : x \in e.gd[c].blues
  BY DEF BlueSetIn, chain
<1>11. BlueSetIn(e, e.genesis) = {}
  BY <1>3, <1>5, <1>10
<1>12. ASSUME NEW b \in Blocks(e) \ {e.genesis}
       PROVE  BlueSetIn(e, b) = BlueSetIn(e, sp(b)) \cup e.gd[b].blues
  <2>1. sp(b) \in Blocks(e)
    BY <1>1
  <2>2. chain(b) = chain(sp(b)) \cup {b}
    BY <1>5
  <2>3. ORIGIN \notin e.gd[b].blues
    BY <1>1, <1>2, <1>4
  <2> HIDE DEF sp
  <2>4. \A x : x \in BlueSetIn(e, b) <=> x \in BlueSetIn(e, sp(b)) \cup e.gd[b].blues
    BY <1>10, <2>2, <2>3
  <2> QED
    BY <2>4
<1>13. ASSUME NEW b \in Blocks(e)
       PROVE  BlueSetIn(e, b) \subseteq e.past[b]
  BY <1>6, <1>10
<1> QED
  BY <1>4, <1>9, <1>11, <1>12, <1>13 DEF chain

(* A block that may still be coloured: not behind the selected parent, nor *)
(* behind the blocks P that have been coloured before it.                  *)
Candidate(e, sp, P, cand) ==
    /\ sp \in Blocks(e)
    /\ P \subseteq Blocks(e) \ e.past[sp]
    /\ cand \in Blocks(e) \ (P \cup {sp} \cup e.past[sp])
    /\ \A p \in P : cand \notin e.past[p]

(* check_blue_candidate visits exactly the blues in the anticone of the    *)
(* candidate, each of them once.                                           *)
LEMMA PeersAreAnticone ==
    ASSUME NEW e, EngineOK(e), BluesOK(e), Antichains(e), NEW sp, NEW P, NEW cand, Candidate(e, sp, P, cand),
           NEW d, d.selected_parent = sp, d.blues \subseteq P \cup {sp}
    PROVE  LET A == AnticoneIn(e, cand) \cap (BlueSetIn(e, sp) \cup d.blues)
           IN  /\ CandidatePeers(e, d, cand) = A
               /\ CandidateAnticoneSize(e, d, cand) = Cardinality(A)
<1> DEFINE chain == ToSet(SelectedChain(e, sp))
           W == WalkedChain(e, d, cand)
           L == AnticoneBlues(e, d.blues, cand)
           R == PeerUnion(e, cand, W)
           A == AnticoneIn(e, cand) \cap (BlueSetIn(e, sp) \cup d.blues)
<1>1. /\ Blocks(e) \subseteq Hash /\ IsFiniteSet(Blocks(e))
      /\ \A b \in Blocks(e) : e.past[b] \subseteq Blocks(e)
      /\ \A b \in Blocks(e) :
           \A a \in e.past[b] : e.past[a] \subseteq e.past[b]
  BY DEF EngineOK, TypesOK, Ancestral
<1>2. ORIGIN \notin Blocks(e)
  BY <1>1, HashAssumption
<1>3. /\ sp \in Blocks(e) /\ cand \in Blocks(e)
      /\ cand # sp /\ cand \notin e.past[sp] /\ cand \notin P
      /\ \A p \in P : cand \notin e.past[p]
      /\ P \subseteq Blocks(e) /\ P \cap e.past[sp] = {}
  BY DEF Candidate
<1>4. chain \subseteq e.past[sp] \cup {sp}
  BY <1>3, ChainInPast
<1>5. W = {c \in chain : ~IsDagAncestorOf(e, c, cand)}
  BY DEF WalkedChain
<1>6. cand # e.genesis
  BY <1>3 DEF BluesOK
<1>7. \A c \in W : /\ c \in Blocks(e) \ {e.genesis}
                   /\ c \in e.past[sp] \cup {sp}
                   /\ c \in chain
                   /\ e.gd[c].blues \subseteq e.past[sp]
  <2> SUFFICES ASSUME NEW c \in W
               PROVE  /\ c \in Blocks(e) \ {e.genesis}
                      /\ c \in e.past[sp] \cup {sp}
                      /\ c \in chain
                      /\ e.gd[c].blues \subseteq e.past[sp]
    OBVIOUS
  <2>1. c \in chain /\ ~IsDagAncestorOf(e, c, cand)
    BY <1>5
  <2>2. c \in Blocks(e) /\ c \in e.past[sp] \cup {sp}
    BY <1>1, <1>3, <1>4, <2>1
  <2>3. c # e.genesis
    BY <1>3, <1>6, <2>1 DEF BluesOK, IsDagAncestorOf
  <2>4. e.gd[c].blues \subseteq e.past[c]
    BY <2>2, <2>3, BluesFacts
  <2>5. e.past[c] \subseteq e.past[sp]
    BY <1>1, <1>3, <2>2
  <2> QED
    BY <2>1, <2>2, <2>3, <2>4, <2>5
<1>8. \A x : x \in BlueSetIn(e, sp) <=> x # ORIGIN /\ \E c \in chain : x \in e.gd[c].blues
  BY DEF BlueSetIn
<1>9. BlueSetIn(e, sp) \subseteq e.past[sp]
  BY <1>3, BluesFacts
<1>10. \A x : x \in L <=> x \in d.blues /\ ~IsDagAncestorOf(e, x, cand)
  BY DEF AnticoneBlues
<1>11. \A x : x \in R <=> \E c \in W : x \in e.gd[c].blues
                                       /\ ~IsDagAncestorOf(e, x, cand)
  BY DEF PeerUnion, AnticoneBlues
<1>12. \A x \in Blocks(e) :
          x \in AnticoneIn(e, cand) <=> /\ ~IsDagAncestorOf(e, x, cand)
                                   /\ ~IsDagAncestorOf(e, cand, x)
  BY DEF AnticoneIn
<1>13. d.blues \subseteq Blocks(e)
  BY <1>3
<1>14. BlueSetIn(e, sp) \cup d.blues \subseteq Blocks(e)
  BY <1>1, <1>3, <1>9, <1>13
<1> HIDE DEF chain, W, L, R
<1>15. ASSUME NEW x \in L PROVE x \in A
  <2>1. x \in P \cup {sp} /\ x \in d.blues /\ x \in Blocks(e)
    BY <1>10, <1>13
  <2>2. ~IsDagAncestorOf(e, cand, x)
    BY <1>3, <2>1 DEF IsDagAncestorOf
  <2> QED
    BY <1>10, <1>12, <2>1, <2>2
<1>16. ASSUME NEW x \in R PROVE x \in AnticoneIn(e, cand) /\ x \in BlueSetIn(e, sp)
  <2>1. PICK c \in W : x \in e.gd[c].blues /\ ~IsDagAncestorOf(e, x, cand)
    BY <1>11
  <2>2. x \in e.past[sp] /\ x \in Blocks(e)
    BY <1>1, <1>3, <1>7, <2>1
  <2>3. e.past[x] \subseteq e.past[sp]
    BY <1>1, <1>3, <2>2
  <2>4. ~IsDagAncestorOf(e, cand, x)
    BY <1>3, <2>2, <2>3 DEF IsDagAncestorOf
  <2>5. x \in BlueSetIn(e, sp)
    BY <1>2, <1>7, <1>8, <2>1, <2>2
  <2> QED
    BY <1>12, <2>1, <2>2, <2>4, <2>5
<1>17. ASSUME NEW x \in A PROVE x \in L \cup R
  <2>1. x \in Blocks(e) /\ ~IsDagAncestorOf(e, x, cand)
    BY <1>12, <1>14
  <2>2. CASE x \in d.blues
    BY <1>10, <2>1, <2>2
  <2>3. CASE x \in BlueSetIn(e, sp)
    <3>1. PICK c \in chain : x # ORIGIN /\ x \in e.gd[c].blues
      BY <1>8, <2>3
    <3>2. c \in Blocks(e)
      BY <1>1, <1>3, <1>4
    <3>3. c # e.genesis
      BY <3>1 DEF BluesOK
    <3>4. x \in e.past[c]
      BY <3>1, <3>2, <3>3, BluesFacts
    <3>5. ~IsDagAncestorOf(e, c, cand)
      BY <1>1, <1>3, <2>1, <3>4 DEF IsDagAncestorOf
    <3>6. c \in W
      BY <1>5, <3>5
    <3> QED
      BY <1>11, <2>1, <3>1, <3>6
  <2> QED
    BY <2>2, <2>3
<1>18. L \cup R = A /\ L \cap R = {}
  <2>1. L \cup R = A
    BY <1>15, <1>16, <1>17
  <2>2. L \cap R = {}
    <3>1. \A x \in L : x \notin e.past[sp]
      <4>1. sp \notin e.past[sp]
        BY <1>3 DEF EngineOK, Ancestral
      <4> QED
        BY <1>3, <1>10, <4>1
    <3>2. \A x \in R : x \in e.past[sp]
      BY <1>9, <1>16
    <3> QED
      BY <3>1, <3>2
  <2> QED
    BY <2>1, <2>2
<1>19. CandidatePeers(e, d, cand) = A
  BY <1>18 DEF CandidatePeers, PeerUnion, L, R, W
<1>20. IsFiniteSet(W) /\ IsFiniteSet(L)
  <2>1. W \in SUBSET Blocks(e) /\ L \in SUBSET Blocks(e)
    BY <1>7, <1>10, <1>13
  <2> QED
    BY <1>1, <2>1, FS_Subset
<1>21. /\ IsFiniteSet(R)
       /\ CandidateAnticoneSize(e, d, cand) = Cardinality(L) + Cardinality(R)
  <2>1. \A c \in W : IsFiniteSet(e.gd[c].blues)
    <3> SUFFICES ASSUME NEW c \in W PROVE IsFiniteSet(e.gd[c].blues)
      OBVIOUS
    <3>1. e.gd[c].blues \in SUBSET Blocks(e)
      BY <1>1, <1>3, <1>7
    <3> QED
      BY <1>1, <3>1, FS_Subset
  <2>2. \A c, w \in W : c # w => e.gd[c].blues \cap e.gd[w].blues = {}
    BY <1>3, <1>7, BluesFacts DEF chain
  <2>3. /\ IsFiniteSet(R)
        /\ PeerTotal(e, cand, W) = Cardinality(R)
    BY <1>20, <2>1, <2>2, PeersAdd DEF R
  <2>4. CandidateAnticoneSize(e, d, cand) = Cardinality(L) + PeerTotal(e, cand, W)
    BY DEF CandidateAnticoneSize, PeerTotal, L, W
  <2> QED
    BY <2>3, <2>4
<1>22. CandidateAnticoneSize(e, d, cand) = Cardinality(A)
  <2>1. Cardinality(L \cup R) = Cardinality(L) + Cardinality(R) - Cardinality(L \cap R)
    BY <1>20, <1>21, FS_Union
  <2>2. Cardinality(L \cap R) = 0
    BY <1>18, FS_EmptySet
  <2>3. Cardinality(L) \in Nat /\ Cardinality(R) \in Nat
    BY <1>20, <1>21, FS_CardinalityType
  <2> HIDE DEF A
  <2>4. Cardinality(L \cup R) = Cardinality(A)
    BY <1>18
  <2> QED
    BY <1>21, <2>1, <2>2, <2>3, <2>4
<1> QED
  BY <1>19, <1>22

(* The blue set that a colouring has reached.                              *)
Reached(e, sp, d) == BlueSetIn(e, sp) \cup d.blues

(* How many blocks of B are in the anticone of x.                          *)
BlueAnticone(e, x, B) == Cardinality(AnticoneIn(e, x) \cap B)

(* The blues of a colouring are blocks of P and the selected parent; the   *)
(* anticone sizes seen from it are exact and at most k.                    *)
Colored(e, d, sp, P) ==
    /\ d = [selected_parent |-> sp, blues |-> d.blues, sizes |-> d.sizes]
    /\ sp \in d.blues /\ d.blues \subseteq P \cup {sp}
    /\ \A x \in Reached(e, sp, d) :
         /\ BlueAnticoneSize(e, x, d) = BlueAnticone(e, x, Reached(e, sp, d))
         /\ BlueAnticone(e, x, Reached(e, sp, d)) <= K

(* Anticones are symmetric, and no block is in its own.                    *)
LEMMA AnticoneFacts ==
    \A e :
    /\ \A x, y \in Blocks(e) : x \in AnticoneIn(e, y) <=> y \in AnticoneIn(e, x)
    /\ \A x : x \notin AnticoneIn(e, x)
BY DEF AnticoneIn, IsDagAncestorOf

(* A blue more in a finite set of blocks.                                  *)
LEMMA OneMoreBlue ==
    ASSUME NEW e, NEW B, IsFiniteSet(B), NEW x, NEW y, y \notin B
    PROVE  /\ BlueAnticone(e, x, B) \in Nat
           /\ y \in AnticoneIn(e, x) => BlueAnticone(e, x, B \cup {y}) = BlueAnticone(e, x, B) + 1
           /\ y \notin AnticoneIn(e, x) => BlueAnticone(e, x, B \cup {y}) = BlueAnticone(e, x, B)
<1> DEFINE A == AnticoneIn(e, x) \cap B
<1>1. IsFiniteSet(A) /\ Cardinality(A) \in Nat
  BY FS_Intersection, FS_CardinalityType
<1>2. ASSUME y \in AnticoneIn(e, x) PROVE BlueAnticone(e, x, B \cup {y}) = BlueAnticone(e, x, B) + 1
  <2>1. AnticoneIn(e, x) \cap (B \cup {y}) = A \cup {y} /\ y \notin A
    BY <1>2
  <2> HIDE DEF A
  <2>2. Cardinality(A \cup {y}) = Cardinality(A) + 1
    BY <1>1, <2>1, FS_AddElement
  <2> QED
    BY <2>1, <2>2 DEF BlueAnticone, A
<1>3. ASSUME y \notin AnticoneIn(e, x) PROVE BlueAnticone(e, x, B \cup {y}) = BlueAnticone(e, x, B)
  <2>1. AnticoneIn(e, x) \cap (B \cup {y}) = A
    BY <1>3
  <2> QED
    BY <2>1 DEF BlueAnticone
<1> QED
  BY <1>1, <1>2, <1>3 DEF BlueAnticone

(* Colouring one more candidate keeps the blue set a k-cluster with exact  *)
(* anticone sizes, whether it becomes blue or red.                         *)
LEMMA ColorKeeps ==
    ASSUME NEW e, EngineOK(e), BluesOK(e), Antichains(e), NEW sp, NEW P, NEW cand, Candidate(e, sp, P, cand),
           NEW d, Colored(e, d, sp, P)
    PROVE  Colored(e, Color(e, d, cand), sp, P \cup {cand})
<1> DEFINE B == Reached(e, sp, d)
           peers == CandidatePeers(e, d, cand)
           size == CandidateAnticoneSize(e, d, cand)
           d2 == AddBlue(e, d, cand)
           B2 == Reached(e, sp, d2)
<1>1. /\ d = [selected_parent |-> sp, blues |-> d.blues, sizes |-> d.sizes]
      /\ d.selected_parent = sp
      /\ sp \in d.blues /\ d.blues \subseteq P \cup {sp}
      /\ \A x \in B : BlueAnticoneSize(e, x, d) = BlueAnticone(e, x, B)
                      /\ BlueAnticone(e, x, B) <= K
  BY DEF Colored
<1>2. CASE ~CheckBlueCandidate(e, d, cand)
  <2>1. Color(e, d, cand) = d
    BY <1>2 DEF Color
  <2>2. d.blues \subseteq (P \cup {cand}) \cup {sp}
    BY <1>1
  <2> QED
    BY <1>1, <2>1, <2>2 DEF Colored
<1>3. CASE CheckBlueCandidate(e, d, cand)
  <2>1. Color(e, d, cand) = d2
    BY <1>3 DEF Color
  <2>2. peers = AnticoneIn(e, cand) \cap B /\ size = BlueAnticone(e, cand, B)
    BY <1>1, PeersAreAnticone DEF Reached, BlueAnticone
  <2>3. /\ size <= K
        /\ \A p \in peers : BlueAnticoneSize(e, p, d) # K
    BY <1>3 DEF CheckBlueCandidate
  <2>4. /\ B \subseteq Blocks(e) /\ IsFiniteSet(B) /\ cand \notin B
        /\ cand \in Blocks(e)
    <3>1. /\ sp \in Blocks(e) /\ cand \in Blocks(e)
          /\ P \subseteq Blocks(e)
          /\ cand \notin P \cup {sp} /\ cand \notin e.past[sp]
      BY DEF Candidate
    <3>2. BlueSetIn(e, sp) \subseteq e.past[sp]
      BY <3>1, BluesFacts
    <3>3. e.past[sp] \subseteq Blocks(e) /\ IsFiniteSet(Blocks(e))
      BY <3>1 DEF EngineOK, TypesOK
    <3>4. B \in SUBSET Blocks(e)
      BY <1>1, <3>1, <3>2, <3>3 DEF Reached
    <3>5. cand \notin B
      BY <1>1, <3>1, <3>2 DEF Reached
    <3> HIDE DEF B
    <3> QED
      BY <3>1, <3>3, <3>4, <3>5, FS_Subset
  <2>5. /\ d2.selected_parent = sp
        /\ d2.blues = d.blues \cup {cand}
        /\ d2.sizes = [x \in DOMAIN d.sizes \cup peers \cup {cand} |->
                         IF x \in peers THEN BlueAnticoneSize(e, x, d) + 1
                         ELSE IF x = cand THEN size ELSE d.sizes[x]]
        /\ d2 = [selected_parent |-> sp, blues |-> d2.blues, sizes |-> d2.sizes]
    <3> DEFINE bl == d.blues
               sz == d.sizes
               s2 == [x \in DOMAIN sz \cup peers \cup {cand} |->
                         IF x \in peers THEN BlueAnticoneSize(e, x, d) + 1
                         ELSE IF x = cand THEN size ELSE sz[x]]
    <3>1. d2 = [d EXCEPT !.blues = bl \cup {cand}, !.sizes = s2]
      BY DEF AddBlue
    <3>2. d = [selected_parent |-> sp, blues |-> bl, sizes |-> sz]
      BY <1>1
    <3> HIDE DEF d2, bl, sz, s2
    <3>3. d2 = [selected_parent |-> sp, blues |-> bl \cup {cand}, sizes |-> s2]
      BY <3>1, <3>2
    <3>4. /\ d2.selected_parent = sp /\ d2.blues = bl \cup {cand} /\ d2.sizes = s2
          /\ d2 = [selected_parent |-> sp, blues |-> d2.blues, sizes |-> d2.sizes]
      BY <3>3
    <3> QED
      BY <3>4 DEF bl, sz, s2
  <2>6. B2 = B \cup {cand}
    BY <2>5 DEF Reached
  <2>7. Climbing(e)
    BY SelectedClimbs
  <2> HIDE DEF d2, B, B2, peers, size
  <2>8. \A x \in Blocks(e) : x \in AnticoneIn(e, cand) <=> cand \in AnticoneIn(e, x)
    BY <2>4, AnticoneFacts
  <2>9. BlueAnticone(e, cand, B2) = BlueAnticone(e, cand, B)
    BY <2>4, <2>6, AnticoneFacts, OneMoreBlue
  <2>10. \A x : BlueAnticone(e, x, B) \in Nat
    BY <2>4, OneMoreBlue
  <2>11. ASSUME NEW x \in B2
         PROVE  BlueAnticoneSize(e, x, d2) = BlueAnticone(e, x, B2) /\ BlueAnticone(e, x, B2) <= K
    <3>1. CASE x \in peers
      <4>1. x \in B /\ x \in Blocks(e) /\ cand \in AnticoneIn(e, x)
        BY <2>2, <2>4, <2>8, <3>1
      <4>2. BlueAnticone(e, x, B2) = BlueAnticone(e, x, B) + 1
        BY <2>4, <2>6, <4>1, OneMoreBlue
      <4>3. BlueAnticoneSize(e, x, d) = BlueAnticone(e, x, B) /\ BlueAnticone(e, x, B) <= K
        BY <1>1, <4>1
      <4>4. BlueAnticone(e, x, B) # K
        BY <2>3, <3>1, <4>3
      <4>5. BlueAnticoneSize(e, x, d2) = BlueAnticone(e, x, B) + 1
        <5>1. x \in DOMAIN d2.sizes /\ d2.sizes[x] = BlueAnticoneSize(e, x, d) + 1
          BY <2>5, <3>1
        <5>2. BlueAnticoneSize(e, x, d2) = d2.sizes[x]
          BY <2>7, <5>1, SizeEquation
        <5> QED
          BY <4>3, <5>1, <5>2
      <4> QED
        BY <2>10, <4>2, <4>3, <4>4, <4>5, KAssumption
    <3>2. CASE x = cand
      <4>1. cand \notin peers
        BY <2>2, AnticoneFacts
      <4>2. x \in DOMAIN d2.sizes /\ d2.sizes[x] = size
        BY <2>5, <3>2, <4>1
      <4>3. BlueAnticoneSize(e, x, d2) = d2.sizes[x]
        BY <2>7, <4>2, SizeEquation
      <4> QED
        BY <2>2, <2>3, <2>9, <3>2, <4>2, <4>3
    <3>3. CASE x \notin peers /\ x # cand
      <4>1. x \in B /\ x \in Blocks(e)
        BY <2>4, <2>6, <3>3
      <4>2. cand \notin AnticoneIn(e, x)
        BY <2>2, <2>8, <3>3, <4>1
      <4>3. BlueAnticone(e, x, B2) = BlueAnticone(e, x, B)
        BY <2>4, <2>6, <4>2, OneMoreBlue
      <4>4. BlueAnticoneSize(e, x, d2) = BlueAnticoneSize(e, x, d)
        <5>1. /\ x \in DOMAIN d2.sizes <=> x \in DOMAIN d.sizes
              /\ x \in DOMAIN d.sizes => d2.sizes[x] = d.sizes[x]
          BY <2>5, <3>3
        <5>2. /\ BlueAnticoneSize(e, x, d2) =
                   IF x \in DOMAIN d2.sizes THEN d2.sizes[x]
                   ELSE SizeFrom(e, x, d2.selected_parent)
              /\ BlueAnticoneSize(e, x, d) =
                   IF x \in DOMAIN d.sizes THEN d.sizes[x]
                   ELSE SizeFrom(e, x, d.selected_parent)
          BY <2>7, SizeEquation, Zenon
        <5> QED
          BY <1>1, <2>5, <5>1, <5>2
      <4> QED
        BY <1>1, <4>1, <4>3, <4>4
    <3> QED
      BY <3>1, <3>2, <3>3
  <2>12. sp \in d2.blues /\ d2.blues \subseteq (P \cup {cand}) \cup {sp}
    BY <1>1, <2>5
  <2>13. Colored(e, d2, sp, P \cup {cand})
    BY <2>5, <2>11, <2>12 DEF Colored, B2
  <2> QED
    BY <2>1, <2>13
<1> QED
  BY <1>2, <1>3

(* Every blue set so far is a k-cluster, with exact anticone sizes.        *)
Clustered(e) ==
    \A b \in Blocks(e) : \A x \in BlueSetIn(e, b) :
        /\ BlueAnticoneSize(e, x, e.gd[b]) = BlueAnticone(e, x, BlueSetIn(e, b))
        /\ BlueAnticone(e, x, BlueSetIn(e, b)) <= K

(* The selected parent alone is coloured: new_with_selected_parent.        *)
LEMMA ColoringStarts ==
    ASSUME NEW e, EngineOK(e), BluesOK(e), Antichains(e), Clustered(e), NEW sp \in Blocks(e)
    PROVE  Colored(e, NewWithSelectedParent(sp), sp, {})
<1> DEFINE d == NewWithSelectedParent(sp)
           B == Reached(e, sp, d)
<1>1. /\ d = [selected_parent |-> sp, blues |-> d.blues, sizes |-> d.sizes]
      /\ d.selected_parent = sp /\ d.blues = {sp} /\ d.sizes = [x \in {sp} |-> 0]
  BY DEF NewWithSelectedParent
<1>2. /\ BlueSetIn(e, sp) \subseteq e.past[sp] /\ sp \notin e.past[sp]
      /\ e.past[sp] \subseteq Blocks(e) /\ IsFiniteSet(Blocks(e))
  BY BluesFacts DEF EngineOK, TypesOK, Ancestral
<1>3. B = BlueSetIn(e, sp) \cup {sp}
  BY <1>1 DEF Reached
<1>4. IsFiniteSet(BlueSetIn(e, sp))
  <2>1. BlueSetIn(e, sp) \in SUBSET Blocks(e)
    BY <1>2
  <2> QED
    BY <1>2, <2>1, FS_Subset
<1>5. Climbing(e)
  BY SelectedClimbs DEF EngineOK, TypesOK
<1> HIDE DEF d, B
<1>6. \A x \in BlueSetIn(e, sp) : x \notin AnticoneIn(e, sp) /\ sp \notin AnticoneIn(e, x)
  BY <1>2 DEF AnticoneIn, IsDagAncestorOf
<1>7. ASSUME NEW x \in B
      PROVE  BlueAnticoneSize(e, x, d) = BlueAnticone(e, x, B) /\ BlueAnticone(e, x, B) <= K
  <2>1. CASE x = sp
    <3>1. AnticoneIn(e, sp) \cap B = {}
      BY <1>3, <1>6, AnticoneFacts
    <3>2. BlueAnticone(e, sp, B) = 0
      BY <3>1, FS_EmptySet DEF BlueAnticone
    <3>3. sp \in DOMAIN d.sizes /\ d.sizes[sp] = 0
      BY <1>1
    <3>4. BlueAnticoneSize(e, sp, d) = d.sizes[sp]
      BY <1>5, <3>3, SizeEquation
    <3> QED
      BY <2>1, <3>2, <3>3, <3>4, KAssumption
  <2>2. CASE x # sp
    <3>1. x \in BlueSetIn(e, sp)
      BY <1>3, <2>2
    <3>2. BlueAnticone(e, x, B) = BlueAnticone(e, x, BlueSetIn(e, sp))
      BY <1>2, <1>3, <1>4, <1>6, <3>1, OneMoreBlue
    <3>3. sp # e.genesis
      BY <3>1, BluesFacts
    <3>4. x \notin DOMAIN d.sizes
      BY <1>1, <2>2
    <3>5. BlueAnticoneSize(e, x, d) = SizeFrom(e, x, sp)
      <4>1. BlueAnticoneSize(e, x, d) =
               IF x \in DOMAIN d.sizes THEN d.sizes[x]
               ELSE SizeFrom(e, x, d.selected_parent)
        BY <1>5, SizeEquation, Zenon
      <4> QED
        BY <1>1, <3>4, <4>1
    <3>6. /\ SizeFrom(e, x, sp) =
               IF x \in DOMAIN e.gd[sp].sizes THEN e.gd[sp].sizes[x]
               ELSE SizeFrom(e, x, e.gd[sp].selected_parent)
          /\ BlueAnticoneSize(e, x, e.gd[sp]) =
               IF x \in DOMAIN e.gd[sp].sizes THEN e.gd[sp].sizes[x]
               ELSE SizeFrom(e, x, e.gd[sp].selected_parent)
      <4>1. SizeFrom(e, x, sp) =
               IF x \in DOMAIN e.gd[sp].sizes THEN e.gd[sp].sizes[x]
               ELSE IF sp = e.genesis THEN "not in blue set"
               ELSE SizeFrom(e, x, e.gd[sp].selected_parent)
        BY <1>5, SizeEquation, Zenon
      <4>2. BlueAnticoneSize(e, x, e.gd[sp]) =
               IF x \in DOMAIN e.gd[sp].sizes THEN e.gd[sp].sizes[x]
               ELSE SizeFrom(e, x, e.gd[sp].selected_parent)
        BY <1>5, SizeEquation, Zenon
      <4> QED
        BY <1>5, <3>3, <4>1, <4>2
    <3>7. /\ BlueAnticoneSize(e, x, e.gd[sp]) = BlueAnticone(e, x, BlueSetIn(e, sp))
          /\ BlueAnticone(e, x, BlueSetIn(e, sp)) <= K
      BY <3>1 DEF Clustered
    <3> QED
      BY <3>2, <3>5, <3>6, <3>7
  <2> QED
    BY <2>1, <2>2
<1>8. sp \in d.blues /\ d.blues \subseteq {} \cup {sp}
  BY <1>1
<1>9. Colored(e, d, sp, {})
  BY <1>1, <1>7, <1>8 DEF Colored, B
<1> QED
  BY <1>9 DEF d

(* What a run g of the colouring over the list s has reached after m       *)
(* candidates, and that the next may be coloured.                          *)
RunReaches(e, sp, s, g, m) ==
    /\ Colored(e, g[m], sp, {s[i] : i \in 1..m})
    /\ m + 1 <= Len(s) => Candidate(e, sp, {s[i] : i \in 1..m}, s[m + 1])

(* The colouring of a whole mergeset, candidate by candidate.              *)
LEMMA MergesetRun ==
    ASSUME NEW e, EngineOK(e), BluesOK(e), Antichains(e), Clustered(e), NEW sp \in Blocks(e),
           NEW M \in SUBSET Blocks(e), sp \notin M, M \cap e.past[sp] = {}
    PROVE  LET s == SortBlocks(e, M)
           IN  /\ Len(s) \in Nat /\ DOMAIN s = 1..Len(s)
               /\ {s[i] : i \in 1..Len(s)} = M
               /\ \E g : /\ Coloring!Runs(e, NewWithSelectedParent(sp), s, Len(s), g)
                        /\ ColorMergeset(e, sp, M) = g[Len(s)]
                        /\ \A m \in 0..Len(s) : RunReaches(e, sp, s, g, m)
<1> DEFINE s == SortBlocks(e, M)
           n == Len(s)
           first(m) == {s[i] : i \in 1..m}
<1>1. /\ Weighed(e, M) /\ IsFiniteSet(M)
      /\ \A b \in Blocks(e) : \A a \in e.past[b] :
            e.gd[a].blue_work < e.gd[b].blue_work
      /\ \A b \in Blocks(e) : e.gd[b].blue_work \in Nat
  BY FS_Subset, HashAssumption DEF EngineOK, TypesOK, Climbs, Weighed
<1>2. /\ s \in Seq(M)
      /\ \A x \in M : \E i \in 1..n : s[i] = x
      /\ \A i, j \in 1..n : i < j => Lighter(e, s[i], s[j])
  BY <1>1, SortedBlocks
<1>3. n \in Nat /\ DOMAIN s = 1..n /\ \A i \in 1..n : s[i] \in M
  BY <1>2
<1>4. ColorMergeset(e, sp, M) = Coloring!Fold(e, NewWithSelectedParent(sp), s)
  BY DEF ColorMergeset, Coloring!Fold, Coloring!FoldLeft, FoldLeft,
         Coloring!MapThenFoldSet, MapThenFoldSet, Coloring!Max, Max
<1> HIDE DEF s, n
<1>5. PICK g : /\ Coloring!Runs(e, NewWithSelectedParent(sp), s, n, g)
               /\ Coloring!Fold(e, NewWithSelectedParent(sp), s) = g[n]
  BY <1>3, Coloring!FoldRuns
<1> DEFINE T == {m \in Nat : m <= n => Colored(e, g[m], sp, first(m))}
<1>6. 0 \in T
  <2>1. first(0) = {} /\ g[0] = NewWithSelectedParent(sp)
    BY <1>5 DEF Coloring!Runs
  <2>2. Colored(e, g[0], sp, first(0))
    <3> HIDE DEF first
    <3> QED
      BY <2>1, ColoringStarts
  <2> QED
    BY <2>2
<1>7. ASSUME NEW m \in Nat, m + 1 <= n PROVE Candidate(e, sp, first(m), s[m + 1])
  <2> DEFINE cand == s[m + 1]
  <2>1. m + 1 \in 1..n /\ m <= n
    BY <1>3, <1>7
  <2>2. cand \in M /\ \A p \in first(m) : p \in M /\ Lighter(e, p, cand)
    <3>1. \A i \in 1..m : i \in 1..n /\ i < m + 1
      BY <1>3, <2>1
    <3> QED
      BY <1>2, <1>3, <2>1, <3>1
  <2> HIDE DEF cand, first
  <2>3. cand \notin first(m)
    BY <1>1, <2>2, LighterOrder
  <2>4. ASSUME NEW p \in first(m) PROVE cand \notin e.past[p]
    <3>1. p \in Blocks(e) /\ cand \in Blocks(e) /\ Lighter(e, p, cand)
      BY <2>2
    <3> QED
      BY <1>1, <3>1 DEF Lighter
  <2> QED
    BY <2>2, <2>3, <2>4 DEF Candidate, cand
<1>8. ASSUME NEW m \in Nat, m \in T PROVE m + 1 \in T
  <2> SUFFICES ASSUME m + 1 <= n PROVE Colored(e, g[m + 1], sp, first(m + 1))
    OBVIOUS
  <2> DEFINE cand == s[m + 1]
  <2>1. m + 1 \in 1..n /\ (m + 1) - 1 = m /\ m <= n
    BY <1>3
  <2>2. Colored(e, g[m], sp, first(m))
    BY <1>8, <2>1
  <2>3. g[m + 1] = Color(e, g[m], cand)
    BY <1>5, <2>1 DEF Coloring!Runs
  <2>4. first(m + 1) = first(m) \cup {cand}
    <3>1. \A i : i \in 1..(m + 1) <=> i \in 1..m \/ i = m + 1
      OBVIOUS
    <3> QED
      BY <3>1
  <2>5. Candidate(e, sp, first(m), cand)
    BY <1>7
  <2> HIDE DEF cand, first
  <2>6. Colored(e, Color(e, g[m], cand), sp, first(m) \cup {cand})
    BY <2>2, <2>5, ColorKeeps
  <2> QED
    BY <2>3, <2>4, <2>6
<1>9. \A m \in Nat : m \in T
  <2> HIDE DEF T
  <2> QED
    BY <1>6, <1>8, Sizes!NatInSet
<1>10. \A m \in 0..n : RunReaches(e, sp, s, g, m)
  <2> SUFFICES ASSUME NEW m \in 0..n PROVE RunReaches(e, sp, s, g, m)
    OBVIOUS
  <2>1. m \in Nat /\ m <= n /\ m \in T
    <3> HIDE DEF T
    <3> QED
      BY <1>3, <1>9
  <2>2. Colored(e, g[m], sp, first(m))
    BY <2>1
  <2>3. m + 1 <= n => Candidate(e, sp, first(m), s[m + 1])
    BY <1>7, <2>1
  <2> QED
    BY <2>2, <2>3 DEF RunReaches, n
<1>11. {s[i] : i \in 1..n} = M
  BY <1>2, <1>3
<1>12. \E h : /\ Coloring!Runs(e, NewWithSelectedParent(sp), s, n, h)
              /\ ColorMergeset(e, sp, M) = h[n]
              /\ \A m \in 0..n : RunReaches(e, sp, s, h, m)
  BY <1>4, <1>5, <1>10
<1> QED
  BY <1>3, <1>11, <1>12 DEF s, n

(* The colouring of a whole mergeset.                                      *)
LEMMA MergesetColored ==
    ASSUME NEW e, EngineOK(e), BluesOK(e), Antichains(e), Clustered(e), NEW sp \in Blocks(e),
           NEW M \in SUBSET Blocks(e), sp \notin M, M \cap e.past[sp] = {}
    PROVE  Colored(e, ColorMergeset(e, sp, M), sp, M)
<1> DEFINE s == SortBlocks(e, M)
           n == Len(s)
<1>1. /\ n \in Nat /\ {s[i] : i \in 1..n} = M
      /\ \E g : /\ ColorMergeset(e, sp, M) = g[n]
               /\ \A m \in 0..n : RunReaches(e, sp, s, g, m)
  BY MergesetRun
<1> HIDE DEF s, n
<1>2. PICK g : /\ ColorMergeset(e, sp, M) = g[n]
               /\ \A m \in 0..n : RunReaches(e, sp, s, g, m)
  BY <1>1
<1>3. RunReaches(e, sp, s, g, n)
  BY <1>1, <1>2
<1>4. Colored(e, g[n], sp, {s[i] : i \in 1..n})
  BY <1>3 DEF RunReaches
<1> QED
  BY <1>1, <1>2, <1>4

----------------------------------------------------------------------------
(* A block more.                                                           *)

(* e2 has the blocks of e, as they were, and perhaps more.                 *)
Grows(e, e2) ==
    /\ e2.genesis = e.genesis
    /\ Blocks(e) \subseteq Blocks(e2)
    /\ \A x \in Blocks(e) : e2.gd[x] = e.gd[x]

(* The selected chains and the anticone sizes along them stay.             *)
LEMMA ChainsStay ==
    ASSUME NEW e, NEW e2, Climbing(e), Climbing(e2), Grows(e, e2)
    PROVE  \A x \in Blocks(e) :
              /\ SelectedChain(e2, x) = SelectedChain(e, x)
              /\ \A block : SizeFrom(e2, block, x) = SizeFrom(e, block, x)
<1> DEFINE S == {x \in Blocks(e) : SelectedChain(e2, x) = SelectedChain(e, x)}
           Q(block) == {x \in Blocks(e) : SizeFrom(e2, block, x) = SizeFrom(e, block, x)}
<1>1. /\ e2.genesis = e.genesis
      /\ \A x \in Blocks(e) : x \in Blocks(e2) /\ e2.gd[x] = e.gd[x]
      /\ \A x \in Blocks(e) \ {e.genesis} : e.gd[x].selected_parent \in Blocks(e)
  BY DEF Grows, Climbing
<1>2. Blocks(e) \subseteq S
  <2>1. ASSUME NEW x \in Blocks(e)
        PROVE  SelectedChain(e, x) =
                 IF x = e.genesis THEN <<x>>
                 ELSE Append(SelectedChain(e, e.gd[x].selected_parent), x)
    BY ChainEquation
  <2>2. ASSUME NEW x \in Blocks(e)
        PROVE  SelectedChain(e2, x) =
                 IF x = e.genesis THEN <<x>>
                 ELSE Append(SelectedChain(e2, e.gd[x].selected_parent), x)
    <3>1. x \in Blocks(e2) /\ e2.genesis = e.genesis /\ e2.gd[x] = e.gd[x]
      BY <1>1
    <3>2. SelectedChain(e2, x) =
             IF x = e2.genesis THEN <<x>>
             ELSE Append(SelectedChain(e2, e2.gd[x].selected_parent), x)
      BY <3>1, ChainEquation
    <3> QED
      BY <3>1, <3>2
  <2>3. e.genesis \in Blocks(e) => e.genesis \in S
    BY <2>1, <2>2
  <2>4. \A x \in Blocks(e) \ {e.genesis} : e.gd[x].selected_parent \in S => x \in S
    BY <2>1, <2>2
  <2> HIDE DEF S
  <2> QED
    BY <2>3, <2>4, ChainInduction
<1>3. ASSUME NEW block PROVE Blocks(e) \subseteq Q(block)
  <2>1. ASSUME NEW x \in Blocks(e)
        PROVE  SizeFrom(e, block, x) =
                 IF block \in DOMAIN e.gd[x].sizes THEN e.gd[x].sizes[block]
                 ELSE IF x = e.genesis THEN "not in blue set"
                 ELSE SizeFrom(e, block, e.gd[x].selected_parent)
    BY SizeEquation, Zenon
  <2>2. ASSUME NEW x \in Blocks(e)
        PROVE  SizeFrom(e2, block, x) =
                 IF block \in DOMAIN e.gd[x].sizes THEN e.gd[x].sizes[block]
                 ELSE IF x = e.genesis THEN "not in blue set"
                 ELSE SizeFrom(e2, block, e.gd[x].selected_parent)
    <3>1. x \in Blocks(e2) /\ e2.genesis = e.genesis /\ e2.gd[x] = e.gd[x]
      BY <1>1
    <3>2. SizeFrom(e2, block, x) =
                 IF block \in DOMAIN e2.gd[x].sizes THEN e2.gd[x].sizes[block]
                 ELSE IF x = e2.genesis THEN "not in blue set"
                 ELSE SizeFrom(e2, block, e2.gd[x].selected_parent)
      BY <3>1, SizeEquation, Zenon
    <3> QED
      BY <3>1, <3>2
  <2>3. e.genesis \in Blocks(e) => e.genesis \in Q(block)
    BY <2>1, <2>2
  <2>4. \A x \in Blocks(e) \ {e.genesis} : e.gd[x].selected_parent \in Q(block) => x \in Q(block)
    BY <2>1, <2>2
  <2> HIDE DEF Q
  <2> QED
    BY <2>3, <2>4, ChainInduction
<1> QED
  BY <1>2, <1>3

(* What the blues and the anticone sizes of a new block with antichain     *)
(* parents are: those of the colouring.                                    *)
LEMMA DataColored ==
    ASSUME NEW e, EngineOK(e), BluesOK(e), Antichains(e), Clustered(e),
           NEW ps \in SUBSET Blocks(e), ps # {}, IsAntichain(e, ps)
    PROVE  LET d  == GhostdagData(e, ps)
               sp == FindSelectedParent(e, ps)
           IN  /\ d.selected_parent = sp
               /\ d.blues \subseteq Blocks(e)
               /\ \A x \in BlueSetIn(e, sp) \cup d.blues :
                     /\ BlueAnticoneSize(e, x, d)
                          = BlueAnticone(e, x, BlueSetIn(e, sp) \cup d.blues)
                     /\ BlueAnticone(e, x, BlueSetIn(e, sp) \cup d.blues) <= K
<1> DEFINE d  == GhostdagData(e, ps)
           sp == FindSelectedParent(e, ps)
           M  == UnorderedMergeset(e, sp, ps)
           c  == ColorMergeset(e, sp, M)
<1>1. /\ IsFiniteSet(Blocks(e)) /\ Weighed(e, Blocks(e))
      /\ e.past \in [Blocks(e) -> SUBSET Blocks(e)]
  BY HashAssumption DEF EngineOK, TypesOK, Weighed
<1>2. sp \in ps /\ d.selected_parent = sp
  BY <1>1, DataFacts
<1>3. \A p, q \in ps : p \notin e.past[q]
  BY DEF IsAntichain
<1>4. /\ d.blues = {sp} \cup (M \cap c.blues)
      /\ d.sizes = c.sizes
  BY DEF GhostdagData
<1>5. /\ M \in SUBSET Blocks(e) /\ sp \in Blocks(e)
      /\ sp \notin M /\ M \cap e.past[sp] = {}
  <2> HIDE DEF sp
  <2> QED
    BY <1>1, <1>2, <1>3 DEF UnorderedMergeset, IsDagAncestorOf
<1> HIDE DEF d, sp, M
<1>6. Colored(e, c, sp, M)
  BY <1>5, MergesetColored
<1> HIDE DEF c
<1>7. d.blues = c.blues /\ c.selected_parent = sp
  BY <1>4, <1>6 DEF Colored
<1>8. \A x : BlueAnticoneSize(e, x, d) = BlueAnticoneSize(e, x, c)
  BY <1>2, <1>4, <1>7 DEF BlueAnticoneSize
<1>9. \A x \in BlueSetIn(e, sp) \cup d.blues :
         /\ BlueAnticoneSize(e, x, d) = BlueAnticone(e, x, BlueSetIn(e, sp) \cup d.blues)
         /\ BlueAnticone(e, x, BlueSetIn(e, sp) \cup d.blues) <= K
  BY <1>6, <1>7, <1>8 DEF Colored, Reached
<1>10. d.blues \subseteq Blocks(e)
  BY <1>4, <1>5
<1> QED
  BY <1>2, <1>9, <1>10 DEF d, sp

----------------------------------------------------------------------------
(* Engines that start at different blocks of a DAG.                        *)

(* The engine as its own additions leave it, with antichain parents.       *)
Sound(e) == EngineOK(e) /\ BluesOK(e) /\ Antichains(e) /\ Clustered(e)

(* The blocks S of both, closed under ancestry in d, are above the first   *)
(* block of d, of which e may have a past.                                 *)
Above(d, e, S) ==
    /\ S \subseteq Blocks(d) /\ S \subseteq Blocks(e) /\ d.genesis \in S
    /\ S \cap e.past[d.genesis] = {}
    /\ \A b \in S : /\ d.past[b] \subseteq S
                    /\ e.past[b] = d.past[b] \cup e.past[d.genesis]

SameData(x, y) == x.selected_parent = y.selected_parent /\ x.blues = y.blues /\ x.reds = y.reds

(* Work counted from the first block of d.                                 *)
Offset(d, e, w, v) == v + d.gd[d.genesis].blue_work = w + e.gd[d.genesis].blue_work

(* There d and e have the same data.                                       *)
Mirrors(d, e, S) ==
    /\ Above(d, e, S)
    /\ \A b \in S \ {d.genesis} : SameData(d.gd[b], e.gd[b])
    /\ \A b \in S : Offset(d, e, d.gd[b].blue_work, e.gd[b].blue_work)

(* What of sound engines is used below.                                    *)
LEMMA SoundFacts ==
    ASSUME NEW e, Sound(e)
    PROVE  /\ Blocks(e) \subseteq Hash /\ IsFiniteSet(Blocks(e)) /\ Weighed(e, Blocks(e))
           /\ e.past \in [Blocks(e) -> SUBSET Blocks(e)]
           /\ e.genesis \in Blocks(e) /\ e.past[e.genesis] = {}
           /\ \A b \in Blocks(e) :
                /\ b \notin e.past[b]
                /\ \A a \in e.past[b] : e.past[a] \subseteq e.past[b]
                /\ b # e.genesis => e.genesis \in e.past[b]
BY HashAssumption DEF Sound, EngineOK, TypesOK, Ancestral, BluesOK, Weighed

(* The order by (blue work, hash) is the same.                             *)
LEMMA MirrorLighter ==
    ASSUME NEW d, NEW e, Sound(d), Sound(e), NEW S, Mirrors(d, e, S),
           NEW a \in S, NEW b \in S
    PROVE  Lighter(d, a, b) <=> Lighter(e, a, b)
<1> DEFINE g == d.genesis
<1>1. g \in S /\ S \subseteq Blocks(d) /\ S \subseteq Blocks(e)
  BY DEF Mirrors, Above
<1>2. /\ d.gd[a].blue_work \in Nat /\ d.gd[b].blue_work \in Nat /\ d.gd[g].blue_work \in Nat
      /\ e.gd[a].blue_work \in Nat /\ e.gd[b].blue_work \in Nat /\ e.gd[g].blue_work \in Nat
  BY <1>1, SoundFacts DEF Weighed
<1>3. /\ e.gd[a].blue_work + d.gd[g].blue_work = d.gd[a].blue_work + e.gd[g].blue_work
      /\ e.gd[b].blue_work + d.gd[g].blue_work = d.gd[b].blue_work + e.gd[g].blue_work
  BY DEF Mirrors, Offset
<1> HIDE DEF g
<1>4. /\ d.gd[a].blue_work < d.gd[b].blue_work <=> e.gd[a].blue_work < e.gd[b].blue_work
      /\ d.gd[a].blue_work = d.gd[b].blue_work <=> e.gd[a].blue_work = e.gd[b].blue_work
  BY <1>2, <1>3
<1> QED
  BY <1>4 DEF Lighter

(* find_selected_parent finds the same parent.                             *)
LEMMA MirrorParent ==
    ASSUME NEW d, NEW e, Sound(d), Sound(e), NEW S, Mirrors(d, e, S),
           NEW ps \in SUBSET S, ps # {}
    PROVE  FindSelectedParent(d, ps) = FindSelectedParent(e, ps)
<1> DEFINE p == FindSelectedParent(d, ps)
           q == FindSelectedParent(e, ps)
<1>1. S \subseteq Blocks(d) /\ S \subseteq Blocks(e) /\ IsFiniteSet(ps)
  BY SoundFacts, FS_Subset DEF Mirrors, Above
<1>2. Weighed(d, ps) /\ Weighed(e, ps)
  BY <1>1, SoundFacts DEF Weighed
<1>3. /\ p \in ps /\ \A x \in ps \ {p} : Lighter(d, x, p)
      /\ q \in ps /\ \A x \in ps \ {q} : Lighter(e, x, q)
  BY <1>1, <1>2, SelectedParent
<1> HIDE DEF p, q
<1>4. ASSUME p # q PROVE FALSE
  <2>1. Lighter(d, q, p) /\ Lighter(e, p, q)
    BY <1>3, <1>4
  <2>2. Lighter(e, q, p)
    BY <1>3, <2>1, MirrorLighter
  <2>3. Lighter(e, p, p)
    BY <1>2, <1>3, <2>1, <2>2, LighterOrder
  <2> QED
    BY <1>2, <1>3, <2>3, LighterOrder
<1> QED
  BY <1>4 DEF p, q

(* The mergeset is the same: below the first block of d every chain block  *)
(* has everything.                                                         *)
LEMMA MirrorMergeset ==
    ASSUME NEW d, NEW e, Sound(d), Sound(e), NEW S, Mirrors(d, e, S),
           NEW ps \in SUBSET S, NEW sp \in ps
    PROVE  UnorderedMergeset(d, sp, ps) = UnorderedMergeset(e, sp, ps)
<1>1. \A b \in S : e.past[b] = d.past[b] \cup e.past[d.genesis]
  BY DEF Mirrors, Above
<1>2. S \cap e.past[d.genesis] = {} /\ \A b \in S : d.past[b] \subseteq S
  BY DEF Mirrors, Above
<1>3. sp \in S
  OBVIOUS
<1>4. ASSUME NEW q \in ps, NEW x
      PROVE  (x \in d.past[q] /\ ~IsDagAncestorOf(d, x, sp))
               <=> (x \in e.past[q] /\ ~IsDagAncestorOf(e, x, sp))
  <2>1. q \in S
    OBVIOUS
  <2>2. x \in d.past[q] => x \notin e.past[d.genesis]
    BY <1>2, <2>1
  <2> QED
    BY <1>1, <1>3, <2>1, <2>2 DEF IsDagAncestorOf
<1>5. \A x : x \in UnorderedMergeset(d, sp, ps) <=> x \in UnorderedMergeset(e, sp, ps)
  <2>1. \A x : x \in UnorderedMergeset(d, sp, ps) <=>
                 x \in ps \ {sp} \/ \E q \in ps \ {sp} : x \in d.past[q] /\ ~IsDagAncestorOf(d, x, sp)
    BY DEF UnorderedMergeset
  <2>2. \A x : x \in UnorderedMergeset(e, sp, ps) <=>
                 x \in ps \ {sp} \/ \E q \in ps \ {sp} : x \in e.past[q] /\ ~IsDagAncestorOf(e, x, sp)
    BY DEF UnorderedMergeset
  <2> QED
    BY <1>4, <2>1, <2>2
<1> QED
  BY <1>5

(* Sorting gives the same list.                                            *)
LEMMA MirrorSort ==
    ASSUME NEW d, NEW e, Sound(d), Sound(e), NEW S, Mirrors(d, e, S), NEW M \in SUBSET S
    PROVE  SortBlocks(d, M) = SortBlocks(e, M)
<1> DEFINE s == SortBlocks(d, M)
           t == SortBlocks(e, M)
           n == Cardinality(M)
           U(x) == {y \in M : Lighter(d, y, x)}
           V(x) == {y \in M : Lighter(e, y, x)}
<1>1. S \subseteq Blocks(d) /\ S \subseteq Blocks(e) /\ IsFiniteSet(M)
  BY SoundFacts, FS_Subset DEF Mirrors, Above
<1>2. Weighed(d, M) /\ Weighed(e, M)
  BY <1>1, SoundFacts DEF Weighed
<1>3. /\ s \in Seq(M) /\ Len(s) = n
      /\ \A i \in 1..Len(s) : Cardinality(U(s[i])) = i - 1
  BY <1>1, <1>2, RankedBlocks
<1>4. /\ t \in Seq(M) /\ Len(t) = n
      /\ \A i \in 1..Len(t) : Cardinality(V(t[i])) = i - 1
      /\ \A x, y \in M : Cardinality(V(x)) = Cardinality(V(y)) => x = y
  BY <1>1, <1>2, RankedBlocks
<1>5. \A x \in M : U(x) = V(x)
  BY MirrorLighter
<1> HIDE DEF s, t, n
<1>6. \A i \in 1..n : s[i] \in M /\ t[i] \in M
  BY <1>3, <1>4
<1>7. ASSUME NEW i \in 1..n PROVE s[i] = t[i]
  <2>1. Cardinality(U(s[i])) = i - 1 /\ Cardinality(V(t[i])) = i - 1
    BY <1>3, <1>4
  <2>2. U(s[i]) = V(s[i])
    BY <1>5, <1>6
  <2> HIDE DEF U, V
  <2> QED
    BY <1>4, <1>6, <2>1, <2>2
<1> HIDE DEF U, V
<1>8. s = t
  BY <1>3, <1>4, <1>7
<1> QED
  BY <1>8 DEF s, t

(* The blue sets differ by that of the first block of d, which is below    *)
(* every block of d.                                                       *)
LEMMA MirrorBlueSet ==
    ASSUME NEW d, NEW e, Sound(d), Sound(e), NEW S, Mirrors(d, e, S)
    PROVE  /\ \A b \in S : BlueSetIn(e, b) = BlueSetIn(d, b) \cup BlueSetIn(e, d.genesis)
           /\ \A b \in S : BlueSetIn(d, b) \subseteq S
           /\ BlueSetIn(e, d.genesis) \subseteq e.past[d.genesis]
<1> DEFINE g == d.genesis
           T == {b \in Blocks(d) : b \in S => BlueSetIn(e, b) = BlueSetIn(d, b) \cup BlueSetIn(e, g)}
<1>1. /\ EngineOK(d) /\ BluesOK(d) /\ Antichains(d)
      /\ EngineOK(e) /\ BluesOK(e) /\ Antichains(e)
  BY DEF Sound
<1>2. /\ S \subseteq Blocks(d) /\ S \subseteq Blocks(e) /\ g \in S
      /\ \A b \in S : e.past[b] = d.past[b] \cup e.past[g] /\ d.past[b] \subseteq S
      /\ \A b \in S \ {g} : SameData(d.gd[b], e.gd[b])
  BY DEF Mirrors, Above
<1>3. /\ BlueSetIn(d, g) = {}
      /\ \A b \in Blocks(d) \ {g} :
           BlueSetIn(d, b) = BlueSetIn(d, d.gd[b].selected_parent) \cup d.gd[b].blues
      /\ \A b \in Blocks(d) : BlueSetIn(d, b) \subseteq d.past[b]
  BY <1>1, BluesFacts
<1>4. /\ \A b \in Blocks(e) \ {e.genesis} :
           BlueSetIn(e, b) = BlueSetIn(e, e.gd[b].selected_parent) \cup e.gd[b].blues
      /\ BlueSetIn(e, g) \subseteq e.past[g]
  BY <1>1, <1>2, BluesFacts
<1>5. ASSUME NEW b \in S \ {g} PROVE b \in Blocks(e) \ {e.genesis}
  <2>1. g \in d.past[b]
    BY <1>2, SoundFacts
  <2>2. e.past[b] # {}
    BY <1>2, <2>1
  <2> QED
    BY <1>2, <2>2, SoundFacts
<1>6. g \in T
  BY <1>2, <1>3
<1>7. ASSUME NEW b \in Blocks(d) \ {g}, d.gd[b].selected_parent \in T PROVE b \in T
  <2> SUFFICES ASSUME b \in S PROVE BlueSetIn(e, b) = BlueSetIn(d, b) \cup BlueSetIn(e, g)
    OBVIOUS
  <2> DEFINE sp == d.gd[b].selected_parent
  <2>0. sp \in S
    BY <1>1, <1>2, SelectedClimbs
  <2>1. e.gd[b].selected_parent = sp /\ e.gd[b].blues = d.gd[b].blues
    BY <1>2 DEF SameData
  <2>2. BlueSetIn(e, sp) = BlueSetIn(d, sp) \cup BlueSetIn(e, g)
    BY <1>7, <2>0
  <2>3. BlueSetIn(e, b) = BlueSetIn(e, sp) \cup d.gd[b].blues
    BY <1>4, <1>5, <2>1
  <2>4. BlueSetIn(d, b) = BlueSetIn(d, sp) \cup d.gd[b].blues
    BY <1>3
  <2> HIDE DEF sp
  <2> QED
    BY <2>2, <2>3, <2>4
<1>8. Climbing(d)
  BY <1>1, SelectedClimbs
<1> HIDE DEF T
<1>9. Blocks(d) \subseteq T
  BY <1>6, <1>7, <1>8, ChainInduction
<1>10. \A b \in S : BlueSetIn(d, b) \subseteq S
  BY <1>2, <1>3
<1> QED
  BY <1>2, <1>4, <1>9, <1>10 DEF T

(* So the anticones hold the same blues.                                   *)
LEMMA MirrorAnticone ==
    ASSUME NEW d, NEW e, Sound(d), Sound(e), NEW S, Mirrors(d, e, S),
           NEW x \in S, NEW B \in SUBSET S
    PROVE  AnticoneIn(e, x) \cap (B \cup BlueSetIn(e, d.genesis)) = AnticoneIn(d, x) \cap B
<1> DEFINE g == d.genesis
<1>1. /\ S \subseteq Blocks(d) /\ S \subseteq Blocks(e) /\ S \cap e.past[g] = {}
      /\ \A b \in S : e.past[b] = d.past[b] \cup e.past[g]
  BY DEF Mirrors, Above
<1>2. BlueSetIn(e, g) \subseteq e.past[g]
  BY MirrorBlueSet
<1> HIDE DEF g
<1>3. ASSUME NEW y \in e.past[g] PROVE y \notin AnticoneIn(e, x)
  BY <1>1 DEF AnticoneIn, IsDagAncestorOf
<1>4. ASSUME NEW y \in B PROVE y \in AnticoneIn(e, x) <=> y \in AnticoneIn(d, x)
  <2>1. y \in S /\ y \in Blocks(d) /\ y \in Blocks(e) /\ y \notin e.past[g] /\ x \notin e.past[g]
    BY <1>1
  <2>2. y \in e.past[x] <=> y \in d.past[x]
    BY <1>1, <2>1
  <2>3. x \in e.past[y] <=> x \in d.past[y]
    BY <1>1, <2>1
  <2> QED
    BY <2>1, <2>2, <2>3 DEF AnticoneIn, IsDagAncestorOf
<1>5. AnticoneIn(e, x) \cap (B \cup BlueSetIn(e, g)) = AnticoneIn(d, x) \cap B
  BY <1>2, <1>3, <1>4
<1> QED
  BY <1>5 DEF g

(* What add_blue does to the blues.                                        *)
LEMMA ColoredBlues ==
    ASSUME NEW e, NEW d, NEW sp, NEW bl, NEW sz,
           d = [selected_parent |-> sp, blues |-> bl, sizes |-> sz], NEW cand
    PROVE  AddBlue(e, d, cand).blues = bl \cup {cand}
<1> DEFINE peers == CandidatePeers(e, d, cand)
           size == CandidateAnticoneSize(e, d, cand)
           s2 == [x \in DOMAIN sz \cup peers \cup {cand} |->
                         IF x \in peers THEN BlueAnticoneSize(e, x, d) + 1
                         ELSE IF x = cand THEN size ELSE sz[x]]
           d2 == AddBlue(e, d, cand)
<1>1. d2 = [d EXCEPT !.blues = bl \cup {cand}, !.sizes = s2]
  BY DEF AddBlue
<1> HIDE DEF s2, d2
<1>2. d2.blues = bl \cup {cand}
  BY <1>1
<1> QED
  BY <1>2 DEF d2

(* The two colourings p and q have the same blues, and their sizes are     *)
(* exact.                                                                  *)
BothColored(d, e, p, q, sp, P) ==
    /\ Colored(d, p, sp, P) /\ Colored(e, q, sp, P)
    /\ p.blues = q.blues

(* A candidate becomes blue in both or in neither.                         *)
LEMMA MirrorColor ==
    ASSUME NEW d, NEW e, Sound(d), Sound(e), NEW S, Mirrors(d, e, S),
           NEW p, NEW q, NEW sp, NEW P, BothColored(d, e, p, q, sp, P),
           NEW cand, Candidate(d, sp, P, cand), Candidate(e, sp, P, cand),
           {cand, sp} \cup P \subseteq S
    PROVE  Color(d, p, cand).blues = Color(e, q, cand).blues
<1> DEFINE g == d.genesis
           bl == p.blues
           B == BlueSetIn(d, sp) \cup bl
           A == AnticoneIn(d, cand) \cap B
<1>1. /\ EngineOK(d) /\ BluesOK(d) /\ Antichains(d)
      /\ EngineOK(e) /\ BluesOK(e) /\ Antichains(e)
      /\ Colored(d, p, sp, P) /\ Colored(e, q, sp, P)
  BY DEF Sound, BothColored
<1>2. q.blues = bl
  BY DEF BothColored
<1>3. /\ p.selected_parent = sp /\ q.selected_parent = sp
      /\ bl \subseteq P \cup {sp}
      /\ p = [selected_parent |-> sp, blues |-> bl, sizes |-> p.sizes]
      /\ q = [selected_parent |-> sp, blues |-> bl, sizes |-> q.sizes]
  BY <1>1, <1>2 DEF Colored
<1>4. cand \in S /\ sp \in S /\ P \subseteq S /\ S \subseteq Blocks(d)
  BY DEF Mirrors, Above
<1>5. B \in SUBSET S
  BY <1>3, <1>4, MirrorBlueSet
<1>6. BlueSetIn(e, sp) \cup bl = B \cup BlueSetIn(e, g)
  BY <1>4, MirrorBlueSet
<1> HIDE DEF B, bl, g
<1>7. CandidatePeers(d, p, cand) = A /\ CandidateAnticoneSize(d, p, cand) = Cardinality(A)
  <2>1. /\ CandidatePeers(d, p, cand) = AnticoneIn(d, cand) \cap (BlueSetIn(d, sp) \cup p.blues)
        /\ CandidateAnticoneSize(d, p, cand)
             = Cardinality(AnticoneIn(d, cand) \cap (BlueSetIn(d, sp) \cup p.blues))
    BY <1>1, <1>3, PeersAreAnticone DEF bl
  <2> QED
    BY <2>1 DEF B, bl
<1>8. CandidatePeers(e, q, cand) = A /\ CandidateAnticoneSize(e, q, cand) = Cardinality(A)
  <2>1. /\ CandidatePeers(e, q, cand) = AnticoneIn(e, cand) \cap (BlueSetIn(e, sp) \cup q.blues)
        /\ CandidateAnticoneSize(e, q, cand)
             = Cardinality(AnticoneIn(e, cand) \cap (BlueSetIn(e, sp) \cup q.blues))
    BY <1>1, <1>2, <1>3, PeersAreAnticone
  <2>2. AnticoneIn(e, cand) \cap (B \cup BlueSetIn(e, g)) = A
    BY <1>4, <1>5, MirrorAnticone DEF g
  <2>3. AnticoneIn(e, cand) \cap (BlueSetIn(e, sp) \cup q.blues) = A
    BY <1>2, <1>6, <2>2
  <2> HIDE DEF A
  <2> QED
    BY <2>1, <2>3
<1>9. ASSUME NEW x \in A PROVE BlueAnticoneSize(d, x, p) = BlueAnticoneSize(e, x, q)
  <2>1. x \in B /\ x \in S
    BY <1>5
  <2>2. BlueAnticoneSize(d, x, p) = Cardinality(AnticoneIn(d, x) \cap B)
    <3>1. Reached(d, sp, p) = B
      BY DEF Reached, B, bl
    <3> QED
      BY <1>1, <2>1, <3>1 DEF Colored, BlueAnticone
  <2>3. BlueAnticoneSize(e, x, q) = Cardinality(AnticoneIn(e, x) \cap (B \cup BlueSetIn(e, g)))
    <3>1. Reached(e, sp, q) = B \cup BlueSetIn(e, g)
      BY <1>2, <1>6 DEF Reached
    <3> QED
      BY <1>1, <2>1, <3>1 DEF Colored, BlueAnticone
  <2>4. AnticoneIn(e, x) \cap (B \cup BlueSetIn(e, g)) = AnticoneIn(d, x) \cap B
    BY <1>5, <2>1, MirrorAnticone DEF g
  <2> QED
    BY <2>2, <2>3, <2>4
<1> HIDE DEF A
<1>10. CheckBlueCandidate(d, p, cand) <=> CheckBlueCandidate(e, q, cand)
  BY <1>2, <1>7, <1>8, <1>9 DEF CheckBlueCandidate, bl
<1>11. AddBlue(d, p, cand).blues = bl \cup {cand}
  BY <1>3, ColoredBlues DEF bl
<1>12. AddBlue(e, q, cand).blues = bl \cup {cand}
  BY <1>2, <1>3, ColoredBlues
<1> QED
  BY <1>2, <1>10, <1>11, <1>12 DEF Color, bl

(* The mergeset is coloured alike, step by step.                           *)
LEMMA MirrorColoring ==
    ASSUME NEW d, NEW e, Sound(d), Sound(e), NEW S, Mirrors(d, e, S),
           NEW sp \in S, NEW M \in SUBSET S, sp \notin M,
           M \cap d.past[sp] = {}
    PROVE  ColorMergeset(d, sp, M).blues = ColorMergeset(e, sp, M).blues
<1> DEFINE s == SortBlocks(d, M)
           n == Len(s)
           first(m) == {s[i] : i \in 1..m}
           base == NewWithSelectedParent(sp)
<1>1. /\ EngineOK(d) /\ BluesOK(d) /\ Antichains(d) /\ Clustered(d)
      /\ EngineOK(e) /\ BluesOK(e) /\ Antichains(e) /\ Clustered(e)
  BY DEF Sound
<1>2. /\ sp \in Blocks(e) /\ M \in SUBSET Blocks(e) /\ M \cap e.past[sp] = {}
      /\ sp \in Blocks(d) /\ M \in SUBSET Blocks(d)
  BY DEF Mirrors, Above
<1>3. SortBlocks(e, M) = s
  BY MirrorSort
<1>4. /\ n \in Nat /\ DOMAIN s = 1..n /\ {s[i] : i \in 1..n} = M
      /\ \E g : /\ Coloring!Runs(d, base, s, n, g)
               /\ ColorMergeset(d, sp, M) = g[n]
               /\ \A m \in 0..n : RunReaches(d, sp, s, g, m)
  BY <1>1, <1>2, MergesetRun
<1>5. \E h : /\ Coloring!Runs(e, base, s, n, h)
            /\ ColorMergeset(e, sp, M) = h[n]
            /\ \A m \in 0..n : RunReaches(e, sp, s, h, m)
  <2> DEFINE t == SortBlocks(e, M)
  <2>1. \E h : /\ Coloring!Runs(e, base, t, Len(t), h)
               /\ ColorMergeset(e, sp, M) = h[Len(t)]
               /\ \A m \in 0..Len(t) : RunReaches(e, sp, t, h, m)
    BY <1>1, <1>2, MergesetRun
  <2> QED
    BY <1>3, <2>1
<1> HIDE DEF s, n, base
<1>6. PICK g : /\ Coloring!Runs(d, base, s, n, g)
               /\ ColorMergeset(d, sp, M) = g[n]
               /\ \A m \in 0..n : RunReaches(d, sp, s, g, m)
  BY <1>4
<1>7. PICK h : /\ Coloring!Runs(e, base, s, n, h)
               /\ ColorMergeset(e, sp, M) = h[n]
               /\ \A m \in 0..n : RunReaches(e, sp, s, h, m)
  BY <1>5
<1> DEFINE Z == {m \in Nat : m <= n => g[m].blues = h[m].blues}
<1>8. 0 \in Z
  BY <1>6, <1>7 DEF Coloring!Runs
<1>9. ASSUME NEW m \in Nat, m \in Z PROVE m + 1 \in Z
  <2> SUFFICES ASSUME m + 1 <= n PROVE g[m + 1].blues = h[m + 1].blues
    OBVIOUS
  <2>1. m + 1 \in 1..n /\ (m + 1) - 1 = m /\ m \in 0..n /\ m <= n
    BY <1>4
  <2>2. g[m].blues = h[m].blues
    BY <1>9, <2>1
  <2>3. g[m + 1] = Color(d, g[m], s[m + 1]) /\ h[m + 1] = Color(e, h[m], s[m + 1])
    BY <1>6, <1>7, <2>1 DEF Coloring!Runs
  <2>4. RunReaches(d, sp, s, g, m) /\ RunReaches(e, sp, s, h, m)
    BY <1>6, <1>7, <2>1
  <2> DEFINE P == {s[i] : i \in 1..m}
             cand == s[m + 1]
             x == g[m]
             y == h[m]
  <2>5. /\ Colored(d, x, sp, P) /\ Colored(e, y, sp, P)
        /\ Candidate(d, sp, P, cand) /\ Candidate(e, sp, P, cand)
    BY <2>4 DEF RunReaches, n
  <2>6. x.blues = y.blues
    BY <2>2
  <2>10. {cand, sp} \cup P \subseteq S
    <3>1. \A i \in 1..m : i \in 1..n
      BY <1>4, <2>1
    <3> QED
      BY <1>4, <2>1, <3>1
  <2>7. g[m + 1] = Color(d, x, cand) /\ h[m + 1] = Color(e, y, cand)
    BY <2>3
  <2> HIDE DEF P, cand, x, y
  <2>8. BothColored(d, e, x, y, sp, P)
    BY <2>5, <2>6 DEF BothColored
  <2>9. Color(d, x, cand).blues = Color(e, y, cand).blues
    BY <2>5, <2>8, <2>10, MirrorColor
  <2> QED
    BY <2>7, <2>9
<1> HIDE DEF Z
<1>10. \A m \in Nat : m \in Z
  BY <1>8, <1>9, Sizes!NatInSet
<1>11. g[n].blues = h[n].blues
  BY <1>4, <1>10 DEF Z
<1> QED
  BY <1>6, <1>7, <1>11

(* A new block gets the same data, the work counted from the first block.  *)
LEMMA MirrorData ==
    ASSUME NEW d, NEW e, Sound(d), Sound(e), NEW S, Mirrors(d, e, S),
           NEW ps \in SUBSET S, ps # {}, IsAntichain(d, ps)
    PROVE  /\ SameData(GhostdagData(d, ps), GhostdagData(e, ps))
           /\ Offset(d, e, GhostdagData(d, ps).blue_work, GhostdagData(e, ps).blue_work)
<1> DEFINE sp == FindSelectedParent(d, ps)
           M  == UnorderedMergeset(d, sp, ps)
           c  == ColorMergeset(d, sp, M).blues
           bl == {sp} \cup (M \cap c)
           g  == d.genesis
<1>1. /\ S \subseteq Blocks(d) /\ S \subseteq Blocks(e) /\ g \in S
      /\ IsFiniteSet(ps) /\ IsFiniteSet(Blocks(d))
      /\ \A b \in S : d.past[b] \subseteq S
  BY SoundFacts, FS_Subset DEF Mirrors, Above
<1>2. sp \in ps /\ FindSelectedParent(e, ps) = sp
  <2>1. Weighed(d, ps)
    BY <1>1, SoundFacts DEF Weighed
  <2> QED
    BY <1>1, <2>1, SelectedParent, MirrorParent
<1> HIDE DEF sp
<1>3. UnorderedMergeset(e, sp, ps) = M
  BY <1>2, MirrorMergeset
<1>4. /\ M \in SUBSET S /\ sp \in S /\ sp \notin M /\ M \cap d.past[sp] = {}
  <2>1. \A b \in S : d.past[b] \subseteq S
    BY <1>1
  <2>2. \A x, y \in ps : x \notin d.past[y]
    BY DEF IsAntichain
  <2> QED
    BY <1>2, <2>1, <2>2 DEF UnorderedMergeset, IsDagAncestorOf
<1> HIDE DEF M
<1>5. ColorMergeset(e, sp, M).blues = c
  BY <1>4, MirrorColoring
<1> HIDE DEF c
<1>6. /\ GhostdagData(d, ps).selected_parent = sp
      /\ GhostdagData(d, ps).blues = bl
      /\ GhostdagData(d, ps).reds = M \ bl
      /\ GhostdagData(d, ps).blue_work = d.gd[sp].blue_work + Cardinality(bl)
  BY DEF GhostdagData, BlueWork, sp, M, c
<1>7. /\ GhostdagData(e, ps).selected_parent = sp
      /\ GhostdagData(e, ps).blues = bl
      /\ GhostdagData(e, ps).reds = M \ bl
      /\ GhostdagData(e, ps).blue_work = e.gd[sp].blue_work + Cardinality(bl)
  BY <1>2, <1>3, <1>5 DEF GhostdagData, BlueWork
<1>8. Cardinality(bl) \in Nat
  <2>1. bl \in SUBSET Blocks(d)
    BY <1>1, <1>4
  <2> HIDE DEF bl
  <2> QED
    BY <1>1, <2>1, FS_Subset, FS_CardinalityType
<1> HIDE DEF bl
<1>9. e.gd[sp].blue_work + d.gd[g].blue_work = d.gd[sp].blue_work + e.gd[g].blue_work
  BY <1>4 DEF Mirrors, Offset
<1>10. /\ d.gd[sp].blue_work \in Nat /\ d.gd[g].blue_work \in Nat
       /\ e.gd[sp].blue_work \in Nat /\ e.gd[g].blue_work \in Nat
  BY <1>1, <1>4, SoundFacts DEF Weighed
<1> DEFINE w == Cardinality(bl)
           v == GhostdagData(d, ps).blue_work
           u == GhostdagData(e, ps).blue_work
<1>11. v = d.gd[sp].blue_work + w /\ u = e.gd[sp].blue_work + w /\ w \in Nat
  BY <1>6, <1>7, <1>8
<1> HIDE DEF w, v, u
<1>12. u + d.gd[g].blue_work = v + e.gd[g].blue_work
  BY <1>9, <1>10, <1>11
<1>13. Offset(d, e, v, u)
  BY <1>12 DEF Offset, g
<1> QED
  BY <1>6, <1>7, <1>13 DEF SameData, v, u

----------------------------------------------------------------------------
(* Data that follows from the parents.                                     *)

(* The data of every block is what its parents give in the whole engine.   *)
FromDag(e) ==
    \A b \in Blocks(e) \ {e.genesis} :
        /\ SameData(e.gd[b], GhostdagData(e, e.parents[b]))
        /\ e.gd[b].blue_work = GhostdagData(e, e.parents[b]).blue_work

(* An engine with a block more mirrors the one before.                     *)
LEMMA GrownMirrors ==
    ASSUME NEW e, Sound(e), NEW e2, Sound(e2), e2.genesis = e.genesis,
           Blocks(e) \subseteq Blocks(e2),
           \A x \in Blocks(e) : e2.gd[x] = e.gd[x] /\ e2.past[x] = e.past[x]
    PROVE  Mirrors(e, e2, Blocks(e))
<1>1. e2.past[e.genesis] = {}
  BY SoundFacts
<1>2. Above(e, e2, Blocks(e))
  BY <1>1, SoundFacts DEF Above
<1>3. \A x \in Blocks(e) : Offset(e, e2, e.gd[x].blue_work, e2.gd[x].blue_work)
  BY SoundFacts DEF Offset
<1> QED
  BY <1>2, <1>3 DEF Mirrors, SameData

(* So a new block does not change what the parents of the others give.     *)
LEMMA GrownFromDag ==
    ASSUME NEW e, Sound(e), FromDag(e), NEW e2, Sound(e2), NEW b, NEW ps \in SUBSET Blocks(e),
           ps # {}, IsAntichain(e, ps), Added(e, b, ps, e2)
    PROVE  FromDag(e2)
<1>1. /\ e2.genesis = e.genesis /\ Blocks(e2) = Blocks(e) \cup {b} /\ b \notin Blocks(e)
      /\ \A x \in Blocks(e) : /\ e2.gd[x] = e.gd[x] /\ e2.past[x] = e.past[x]
                              /\ e2.parents[x] = e.parents[x]
      /\ e2.gd[b] = GhostdagData(e, ps) /\ e2.parents[b] = ps
  BY DEF Added
<1>2. Mirrors(e, e2, Blocks(e))
  BY <1>1, GrownMirrors
<1>3. e.genesis \in Blocks(e) /\ \A x \in Blocks(e) : e.past[x] \subseteq Blocks(e)
  BY SoundFacts
<1>4. ASSUME NEW qs \in SUBSET Blocks(e), qs # {}, IsAntichain(e, qs)
      PROVE  /\ SameData(GhostdagData(e, qs), GhostdagData(e2, qs))
             /\ GhostdagData(e, qs).blue_work = GhostdagData(e2, qs).blue_work
  <2> DEFINE v == GhostdagData(e, qs)
             u == GhostdagData(e2, qs)
  <2>1. SameData(v, u) /\ Offset(e, e2, v.blue_work, u.blue_work)
    BY <1>2, <1>4, MirrorData
  <2>2. v.blue_work \in Nat /\ u.blue_work \in Nat
    <3>1. qs \subseteq Blocks(e2)
      BY <1>1
    <3>2. v.blue_work \in Nat
      BY <1>4, SoundFacts, DataFacts
    <3>3. u.blue_work \in Nat
      BY <1>4, <3>1, SoundFacts, DataFacts
    <3> QED
      BY <3>2, <3>3
  <2>3. e.gd[e.genesis].blue_work \in Nat /\ e2.gd[e.genesis] = e.gd[e.genesis]
    BY <1>1, <1>3, SoundFacts DEF Weighed
  <2> HIDE DEF v, u
  <2>4. v.blue_work = u.blue_work
    BY <2>1, <2>2, <2>3 DEF Offset
  <2> QED
    BY <2>1, <2>4 DEF v, u
<1>5. ASSUME NEW x \in Blocks(e) \ {e.genesis}
      PROVE  /\ SameData(e2.gd[x], GhostdagData(e2, e2.parents[x]))
             /\ e2.gd[x].blue_work = GhostdagData(e2, e2.parents[x]).blue_work
  <2> DEFINE qs == e.parents[x]
  <2>1. qs \subseteq e.past[x] /\ IsAntichain(e, qs) /\ e.gd[x].selected_parent \in qs
    BY DEF Sound, EngineOK, TypesOK, Ancestral, Antichains
  <2>2. qs \in SUBSET Blocks(e) /\ qs # {}
    BY <1>3, <2>1
  <2>3. SameData(e.gd[x], GhostdagData(e, qs)) /\ e.gd[x].blue_work = GhostdagData(e, qs).blue_work
    BY DEF FromDag
  <2>4. e2.parents[x] = qs /\ e2.gd[x] = e.gd[x]
    BY <1>1
  <2> HIDE DEF qs
  <2>5. /\ SameData(GhostdagData(e, qs), GhostdagData(e2, qs))
        /\ GhostdagData(e, qs).blue_work = GhostdagData(e2, qs).blue_work
    BY <1>4, <2>1, <2>2
  <2> QED
    BY <2>3, <2>4, <2>5 DEF SameData
<1>6. /\ SameData(e2.gd[b], GhostdagData(e2, e2.parents[b]))
      /\ e2.gd[b].blue_work = GhostdagData(e2, e2.parents[b]).blue_work
  BY <1>1, <1>4
<1> QED
  BY <1>1, <1>5, <1>6 DEF FromDag

(* Two engines with the blocks S and the same parents above the first      *)
(* block of d have the same data there, by induction on the work.          *)
LEMMA SameDagMirrors ==
    ASSUME NEW d, NEW e, Sound(d), Sound(e), FromDag(d), FromDag(e),
           NEW S, Above(d, e, S),
           \A b \in S \ {d.genesis} : e.parents[b] = d.parents[b]
    PROVE  Mirrors(d, e, S)
<1> DEFINE g == d.genesis
           w(b) == d.gd[b].blue_work
           low(n) == {g} \cup {b \in S : w(b) < n}
           T == {n \in Nat : Mirrors(d, e, low(n))}
<1>1. /\ S \subseteq Blocks(d) /\ S \subseteq Blocks(e) /\ g \in S
      /\ S \cap e.past[g] = {} /\ d.past[g] = {}
      /\ \A b \in S : d.past[b] \subseteq S /\ e.past[b] = d.past[b] \cup e.past[g]
  BY SoundFacts DEF Above
<1>2. \A b \in Blocks(d) : w(b) \in Nat /\ \A a \in d.past[b] : w(a) < w(b)
  BY SoundFacts DEF Weighed, Sound, EngineOK, Climbs
<1>3. \A b \in S \ {g} : b # e.genesis /\ g \in d.past[b]
  BY <1>1, SoundFacts
<1>4. ASSUME NEW n \in Nat PROVE Above(d, e, low(n))
  <2>1. low(n) \subseteq S /\ g \in low(n)
    BY <1>1
  <2>2. ASSUME NEW b \in low(n), NEW a \in d.past[b] PROVE a \in low(n)
    <3>1. a \in S /\ b \in S /\ b # g /\ w(b) < n
      BY <1>1, <2>1, <2>2
    <3>2. w(a) \in Nat /\ w(b) \in Nat /\ w(a) < w(b)
      BY <1>1, <1>2, <2>2, <3>1
    <3> HIDE DEF w
    <3>3. w(a) < n
      BY <3>1, <3>2
    <3> QED
      BY <3>1, <3>3
  <2> HIDE DEF low
  <2> QED
    BY <1>1, <2>1, <2>2 DEF Above
<1>5. 0 \in T
  <2>1. low(0) = {g}
    BY <1>1, <1>2
  <2>2. Above(d, e, {g})
    BY <1>4, <2>1
  <2>3. Offset(d, e, w(g), e.gd[g].blue_work)
    <3>1. w(g) \in Nat /\ e.gd[g].blue_work \in Nat
      BY <1>1, SoundFacts DEF Weighed
    <3> QED
      BY <3>1 DEF Offset
  <2> QED
    BY <2>1, <2>2, <2>3 DEF Mirrors
<1>6. ASSUME NEW n \in Nat, n \in T PROVE n + 1 \in T
  <2>1. Mirrors(d, e, low(n)) /\ Above(d, e, low(n + 1))
    BY <1>4, <1>6
  <2>2. ASSUME NEW b \in low(n + 1) \ {g}
        PROVE  SameData(d.gd[b], e.gd[b]) /\ Offset(d, e, w(b), e.gd[b].blue_work)
    <3> DEFINE ps == d.parents[b]
    <3>1. b \in S /\ b \in Blocks(d) /\ b \in Blocks(e) /\ w(b) < n + 1 /\ b # e.genesis
      BY <1>1, <1>3
    <3>2. /\ ps \subseteq d.past[b] /\ IsAntichain(d, ps) /\ d.gd[b].selected_parent \in ps
          /\ e.parents[b] = ps
      BY <2>2, <3>1 DEF Sound, EngineOK, TypesOK, Ancestral, Antichains
    <3>3. ps \subseteq low(n)
      <4>1. ASSUME NEW a \in ps PROVE a \in S /\ w(a) < n
        <5>1. a \in S /\ w(a) \in Nat /\ w(b) \in Nat /\ w(a) < w(b)
          BY <1>1, <1>2, <3>1, <3>2
        <5> HIDE DEF w
        <5> QED
          BY <3>1, <5>1
      <4> QED
        BY <4>1
    <3>4. /\ SameData(d.gd[b], GhostdagData(d, ps)) /\ w(b) = GhostdagData(d, ps).blue_work
          /\ SameData(e.gd[b], GhostdagData(e, ps))
          /\ e.gd[b].blue_work = GhostdagData(e, ps).blue_work
      BY <2>2, <3>1, <3>2 DEF FromDag
    <3> HIDE DEF ps, low, w
    <3>5. /\ SameData(GhostdagData(d, ps), GhostdagData(e, ps))
          /\ Offset(d, e, GhostdagData(d, ps).blue_work, GhostdagData(e, ps).blue_work)
      <4>1. ps # {}
        BY <3>2
      <4> QED
        BY <2>1, <3>2, <3>3, <4>1, MirrorData
    <3> QED
      BY <3>4, <3>5 DEF SameData
  <2>3. Offset(d, e, w(g), e.gd[g].blue_work)
    <3>1. g \in low(n)
      OBVIOUS
    <3> QED
      BY <2>1, <3>1 DEF Mirrors
  <2> HIDE DEF low
  <2>4. Mirrors(d, e, low(n + 1))
    BY <2>1, <2>2, <2>3 DEF Mirrors
  <2> QED
    BY <2>4
<1> HIDE DEF T
<1>7. \A n \in Nat : n \in T
  BY <1>5, <1>6, Sizes!NatInSet
<1>8. ASSUME NEW b \in S
      PROVE  /\ b # g => SameData(d.gd[b], e.gd[b])
             /\ Offset(d, e, w(b), e.gd[b].blue_work)
  <2>1. w(b) \in Nat
    BY <1>1, <1>2
  <2> DEFINE n == w(b) + 1
  <2>2. n \in Nat /\ w(b) < n
    <3> HIDE DEF w
    <3> QED
      BY <2>1
  <2>3. b \in low(n) /\ Mirrors(d, e, low(n))
    BY <1>7, <2>2 DEF T
  <2> HIDE DEF low, n
  <2> QED
    BY <2>3 DEF Mirrors
<1> QED
  BY <1>8 DEF Mirrors

(* Engines that start at the same block have the same selected chain below *)
(* a block of both.                                                        *)
LEMMA MirrorChain ==
    ASSUME NEW d, NEW e, Sound(d), Sound(e), NEW S, Mirrors(d, e, S),
           d.genesis = e.genesis, NEW b \in S
    PROVE  SelectedChain(d, b) = SelectedChain(e, b)
<1> DEFINE g == d.genesis
           T == {x \in Blocks(d) : x \in S => SelectedChain(d, x) = SelectedChain(e, x)}
<1>1. /\ S \subseteq Blocks(d) /\ S \subseteq Blocks(e)
      /\ \A x \in S : d.past[x] \subseteq S
      /\ \A x \in S \ {g} : d.gd[x].selected_parent = e.gd[x].selected_parent
  BY DEF Mirrors, Above, SameData
<1>2. Climbing(d) /\ Climbing(e)
  BY SelectedClimbs DEF Sound
<1>3. g \in Blocks(d) => g \in T
  BY <1>1, <1>2, ChainEquation
<1>4. ASSUME NEW x \in Blocks(d) \ {g}, d.gd[x].selected_parent \in T PROVE x \in T
  <2> SUFFICES ASSUME x \in S PROVE SelectedChain(d, x) = SelectedChain(e, x)
    OBVIOUS
  <2> DEFINE sp == d.gd[x].selected_parent
  <2>1. sp \in S
    BY <1>1, SelectedClimbs DEF Sound
  <2>2. x \in Blocks(e) /\ x # e.genesis /\ e.gd[x].selected_parent = sp
    BY <1>1
  <2>3. SelectedChain(d, sp) = SelectedChain(e, sp)
    BY <1>4, <2>1
  <2>4. SelectedChain(d, x) = Append(SelectedChain(d, sp), x)
    BY <1>2, ChainEquation
  <2>5. SelectedChain(e, x) = Append(SelectedChain(e, sp), x)
    BY <1>2, <2>2, ChainEquation
  <2> QED
    BY <2>3, <2>4, <2>5
<1> HIDE DEF T
<1>5. Blocks(d) \subseteq T
  BY <1>2, <1>3, <1>4, ChainInduction
<1> QED
  BY <1>1, <1>5 DEF T

(* Joining sequences is associative.                                       *)
LEMMA JoinJoined ==
    ASSUME NEW S, NEW u \in Seq(S), NEW s \in Seq(S), NEW t \in Seq(S)
    PROVE  (u \o s) \o t = u \o (s \o t)
OBVIOUS

(* The order of e up to a block of S is u and then that of d.              *)
Continues(d, e, S, u) == \A b \in S : OrderUpTo(e, b) = u \o OrderUpTo(d, b)

(* There is such a u, what e has before the first block of d.              *)
LEMMA MirrorOrder ==
    ASSUME NEW d, NEW e, Sound(d), Sound(e), NEW S, Mirrors(d, e, S)
    PROVE  \E u \in Seq(Hash) : Continues(d, e, S, u)
<1> DEFINE g == d.genesis
           O(x) == OrderUpTo(d, x)
           Q(x) == OrderUpTo(e, x)
<1>1. /\ EngineOK(d) /\ BluesOK(d) /\ Antichains(d)
      /\ EngineOK(e) /\ BluesOK(e) /\ Antichains(e)
  BY DEF Sound
<1>2. /\ S \subseteq Blocks(d) /\ S \subseteq Blocks(e) /\ g \in S
      /\ \A b \in S : d.past[b] \subseteq S /\ e.past[b] = d.past[b] \cup e.past[g]
      /\ \A b \in S \ {g} : SameData(d.gd[b], e.gd[b])
  BY DEF Mirrors, Above
<1>3. Climbing(d) /\ Climbing(e)
  BY <1>1, SelectedClimbs
<1>4. /\ \A b \in S : O(b) \in Seq(Hash)
      /\ \A b \in Blocks(e) : Q(b) \in Seq(Hash)
  <2>1. ASSUME NEW f, Sound(f), NEW b \in Blocks(f) PROVE OrderUpTo(f, b) \in Seq(Hash)
    <3>1. Lists(OrderUpTo(f, b), f.past[b] \cup {b}, f.past)
      BY <2>1, OrderLists DEF Sound
    <3>2. f.past[b] \cup {b} \subseteq Hash
      BY <2>1, SoundFacts
    <3>3. OrderUpTo(f, b) \in Seq(f.past[b] \cup {b})
      BY <3>1 DEF Lists
    <3> QED
      BY <3>2, <3>3
  <2> QED
    BY <1>2, <2>1
<1>5. O(g) = <<g>>
  BY <1>2, <1>3, OrderEquation
<1>6. g \in Hash /\ \A b \in S : b \in Hash
  BY <1>2, SoundFacts
<1>7. \E u \in Seq(Hash) : Q(g) = Append(u, g)
  <2>1. CASE g = e.genesis
    <3>1. Q(g) = <<g>> /\ Append(<<>>, g) = <<g>> /\ <<>> \in Seq(Hash)
      BY <1>2, <1>3, <2>1, OrderEquation
    <3> QED
      BY <3>1
  <2>2. CASE g # e.genesis
    <3> DEFINE sp == e.gd[g].selected_parent
               m == SortBlocks(e, Mergeset(e, g))
    <3>1. Q(g) = Q(sp) \o Append(m, g)
      BY <1>2, <1>3, <2>2, OrderEquation
    <3>2. sp \in Blocks(e)
      BY <1>2, <1>3, <2>2 DEF Climbing
    <3>3. Q(sp) \in Seq(Hash)
      BY <1>4, <3>2
    <3>4. Mergeset(e, g) \subseteq Blocks(e)
      BY <1>1, <1>2, <2>2, SoundFacts, MergesetIs DEF Antichains
    <3>5. m \in Seq(Hash)
      <4>1. IsFiniteSet(Mergeset(e, g)) /\ Weighed(e, Mergeset(e, g)) /\ Mergeset(e, g) \subseteq Hash
        BY <3>4, SoundFacts, FS_Subset DEF Weighed
      <4>2. m \in Seq(Mergeset(e, g))
        BY <4>1, SortedBlocks
      <4> QED
        BY <4>1, <4>2
    <3> HIDE DEF sp, m
    <3>6. Q(g) = Append(Q(sp) \o m, g) /\ Q(sp) \o m \in Seq(Hash)
      BY <1>6, <3>1, <3>3, <3>5
    <3> QED
      BY <3>6
  <2> QED
    BY <2>1, <2>2
<1>8. PICK u \in Seq(Hash) : Q(g) = Append(u, g)
  BY <1>7
<1> DEFINE T == {b \in Blocks(d) : b \in S => Q(b) = u \o O(b)}
<1>9. g \in T
  <2>1. Append(u, g) = u \o <<g>>
    BY <1>6, <1>8
  <2>2. Q(g) = u \o O(g)
    BY <1>5, <1>8, <2>1
  <2> QED
    BY <1>2, <2>2
<1>10. ASSUME NEW b \in Blocks(d) \ {g}, d.gd[b].selected_parent \in T PROVE b \in T
  <2> SUFFICES ASSUME b \in S PROVE Q(b) = u \o O(b)
    OBVIOUS
  <2> DEFINE sp == d.gd[b].selected_parent
             M  == Mergeset(d, b)
             m  == SortBlocks(d, M)
  <2>1. sp \in S
    BY <1>1, <1>2, SelectedClimbs
  <2>2. b # e.genesis /\ b \in Blocks(e)
    <3>1. g \in d.past[b]
      BY SoundFacts
    <3> QED
      BY <1>2, <3>1, SoundFacts
  <2>3. e.gd[b].selected_parent = sp /\ Mergeset(e, b) = M
    BY <1>2 DEF SameData, Mergeset
  <2>4. M \in SUBSET S
    <3>1. M \subseteq d.past[b]
      BY <1>1, MergesetIs DEF Antichains
    <3> QED
      BY <1>2, <3>1
  <2> HIDE DEF M
  <2>5. SortBlocks(e, M) = m
    BY <2>4, MirrorSort
  <2>6. m \in Seq(Hash)
    <3>1. M \subseteq Blocks(d)
      BY <1>2, <2>4
    <3>2. IsFiniteSet(M) /\ Weighed(d, M) /\ M \subseteq Hash
      BY <3>1, SoundFacts, FS_Subset DEF Weighed
    <3>3. m \in Seq(M)
      BY <3>2, SortedBlocks
    <3> QED
      BY <3>2, <3>3
  <2>7. O(b) = O(sp) \o Append(m, b)
    BY <1>3, OrderEquation DEF M
  <2>8. Q(b) = Q(sp) \o Append(m, b)
    BY <1>3, <2>2, <2>3, <2>5, OrderEquation
  <2>9. Q(sp) = u \o O(sp) /\ O(sp) \in Seq(Hash)
    BY <1>4, <1>10, <2>1
  <2> HIDE DEF sp, m
  <2>10. Append(m, b) \in Seq(Hash)
    BY <1>6, <2>6
  <2> DEFINE o == O(sp)
             k == Append(m, b)
  <2>11. o \in Seq(Hash) /\ k \in Seq(Hash) /\ O(b) = o \o k /\ Q(b) = (u \o o) \o k
    BY <2>7, <2>8, <2>9, <2>10
  <2> HIDE DEF o, k
  <2>12. (u \o o) \o k = u \o (o \o k)
    BY <2>11, JoinJoined
  <2> QED
    BY <2>11, <2>12
<1> HIDE DEF T
<1>11. Blocks(d) \subseteq T
  BY <1>2, <1>3, <1>9, <1>10, ChainInduction
<1>12. Continues(d, e, S, u)
  BY <1>2, <1>11 DEF T, Continues
<1> QED
  BY <1>8, <1>12

(* What comes after something is a suffix of the whole.                    *)
LEMMA SuffixOfJoined ==
    ASSUME NEW S, NEW u \in Seq(S), NEW s \in Seq(S)
    PROVE  IsSuffix(s, u \o s)
<1> DEFINE t == u \o s
           m == Len(s)
           n == Len(t)
           a == Reverse(s)
           b == Reverse(t)
<1>1. /\ m \in Nat /\ n \in Nat /\ n = Len(u) + m /\ Len(u) \in Nat
      /\ \A i \in 1..m : t[Len(u) + i] = s[i]
  OBVIOUS
<1>2. /\ Len(a) = m /\ Len(b) = n /\ DOMAIN a = 1..m /\ DOMAIN b = 1..n
      /\ \A i \in 1..m : a[i] = s[(m - i) + 1]
      /\ \A i \in 1..n : b[i] = t[(n - i) + 1]
  BY <1>1 DEF Reverse
<1>3. \A i \in 1..m : a[i] = b[i]
  <2> SUFFICES ASSUME NEW i \in 1..m PROVE a[i] = b[i]
    OBVIOUS
  <2> HIDE DEF t, m, n, a, b
  <2>1. i \in 1..n /\ (m - i) + 1 \in 1..m /\ (n - i) + 1 = Len(u) + ((m - i) + 1)
    BY <1>1
  <2> QED
    BY <1>1, <1>2, <2>1
<1>4. a \in Seq(S) /\ b \in Seq(S)
  <2>1. \A i \in 1..m : (m - i) + 1 \in 1..m
    BY <1>1
  <2>2. \A i \in 1..n : (n - i) + 1 \in 1..n
    BY <1>1
  <2>3. t \in Seq(S)
    OBVIOUS
  <2> QED
    BY <1>1, <2>1, <2>2, <2>3 DEF Reverse
<1> HIDE DEF a, b, t, m, n
<1>5. m <= n
  BY <1>1
<1>6. SubSeq(a, 1, Len(a)) = SubSeq(b, 1, Len(a))
  BY <1>1, <1>2, <1>3, <1>4, <1>5
<1> QED
  BY <1>2, <1>5, <1>6 DEF IsSuffix, IsPrefix, a, b, t

----------------------------------------------------------------------------
(* Honest engines.                                                         *)

(* All blocks have antichain parents, and the data these give.             *)
Honest(e) ==
    /\ EngineOK(e)
    /\ BluesOK(e)
    /\ Antichains(e)
    /\ Clustered(e)
    /\ FromDag(e)

(* The first block merges nothing.                                         *)
LEMMA NewBluesOK == ASSUME NEW g \in Hash PROVE BluesOK(NewEngine(g))
BY DEF NewEngine, Blocks, BluesOK

(* The first block alone is honest.                                        *)
LEMMA NewHonest == ASSUME NEW g \in Hash PROVE Honest(NewEngine(g))
<1> DEFINE e == NewEngine(g)
<1>1. Blocks(e) = {g} /\ e.genesis = g
  BY DEF NewEngine, Blocks
<1>2. EngineOK(e) /\ BluesOK(e)
  BY NewEngineOK, NewBluesOK
<1> HIDE DEF e
<1>3. Antichains(e)
  BY <1>1 DEF Antichains
<1>4. BlueSetIn(e, g) = {}
  BY <1>1, <1>2, <1>3, BluesFacts
<1>5. Clustered(e)
  BY <1>1, <1>4 DEF Clustered
<1>6. FromDag(e)
  BY <1>1 DEF FromDag
<1> QED
  BY <1>2, <1>3, <1>5, <1>6 DEF Honest, e

(* Adding a block keeps every blue set a k-cluster.                        *)
LEMMA AddBlockClustered ==
    ASSUME NEW e, EngineOK(e), BluesOK(e), Antichains(e) => Clustered(e),
           NEW b \in Hash, NEW ps \in SUBSET Blocks(e), ps # {},
           b \notin Blocks(e), NEW e2, e2 = AddToEngine(e, b, ps), Antichains(e2)
    PROVE  Clustered(e2)
<1> DEFINE d  == GhostdagData(e, ps)
           sp == FindSelectedParent(e, ps)
           B  == Blocks(e)
<1>1. /\ TypesOK(e) /\ Ancestral(e) /\ IsFiniteSet(B) /\ Weighed(e, B)
      /\ e.past \in [B -> SUBSET B]
      /\ e.genesis \in B
      /\ B \subseteq Hash
  BY HashAssumption DEF EngineOK, TypesOK, Weighed, BluesOK
<1>2. /\ sp \in ps
      /\ d.selected_parent = sp
      /\ d.blue_work \in Nat
      /\ \A p \in ps : e.gd[p].blue_work < d.blue_work
  BY <1>1, DataFacts
<1>3. /\ b \notin B
      /\ e2.genesis = e.genesis
      /\ Blocks(e2) = B \cup {b}
      /\ \A x \in B : /\ e2.gd[x] = e.gd[x]
                       /\ e2.past[x] = e.past[x]
                       /\ e2.parents[x] = e.parents[x]
      /\ e2.gd[b] = d
      /\ e2.parents[b] = ps
  <2>1. Added(e, b, ps, e2)
    BY <1>1, AddBlockFacts
  <2> QED
    BY <2>1 DEF Added
<1> HIDE DEF d
<1>4. Antichains(e) /\ IsAntichain(e, ps)
  <2>1. \A x \in (B \cup {b}) \ {e.genesis} :
          \A p, q \in e2.parents[x] : p \notin e2.past[q]
    BY <1>3 DEF Antichains, IsAntichain
  <2>2. ASSUME NEW x \in B \ {e.genesis},
               NEW p \in e.parents[x], NEW q \in e.parents[x]
        PROVE  p \notin e.past[q]
    <3>1. e.parents[x] \subseteq B
      BY <1>1 DEF Ancestral
    <3>2. e2.parents[x] = e.parents[x] /\ e2.past[q] = e.past[q]
      BY <1>3, <3>1
    <3> QED
      BY <2>1, <3>2
  <2>3. ASSUME NEW p \in ps, NEW q \in ps PROVE p \notin e.past[q]
    <3>1. b # e.genesis /\ e2.past[q] = e.past[q]
      BY <1>1, <1>3
    <3> QED
      BY <1>3, <2>1, <3>1
  <2> QED
    BY <2>2, <2>3 DEF Antichains, IsAntichain
<1>5. Clustered(e)
  BY <1>4
<1>6. /\ \A x \in BlueSetIn(e, sp) \cup d.blues :
            /\ BlueAnticoneSize(e, x, d) = BlueAnticone(e, x, BlueSetIn(e, sp) \cup d.blues)
            /\ BlueAnticone(e, x, BlueSetIn(e, sp) \cup d.blues) <= K
      /\ d.blues \subseteq B
  BY <1>4, <1>5, DataColored DEF d
<1>7. /\ Climbing(e)
      /\ \A x \in B \ {e.genesis} : e.gd[x].selected_parent \in B
      /\ \A x \in B : e.past[x] \subseteq B
  BY <1>1, SelectedClimbs DEF Climbing
<1> HIDE DEF sp
<1>8. Climbing(e2)
  <2>1. ASSUME NEW x \in B \cup {b}
        PROVE  /\ e2.gd[x].blue_work \in Nat
               /\ x # e.genesis =>
                    /\ e2.gd[x].selected_parent \in B \cup {b}
                    /\ e2.gd[e2.gd[x].selected_parent].blue_work
                         < e2.gd[x].blue_work
    <3>1. CASE x \in B
      BY <1>1, <1>3, <1>7, <3>1 DEF Climbing
    <3>2. CASE x = b
      BY <1>2, <1>3, <3>2
    <3> QED
      BY <3>1, <3>2
  <2> QED
    BY <1>3, <2>1 DEF Climbing
<1>9. Grows(e, e2)
  BY <1>1, <1>3 DEF Grows
<1>10. \A x \in B : /\ SelectedChain(e2, x) = SelectedChain(e, x)
                    /\ \A block : SizeFrom(e2, block, x) = SizeFrom(e, block, x)
  BY <1>7, <1>8, <1>9, ChainsStay
<1>11. \A x \in B : ToSet(SelectedChain(e, x)) \subseteq B
  BY <1>7, ChainInPast
<1>12. \A x, y : /\ y \in BlueSetIn(e, x) <=>
                      /\ y # ORIGIN
                      /\ \E c \in ToSet(SelectedChain(e, x)) :
                            y \in e.gd[c].blues
                 /\ y \in BlueSetIn(e2, x) <=>
                      /\ y # ORIGIN
                      /\ \E c \in ToSet(SelectedChain(e2, x)) :
                            y \in e2.gd[c].blues
  BY DEF BlueSetIn
<1>13. ASSUME NEW x \in B PROVE BlueSetIn(e2, x) = BlueSetIn(e, x)
  <2>1. \A y : y \in BlueSetIn(e2, x) <=> y \in BlueSetIn(e, x)
    BY <1>3, <1>10, <1>11, <1>12
  <2> QED
    BY <2>1
<1>14. BlueSetIn(e2, b) = BlueSetIn(e, sp) \cup d.blues
  <2>1. ToSet(SelectedChain(e2, b)) = ToSet(SelectedChain(e, sp)) \cup {b}
    <3>1. SelectedChain(e2, b) = Append(SelectedChain(e2, sp), b)
      BY <1>1, <1>2, <1>3, <1>8, ChainEquation
    <3>2. SelectedChain(e2, sp) = SelectedChain(e, sp)
      BY <1>2, <1>10
    <3>3. SelectedChain(e, sp) \in Seq(B)
      BY <1>2, ChainSeq
    <3> DEFINE s == SelectedChain(e, sp)
    <3>4. s \in Seq(B \cup {b})
      BY <3>3
    <3> HIDE DEF s
    <3>5. ToSet(Append(s, b)) = ToSet(s) \cup {b}
      BY <3>4, ToSetAppend
    <3> QED
      BY <3>1, <3>2, <3>5 DEF s
  <2>2. ToSet(SelectedChain(e, sp)) \subseteq B
    BY <1>2, <1>11
  <2>3. ORIGIN \notin d.blues
    BY <1>1, <1>6, HashAssumption
  <2>4. \A y : y \in BlueSetIn(e2, b) <=> y \in BlueSetIn(e, sp) \cup d.blues
    BY <1>3, <1>12, <2>1, <2>2, <2>3
  <2> QED
    BY <2>4
<1>15. \A x \in B : BlueSetIn(e, x) \subseteq B
  BY <1>4, <1>7, BluesFacts
<1>16. ASSUME NEW x \in B, NEW S \in SUBSET B
       PROVE  Cardinality(AnticoneIn(e2, x) \cap S) = BlueAnticone(e, x, S)
  <2>1. ASSUME NEW y \in S PROVE y \in AnticoneIn(e2, x) <=> y \in AnticoneIn(e, x)
    BY <1>3 DEF AnticoneIn, IsDagAncestorOf
  <2>2. AnticoneIn(e2, x) \cap S = AnticoneIn(e, x) \cap S
    BY <2>1
  <2> QED
    BY <2>2 DEF BlueAnticone
<1>17. ASSUME NEW data, data.selected_parent \in B, NEW y
       PROVE  BlueAnticoneSize(e2, y, data) = BlueAnticoneSize(e, y, data)
  <2>1. BlueAnticoneSize(e2, y, data) =
           IF y \in DOMAIN data.sizes THEN data.sizes[y]
           ELSE SizeFrom(e2, y, data.selected_parent)
    BY <1>8, SizeEquation, Zenon
  <2>2. BlueAnticoneSize(e, y, data) =
           IF y \in DOMAIN data.sizes THEN data.sizes[y]
           ELSE SizeFrom(e, y, data.selected_parent)
    BY <1>7, SizeEquation, Zenon
  <2> QED
    BY <1>10, <1>17, <2>1, <2>2
<1>18. ASSUME NEW x \in B \cup {b}, NEW y \in BlueSetIn(e2, x)
       PROVE  /\ BlueAnticoneSize(e2, y, e2.gd[x])
                   = Cardinality(AnticoneIn(e2, y) \cap BlueSetIn(e2, x))
              /\ Cardinality(AnticoneIn(e2, y) \cap BlueSetIn(e2, x)) <= K
  <2>1. CASE x \in B
    <3>1. BlueSetIn(e2, x) = BlueSetIn(e, x) /\ y \in BlueSetIn(e, x) /\ y \in B /\ BlueSetIn(e, x) \in SUBSET B
      BY <1>13, <1>15, <1>18, <2>1
    <3>2. x # e.genesis
      BY <1>4, <3>1, BluesFacts
    <3>3. e2.gd[x] = e.gd[x] /\ e.gd[x].selected_parent \in B
      BY <1>3, <1>7, <2>1, <3>2
    <3>4. BlueAnticoneSize(e2, y, e2.gd[x]) = BlueAnticoneSize(e, y, e.gd[x])
      BY <1>17, <3>3
    <3>5. /\ BlueAnticoneSize(e, y, e.gd[x]) = BlueAnticone(e, y, BlueSetIn(e, x))
          /\ BlueAnticone(e, y, BlueSetIn(e, x)) <= K
      BY <1>5, <2>1, <3>1 DEF Clustered
    <3>6. Cardinality(AnticoneIn(e2, y) \cap BlueSetIn(e2, x)) = BlueAnticone(e, y, BlueSetIn(e, x))
      BY <1>16, <3>1
    <3> QED
      BY <3>4, <3>5, <3>6
  <2>2. CASE x = b
    <3> DEFINE S == BlueSetIn(e, sp) \cup d.blues
    <3>1. BlueSetIn(e2, x) = S /\ y \in S
      BY <1>14, <1>18, <2>2
    <3>2. S \in SUBSET B
      BY <1>2, <1>6, <1>15
    <3>3. BlueAnticoneSize(e2, y, e2.gd[x]) = BlueAnticoneSize(e, y, d)
      BY <1>2, <1>3, <1>17, <2>2
    <3>4. BlueAnticoneSize(e, y, d) = BlueAnticone(e, y, S) /\ BlueAnticone(e, y, S) <= K
      BY <1>6, <3>1
    <3> HIDE DEF S
    <3>5. Cardinality(AnticoneIn(e2, y) \cap BlueSetIn(e2, x)) = BlueAnticone(e, y, S)
      BY <1>16, <3>1, <3>2
    <3> QED
      BY <3>3, <3>4, <3>5
  <2> QED
    BY <2>1, <2>2
<1> QED
  BY <1>3, <1>18 DEF Clustered, BlueAnticone

(* Adding a block keeps the first block what it is.                        *)
LEMMA AddKeepsBlues ==
    ASSUME NEW e, EngineOK(e), BluesOK(e),
           NEW b \in Hash, NEW ps \in SUBSET Blocks(e), ps # {},
           b \notin Blocks(e), NEW e2, e2 = AddToEngine(e, b, ps)
    PROVE  BluesOK(e2)
<1> DEFINE d == GhostdagData(e, ps)
           B == Blocks(e)
<1>1. /\ TypesOK(e) /\ IsFiniteSet(B) /\ Weighed(e, B)
      /\ e.past \in [B -> SUBSET B]
  BY HashAssumption DEF EngineOK, TypesOK, Weighed
<1>2. d.selected_parent \in d.blues
  BY <1>1, DataFacts
<1>3. /\ b \notin B
      /\ e2.genesis = e.genesis
      /\ Blocks(e2) = B \cup {b}
      /\ \A x \in B : e2.gd[x] = e.gd[x] /\ e2.past[x] = e.past[x]
      /\ e2.gd[b] = d
      /\ e2.past[b] = ps \cup UNION {e.past[p] : p \in ps}
  <2>1. Added(e, b, ps, e2)
    BY <1>1, AddBlockFacts
  <2> QED
    BY <2>1 DEF Added
<1> HIDE DEF d
<1>4. e.genesis \in e2.past[b]
  <2>1. PICK p \in ps : TRUE
    OBVIOUS
  <2>2. p = e.genesis \/ e.genesis \in e.past[p]
    BY DEF BluesOK
  <2> QED
    BY <1>3, <2>2
<1> QED
  BY <1>2, <1>3, <1>4 DEF BluesOK

(* An honest engine takes any block with antichain parents, without panic, *)
(* and stays honest.                                                       *)
LEMMA AddKeepsHonest ==
    ASSUME NEW e, Honest(e), NEW b \in Hash, NEW ps \in SUBSET Blocks(e), ps # {},
           b \notin Blocks(e), IsAntichain(e, ps)
    PROVE  /\ ~CoveredTwice(e, ps)
           /\ Honest(AddToEngine(e, b, ps))
<1> DEFINE e2 == AddToEngine(e, b, ps)
           B == Blocks(e)
<1>1. EngineOK(e) /\ BluesOK(e) /\ Antichains(e) /\ Clustered(e)
  BY DEF Honest
<1>2. e2 = AddToEngine(e, b, ps)
  OBVIOUS
<1>3. ~CoveredTwice(e, ps)
  BY <1>1, NotCoveredTwice
<1> HIDE DEF e2
<1>4. EngineOK(e2) /\ BluesOK(e2)
  BY <1>1, <1>2, AddKeepsOK, AddKeepsBlues
<1>5. Antichains(e2)
  <2>1. TypesOK(e) /\ Ancestral(e)
    BY <1>1 DEF EngineOK
  <2>2. /\ e2.genesis = e.genesis
        /\ Blocks(e2) = B \cup {b}
        /\ \A x \in B : e2.past[x] = e.past[x] /\ e2.parents[x] = e.parents[x]
        /\ e2.parents[b] = ps
    <3>1. Added(e, b, ps, e2)
      BY <1>2, <2>1, AddBlockFacts
    <3> QED
      BY <3>1 DEF Added
  <2>3. ASSUME NEW x \in B \ {e.genesis} PROVE IsAntichain(e2, e2.parents[x])
    <3>1. IsAntichain(e, e.parents[x])
      BY <1>1 DEF Antichains
    <3>2. e.parents[x] \subseteq e.past[x] /\ e.past[x] \subseteq B
      BY <2>1 DEF Ancestral, TypesOK
    <3>3. e2.parents[x] = e.parents[x] /\ \A p \in e.parents[x] : e2.past[p] = e.past[p]
      BY <2>2, <3>2
    <3> QED
      BY <3>1, <3>3 DEF IsAntichain
  <2>4. IsAntichain(e2, e2.parents[b])
    BY <2>2 DEF IsAntichain
  <2> QED
    BY <2>2, <2>3, <2>4 DEF Antichains
<1>6. Clustered(e2)
  BY <1>1, <1>2, <1>5, AddBlockClustered
<1>7. FromDag(e2)
  <2>1. Added(e, b, ps, e2)
    BY <1>1, <1>2, AddBlockFacts DEF EngineOK
  <2>2. Sound(e) /\ FromDag(e) /\ Sound(e2)
    BY <1>1, <1>4, <1>5, <1>6 DEF Honest, Sound
  <2> QED
    BY <2>1, <2>2, GrownFromDag
<1>8. Honest(e2)
  BY <1>4, <1>5, <1>6, <1>7 DEF Honest
<1> QED
  BY <1>3, <1>8 DEF e2
=============================================================================
