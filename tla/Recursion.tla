----------------------------- MODULE Recursion ------------------------------
(***************************************************************************)
(* Induction and recursion for the proofs about the model's operators.     *)
(*                                                                         *)
(* The folds, paths, trees and parsers of the model are recursive          *)
(* functions, whose value is a CHOOSE.  RecEquation says that such a       *)
(* function satisfies its defining equation when the definition descends   *)
(* along a rank.  A module that needs it for one of its definitions        *)
(* instantiates this one with that definition for Def, which spares the    *)
(* provers a second-order instantiation.                                   *)
(***************************************************************************)
EXTENDS Integers, FiniteSets, WellFoundedInduction, TLAPS

CONSTANT Def(_, _, _)    \* Def(p, f, x): the value at x, from those before x

(* The function that a recursive definition over S denotes.                *)
Rec(p, S) == CHOOSE f : f = [x \in S |-> Def(p, f, x)]

(* Induction over the natural numbers, for a set instead of a predicate.   *)
LEMMA NatInSet ==
    ASSUME NEW S, 0 \in S, \A n \in Nat : n \in S => n + 1 \in S
    PROVE  \A n \in Nat : n \in S
<1> SUFFICES ASSUME \E n \in Nat : n \notin S PROVE FALSE
  OBVIOUS
<1> DEFINE T == {n \in Nat : n \notin S}
           R == OpToRel(<, Nat)
<1>1. PICK x \in T : \A y \in T : ~(<<y, x>> \in R)
  <2>1. IsWellFoundedOn(R, Nat)
    BY NatLessThanWellFounded, Zenon
  <2>2. T \subseteq Nat /\ T # {}
    OBVIOUS
  <2> HIDE DEF T, R
  <2> QED
    BY <2>1, <2>2, WFMin
<1>2. x # 0 /\ x \in Nat /\ x \notin S
  BY <1>1
<1>3. x - 1 \in Nat /\ (x - 1) + 1 = x
  BY <1>2
<1>4. x - 1 \notin S
  BY <1>2, <1>3
<1>5. <<x - 1, x>> \in R
  BY <1>2, <1>3 DEF OpToRel
<1> QED
  BY <1>1, <1>3, <1>4, <1>5

(* Def at x looks only at values of smaller rank.                          *)
Descends(p, S, rank) ==
    \A g, h : \A x \in S :
        (\A y \in S : rank[y] < rank[x] => g[y] = h[y]) => Def(p, g, x) = Def(p, h, x)

(* Solves the equation below rank n.                                       *)
Below(p, S, rank, n, g) == \A x \in S : rank[x] < n => g[x] = Def(p, g, x)

(* Solutions agree where they both hold.                                   *)
LEMMA Agree ==
    ASSUME NEW p, NEW S, NEW rank \in [S -> Nat], Descends(p, S, rank),
           NEW g, NEW h, NEW n \in Nat, Below(p, S, rank, n, g), Below(p, S, rank, n, h)
    PROVE  \A x \in S : rank[x] < n => g[x] = h[x]
<1> DEFINE T == {m \in Nat : \A x \in S : rank[x] < m /\ rank[x] < n => g[x] = h[x]}
<1>1. 0 \in T
  OBVIOUS
<1>2. ASSUME NEW m \in Nat, m \in T PROVE m + 1 \in T
  <2> SUFFICES ASSUME NEW x \in S, rank[x] < m + 1, rank[x] < n PROVE g[x] = h[x]
    OBVIOUS
  <2>1. \A y \in S : rank[y] < rank[x] => g[y] = h[y]
    BY <1>2
  <2>2. Def(p, g, x) = Def(p, h, x)
    BY <2>1 DEF Descends
  <2> QED
    BY <2>2 DEF Below
<1>3. \A m \in Nat : m \in T
  <2> HIDE DEF T
  <2> QED
    BY <1>1, <1>2, NatInSet
<1> QED
  BY <1>3

(* There is a solution below every rank.                                   *)
LEMMA SolutionBelow ==
    ASSUME NEW p, NEW S, NEW rank \in [S -> Nat], Descends(p, S, rank)
    PROVE  \A n \in Nat : \E g : Below(p, S, rank, n, g)
<1> DEFINE T == {n \in Nat : \E g : Below(p, S, rank, n, g)}
<1>1. 0 \in T
  BY DEF Below
<1>2. ASSUME NEW n \in Nat, n \in T PROVE n + 1 \in T
  <2>1. PICK g : Below(p, S, rank, n, g)
    BY <1>2
  <2> DEFINE h == [x \in S |-> IF rank[x] < n THEN g[x] ELSE Def(p, g, x)]
  <2>2. ASSUME NEW x \in S, rank[x] < n + 1 PROVE h[x] = Def(p, h, x)
    <3>1. \A y \in S : rank[y] < rank[x] => h[y] = g[y]
      BY <2>2
    <3>2. Def(p, h, x) = Def(p, g, x)
      <4> HIDE DEF h
      <4> QED
        BY <3>1 DEF Descends
    <3>3. h[x] = Def(p, g, x)
      BY <2>1 DEF Below
    <3> QED
      BY <3>2, <3>3
  <2> HIDE DEF h
  <2>3. Below(p, S, rank, n + 1, h)
    BY <2>2 DEF Below
  <2> QED
    BY <2>3
<1> HIDE DEF T
<1>3. \A n \in Nat : n \in T
  BY <1>1, <1>2, NatInSet
<1> QED
  BY <1>3 DEF T

(* A recursive definition that descends satisfies its own equation.        *)
THEOREM RecEquation ==
    ASSUME NEW p, NEW S, NEW rank \in [S -> Nat], Descends(p, S, rank)
    PROVE  /\ DOMAIN Rec(p, S) = S
           /\ \A x \in S : Rec(p, S)[x] = Def(p, Rec(p, S), x)
           /\ Rec(p, S) = [x \in S |-> Rec(p, S)[x]]
<1> DEFINE G(n) == CHOOSE g : Below(p, S, rank, n, g)
           f == [x \in S |-> G(rank[x] + 1)[x]]
<1>1. \A n \in Nat : Below(p, S, rank, n, G(n))
  BY SolutionBelow
<1> HIDE DEF G
<1>2. ASSUME NEW x \in S PROVE f[x] = Def(p, f, x)
  <2>1. \A y \in S : rank[y] < rank[x] => f[y] = G(rank[x] + 1)[y]
    <3> SUFFICES ASSUME NEW y \in S, rank[y] < rank[x]
                 PROVE  G(rank[y] + 1)[y] = G(rank[x] + 1)[y]
      OBVIOUS
    <3>1. Below(p, S, rank, rank[y] + 1, G(rank[y] + 1))
      BY <1>1
    <3>2. Below(p, S, rank, rank[x] + 1, G(rank[x] + 1))
      BY <1>1
    <3>3. Below(p, S, rank, rank[y] + 1, G(rank[x] + 1))
      BY <3>2 DEF Below
    <3> QED
      BY <3>1, <3>3, Agree
  <2>2. Def(p, f, x) = Def(p, G(rank[x] + 1), x)
    <3> HIDE DEF f
    <3> QED BY <2>1 DEF Descends
  <2>3. G(rank[x] + 1)[x] = Def(p, G(rank[x] + 1), x)
    BY <1>1 DEF Below
  <2> QED
    BY <2>2, <2>3
<1>3. f = [x \in S |-> Def(p, f, x)]
  BY <1>2
<1> HIDE DEF f
<1>4. Rec(p, S) = [x \in S |-> Def(p, Rec(p, S), x)]
  BY <1>3 DEF Rec
<1> HIDE DEF Rec
<1> QED
  BY <1>4
=============================================================================
