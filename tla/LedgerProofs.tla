---------------------------- MODULE LedgerProofs ----------------------------
(***************************************************************************)
(* Proofs about the bank and its state tree, for every height of the tree, *)
(* every set of accounts, transfers, fees and rewards.                     *)
(***************************************************************************)
EXTENDS Ledger, FiniteSetTheorems, TLAPS

----------------------------------------------------------------------------
(* Paths in the tree.                                                      *)

(* Short sequences of bits are prefixes ...                                *)
LEMMA SeqIsPrefix ==
    ASSUME NEW q \in Seq({0, 1}), Len(q) \in 0..Height
    PROVE  q \in Prefix
<1>1. q \in [1..Len(q) -> {0, 1}]
  OBVIOUS
<1> QED
  BY <1>1 DEF Prefix

(* ... and the other way round.                                            *)
LEMMA PrefixFacts ==
    ASSUME NEW p \in Prefix
    PROVE  /\ p \in Seq({0, 1}) /\ Len(p) \in 0..Height
           /\ Len(p) = Height => p \in Key
           /\ Len(p) < Height => \A b \in {0, 1} :
                Append(p, b) \in Prefix /\ Len(Append(p, b)) = Len(p) + 1
<1>1. PICK m \in 0..Height : p \in [1..m -> {0, 1}]
  BY DEF Prefix
<1>2. Height \in Nat /\ m \in Nat
  BY HeightAssumption
<1>3. p \in Seq({0, 1}) /\ Len(p) = m
  BY <1>1, <1>2
<1>4. ASSUME Len(p) < Height, NEW b \in {0, 1}
      PROVE  Append(p, b) \in Prefix /\ Len(Append(p, b)) = Len(p) + 1
  <2>1. Append(p, b) \in Seq({0, 1}) /\ Len(Append(p, b)) = m + 1
    BY <1>3
  <2>2. m + 1 \in 0..Height
    BY <1>2, <1>3, <1>4
  <2> QED
    BY <1>3, <2>1, <2>2, SeqIsPrefix
<1> QED
  BY <1>1, <1>2, <1>3, <1>4 DEF Key

(* The nodes on the path of a key, and beside it.                          *)
LEMMA PathFacts ==
    ASSUME NEW key \in Key
    PROVE  /\ key \in Prefix /\ key \in Seq({0, 1}) /\ Len(key) = Height
           /\ NodeId(key, 0) = <<>> /\ NodeId(key, Height) = key
           /\ \A d \in 0..Height : NodeId(key, d) \in Prefix /\ Len(NodeId(key, d)) = d
           /\ \A d \in 1..Height :
                /\ key[d] \in {0, 1}
                /\ SiblingId(key, d) \in Prefix /\ Len(SiblingId(key, d)) = d
                /\ SiblingId(key, d) = Append(NodeId(key, d - 1), 1 - key[d])
                /\ NodeId(key, d) = Append(NodeId(key, d - 1), key[d])
                /\ SiblingId(key, d) # NodeId(key, d)
<1>1. Height \in Nat /\ Height > 0
  BY HeightAssumption
<1>2. key \in Prefix /\ key \in Seq({0, 1}) /\ Len(key) = Height
  BY <1>1 DEF Key, Prefix
<1>3. NodeId(key, 0) = <<>> /\ NodeId(key, Height) = key
  BY <1>1, <1>2 DEF NodeId
<1>4. ASSUME NEW d \in 0..Height PROVE NodeId(key, d) \in Prefix /\ Len(NodeId(key, d)) = d
  <2>1. SubSeq(key, 1, d) \in Seq({0, 1}) /\ Len(SubSeq(key, 1, d)) = d
    BY <1>1, <1>2
  <2> QED
    BY <2>1, SeqIsPrefix DEF NodeId
<1>5. ASSUME NEW d \in 1..Height
      PROVE  /\ key[d] \in {0, 1}
             /\ SiblingId(key, d) \in Prefix /\ Len(SiblingId(key, d)) = d
             /\ SiblingId(key, d) = Append(NodeId(key, d - 1), 1 - key[d])
             /\ NodeId(key, d) = Append(NodeId(key, d - 1), key[d])
             /\ SiblingId(key, d) # NodeId(key, d)
  <2> DEFINE p == NodeId(key, d - 1)
  <2>1. key[d] \in {0, 1} /\ 1 - key[d] \in {0, 1} /\ 1 - key[d] # key[d]
    BY <1>2
  <2>2. p \in Prefix /\ Len(p) = d - 1 /\ d - 1 \in 0..Height /\ d - 1 < Height
    BY <1>1, <1>4
  <2>3. p \in Seq({0, 1}) /\ Len(p) < Height
    BY <1>1, <2>2, PrefixFacts
  <2>4. SiblingId(key, d) = Append(p, 1 - key[d])
    BY DEF SiblingId, NodeId
  <2>5. NodeId(key, d) = Append(p, key[d])
    <3>1. SubSeq(key, 1, d) = Append(SubSeq(key, 1, d - 1), key[d])
      BY <1>1, <1>2
    <3> QED
      BY <3>1 DEF NodeId
  <2> HIDE DEF p
  <2>6. /\ Append(p, 1 - key[d]) \in Prefix
        /\ Len(Append(p, 1 - key[d])) = d
    BY <2>1, <2>2, <2>3, PrefixFacts
  <2>7. Append(p, 1 - key[d]) # Append(p, key[d])
    <3>1. Append(p, 1 - key[d])[d] = 1 - key[d] /\ Append(p, key[d])[d] = key[d]
      BY <2>1, <2>2, <2>3
    <3> QED
      BY <2>1, <3>1
  <2> QED
    BY <2>1, <2>4, <2>5, <2>6, <2>7 DEF p
<1> QED
  BY <1>2, <1>3, <1>4, <1>5

(* A prefix of a key is on its path.                                       *)
LEMMA OnPath ==
    ASSUME NEW key \in Key, NEW p \in Prefix
    PROVE  IsPrefix(p, key) <=> p = NodeId(key, Len(p))
<1>1. p \in Seq({0, 1}) /\ Len(p) \in 0..Height /\ Len(key) = Height
  BY PrefixFacts, PathFacts
<1>2. SubSeq(p, 1, Len(p)) = p /\ Len(p) <= Height
  BY <1>1, HeightAssumption
<1> QED
  BY <1>1, <1>2 DEF IsPrefix, NodeId

(* What is below a child is below its parent; the path of a key below a    *)
(* node goes through one of its children.                                  *)
LEMMA BelowChild ==
    ASSUME NEW p \in Prefix, Len(p) < Height, NEW key \in Key
    PROVE  /\ \A b \in {0, 1} : IsPrefix(Append(p, b), key) => IsPrefix(p, key)
           /\ IsPrefix(p, key) => IsPrefix(Append(p, key[Len(p) + 1]), key)
<1> DEFINE d == Len(p)
<1>1. /\ p \in Seq({0, 1}) /\ d \in Nat /\ Height \in Nat
      /\ d + 1 \in 1..Height /\ (d + 1) - 1 = d
  BY PrefixFacts, HeightAssumption
<1>2. /\ NodeId(key, d + 1) = Append(NodeId(key, d), key[d + 1])
      /\ key[d + 1] \in {0, 1}
      /\ NodeId(key, d) \in Prefix /\ Len(NodeId(key, d)) = d
  <2>1. d \in 0..Height
    BY <1>1
  <2> QED
    BY <1>1, <2>1, PathFacts
<1>3. NodeId(key, d) \in Seq({0, 1})
  BY <1>2, PrefixFacts
<1>4. \A b \in {0, 1} : Append(p, b) \in Prefix /\ Len(Append(p, b)) = d + 1
  BY PrefixFacts
<1>5. ASSUME NEW b \in {0, 1}, IsPrefix(Append(p, b), key) PROVE IsPrefix(p, key)
  <2>1. Append(p, b) = Append(NodeId(key, d), key[d + 1])
    BY <1>2, <1>4, <1>5, OnPath
  <2>2. p = NodeId(key, d)
    <3> DEFINE q == NodeId(key, d)
    <3> HIDE DEF q, d
    <3>1. q \in Seq({0, 1}) /\ Len(q) = d /\ Len(p) = d
      BY <1>2, <1>3 DEF q, d
    <3>2. SubSeq(Append(p, b), 1, d) = p /\ SubSeq(Append(q, key[d + 1]), 1, d) = q
      BY <1>1, <1>2, <3>1
    <3> QED
      BY <2>1, <3>2 DEF q
  <2> QED
    BY <2>2, OnPath
<1>6. ASSUME IsPrefix(p, key) PROVE IsPrefix(Append(p, key[d + 1]), key)
  <2>1. p = NodeId(key, d)
    BY <1>6, OnPath
  <2> QED
    BY <1>2, <1>4, <2>1, OnPath
<1> QED
  BY <1>5, <1>6

----------------------------------------------------------------------------
(* The tree from scratch.                                                  *)

DefaultDef(p, f, i) == IF i = 0 THEN EmptyLeaf ELSE Hash2(f[i - 1], f[i - 1])

Defaults == INSTANCE Recursion WITH Def <- DefaultDef

(* The default hash of a depth is that of two empty subtrees below it.     *)
LEMMA DefaultFacts ==
    /\ Default[Height] = EmptyLeaf
    /\ \A d \in 0..Height : d < Height => Default[d] = Hash2(Default[d + 1], Default[d + 1])
<1> DEFINE S == 0..Height
           rank == [i \in S |-> i]
           f == Defaults!Rec(0, S)
<1>1. Height \in Nat
  BY HeightAssumption
<1>2. rank \in [S -> Nat]
  BY <1>1
<1>3. Defaults!Descends(0, S, rank)
  <2> SUFFICES ASSUME NEW g, NEW k, NEW i \in S,
                      \A y \in S : rank[y] < rank[i] => g[y] = k[y]
               PROVE  DefaultDef(0, g, i) = DefaultDef(0, k, i)
    BY DEF Defaults!Descends
  <2>1. ASSUME i # 0 PROVE g[i - 1] = k[i - 1]
    <3>1. i - 1 \in S /\ rank[i - 1] < rank[i]
      BY <1>1, <2>1
    <3> QED
      BY <3>1
  <2> HIDE DEF rank, S
  <2> QED
    BY <2>1 DEF DefaultDef
<1>4. PICK r \in [S -> Nat] : Defaults!Descends(0, S, r)
  <2> HIDE DEF rank, S
  <2> QED
    BY <1>2, <1>3
<1>5. \A i \in S : f[i] = DefaultDef(0, f, i)
  <2> HIDE DEF rank, S
  <2> QED
    BY <1>4, Defaults!RecEquation
<1>6. Default = [depth \in 0..Height |-> f[Height - depth]]
  BY DEF Default, Defaults!Rec, DefaultDef
<1> HIDE DEF f
<1>7. Default[Height] = EmptyLeaf
  <2>1. 0 \in S /\ Height - Height = 0 /\ Height \in 0..Height
    BY <1>1
  <2> QED
    BY <1>5, <1>6, <2>1 DEF DefaultDef
<1>8. ASSUME NEW d \in 0..Height, d < Height
      PROVE  Default[d] = Hash2(Default[d + 1], Default[d + 1])
  <2>1. /\ Height - d \in S /\ Height - d # 0
        /\ (Height - d) - 1 = Height - (d + 1) /\ d + 1 \in 0..Height
    BY <1>1, <1>8
  <2>2. f[Height - d] = Hash2(f[Height - (d + 1)], f[Height - (d + 1)])
    BY <1>5, <2>1 DEF DefaultDef
  <2> QED
    BY <1>6, <2>1, <2>2
<1> QED
  BY <1>7, <1>8

RootDef(leaves, f, p) ==
    IF ~\E k \in DOMAIN leaves : IsPrefix(p, k) THEN Default[Len(p)]
    ELSE IF Len(p) = Height THEN leaves[p]
    ELSE Hash2(f[Append(p, 0)], f[Append(p, 1)])

Roots == INSTANCE Recursion WITH Def <- RootDef

(* subtree_root, as an equation.                                           *)
LEMMA RootEquation ==
    ASSUME NEW leaves
    PROVE  /\ SubtreeRoot(leaves) = [p \in Prefix |-> SubtreeRoot(leaves)[p]]
           /\ \A p \in Prefix : SubtreeRoot(leaves)[p] = RootDef(leaves, SubtreeRoot(leaves), p)
<1> DEFINE S == Prefix
           rank == [p \in S |-> Height - Len(p)]
<1>1. rank \in [S -> Nat]
  BY PrefixFacts, HeightAssumption
<1>2. Roots!Descends(leaves, S, rank)
  <2> SUFFICES ASSUME NEW g, NEW h, NEW p \in S,
                      \A y \in S : rank[y] < rank[p] => g[y] = h[y]
               PROVE  RootDef(leaves, g, p) = RootDef(leaves, h, p)
    BY DEF Roots!Descends
  <2>1. ASSUME Len(p) # Height, NEW b \in {0, 1} PROVE g[Append(p, b)] = h[Append(p, b)]
    <3>1. /\ Height \in Nat /\ Len(p) \in 0..Height /\ Len(p) < Height
          /\ Append(p, b) \in S /\ Len(Append(p, b)) = Len(p) + 1
      BY <2>1, PrefixFacts, HeightAssumption
    <3>2. rank[Append(p, b)] = Height - (Len(p) + 1) /\ rank[p] = Height - Len(p)
      BY <3>1
    <3>3. rank[Append(p, b)] < rank[p]
      BY <3>1, <3>2
    <3> QED
      BY <3>1, <3>3
  <2> HIDE DEF rank, S
  <2> QED
    BY <2>1 DEF RootDef
<1>3. PICK r \in [S -> Nat] : Roots!Descends(leaves, S, r)
  <2> HIDE DEF rank, S
  <2> QED
    BY <1>1, <1>2
<1>4. /\ Roots!Rec(leaves, S) = [p \in S |-> Roots!Rec(leaves, S)[p]]
      /\ \A p \in S : Roots!Rec(leaves, S)[p] = RootDef(leaves, Roots!Rec(leaves, S), p)
  <2> HIDE DEF rank, S
  <2> QED
    BY <1>3, Roots!RecEquation
<1>5. SubtreeRoot(leaves) = Roots!Rec(leaves, S)
  BY DEF SubtreeRoot, Roots!Rec, RootDef
<1> QED
  BY <1>4, <1>5

(* A tree of hashes over a leaf for every key.                             *)
IsHashTree(t, leaf) ==
    /\ \A p \in Prefix : Len(p) < Height => t[p] = Hash2(t[Append(p, 0)], t[Append(p, 1)])
    /\ \A key \in Key : t[key] = leaf[key]

(* The leaf of every key, that of an absent one being empty.               *)
LeafOf(leaves) == [k \in Key |-> IF k \in DOMAIN leaves THEN leaves[k] ELSE EmptyLeaf]

(* subtree_root cuts off empty subtrees, and gives the whole tree all the  *)
(* same.                                                                   *)
LEMMA ScratchIsTree ==
    ASSUME NEW leaves, DOMAIN leaves \subseteq Key
    PROVE  IsHashTree(SubtreeRoot(leaves), LeafOf(leaves))
<1> DEFINE t == SubtreeRoot(leaves)
           Below(p) == \E k \in DOMAIN leaves : IsPrefix(p, k)
<1>1. \A p \in Prefix : t[p] = IF ~Below(p) THEN Default[Len(p)]
                              ELSE IF Len(p) = Height THEN leaves[p]
                              ELSE Hash2(t[Append(p, 0)], t[Append(p, 1)])
  BY RootEquation DEF RootDef
<1> HIDE DEF t
<1>2. ASSUME NEW p \in Prefix, Len(p) < Height
      PROVE  t[p] = Hash2(t[Append(p, 0)], t[Append(p, 1)])
  <2>1. /\ Height \in Nat /\ Len(p) \in 0..Height
        /\ \A b \in {0, 1} : Append(p, b) \in Prefix /\ Len(Append(p, b)) = Len(p) + 1
    BY <1>2, PrefixFacts, HeightAssumption
  <2>2. CASE Below(p)
    BY <1>1, <1>2, <2>1, <2>2
  <2>3. CASE ~Below(p)
    <3>1. \A b \in {0, 1} : ~Below(Append(p, b))
      BY <1>2, <2>3, BelowChild
    <3>2. \A b \in {0, 1} : t[Append(p, b)] = Default[Len(p) + 1]
      <4> TAKE b \in {0, 1}
      <4>1. Append(p, b) \in Prefix /\ Len(Append(p, b)) = Len(p) + 1 /\ ~Below(Append(p, b))
        BY <2>1, <3>1
      <4> HIDE DEF Below
      <4> QED
        BY <1>1, <4>1
    <3>3. t[p] = Default[Len(p)]
      BY <1>1, <2>3
    <3>4. Default[Len(p)] = Hash2(Default[Len(p) + 1], Default[Len(p) + 1])
      BY <1>2, <2>1, DefaultFacts
    <3> QED
      BY <3>2, <3>3, <3>4
  <2> QED
    BY <2>2, <2>3
<1>3. ASSUME NEW key \in Key PROVE t[key] = LeafOf(leaves)[key]
  <2>1. key \in Prefix /\ Len(key) = Height
    BY PathFacts
  <2>2. \A k \in Key : IsPrefix(key, k) <=> key = k
    BY <2>1, OnPath, PathFacts
  <2>3. Below(key) <=> key \in DOMAIN leaves
    BY <2>2
  <2> HIDE DEF Below
  <2> QED
    BY <1>1, <2>1, <2>3, DefaultFacts DEF LeafOf
<1> QED
  BY <1>2, <1>3 DEF IsHashTree, t

(* Two trees agree on a node when their leaves below it agree.             *)
LEMMA TreesAgree ==
    ASSUME NEW t, NEW u, NEW f, NEW g, IsHashTree(t, f), IsHashTree(u, g)
    PROVE  \A p \in Prefix : (\A k \in Key : IsPrefix(p, k) => f[k] = g[k]) => t[p] = u[p]
<1> DEFINE Below(p) == \A k \in Key : IsPrefix(p, k) => f[k] = g[k]
           T == {n \in Nat : \A p \in Prefix : Height - Len(p) = n /\ Below(p) => t[p] = u[p]}
<1>1. Height \in Nat
  BY HeightAssumption
<1>2. 0 \in T
  <2> SUFFICES ASSUME NEW p \in Prefix, Height - Len(p) = 0, Below(p) PROVE t[p] = u[p]
    OBVIOUS
  <2>1. Len(p) \in 0..Height
    BY PrefixFacts
  <2>2. Len(p) = Height
    BY <1>1, <2>1
  <2>3. p \in Key
    BY <2>2, PrefixFacts
  <2>4. IsPrefix(p, p)
    BY <2>2, <2>3, OnPath, PathFacts
  <2> QED
    BY <2>3, <2>4 DEF IsHashTree
<1>3. ASSUME NEW n \in Nat, n \in T PROVE n + 1 \in T
  <2> SUFFICES ASSUME NEW p \in Prefix, Height - Len(p) = n + 1, Below(p) PROVE t[p] = u[p]
    OBVIOUS
  <2>1. Len(p) \in 0..Height
    BY PrefixFacts
  <2>2. Len(p) < Height
    BY <1>1, <2>1
  <2>3. ASSUME NEW b \in {0, 1} PROVE t[Append(p, b)] = u[Append(p, b)]
    <3>1. Append(p, b) \in Prefix /\ Len(Append(p, b)) = Len(p) + 1
      BY <2>2, PrefixFacts
    <3>2. Height - Len(Append(p, b)) = n
      BY <1>1, <2>1, <3>1
    <3>3. Below(Append(p, b))
      BY <2>2, BelowChild
    <3> HIDE DEF Below
    <3> QED
      BY <1>3, <3>1, <3>2, <3>3
  <2> QED
    BY <2>2, <2>3 DEF IsHashTree
<1> HIDE DEF T
<1>4. \A n \in Nat : n \in T
  BY <1>2, <1>3, Roots!NatInSet
<1>5. ASSUME NEW p \in Prefix, Below(p) PROVE t[p] = u[p]
  <2>1. Height - Len(p) \in Nat
    BY <1>1, PrefixFacts
  <2> QED
    BY <1>4, <1>5, <2>1 DEF T
<1> QED
  BY <1>5

----------------------------------------------------------------------------
(* Climbing from a leaf to the root.                                       *)

ClimbDef(q, f, n) ==
    IF n = 0 THEN q.leaf
    ELSE Parent(q.key, Height - n + 1, f[n - 1], q.siblings[Height - n + 1])

Climbs == INSTANCE Recursion WITH Def <- ClimbDef

(* One level after the other.                                              *)
LEMMA ClimbEquation ==
    ASSUME NEW key, NEW leaf, NEW siblings
    PROVE  /\ Climb(key, leaf, siblings)[0] = leaf
           /\ \A n \in 1..Height :
                Climb(key, leaf, siblings)[n] =
                  Parent(key, Height - n + 1, Climb(key, leaf, siblings)[n - 1],
                         siblings[Height - n + 1])
<1> DEFINE q == [key |-> key, leaf |-> leaf, siblings |-> siblings]
           S == 0..Height
           rank == [i \in S |-> i]
           f == Climbs!Rec(q, S)
<1>1. Height \in Nat
  BY HeightAssumption
<1>2. rank \in [S -> Nat]
  BY <1>1
<1>3. Climbs!Descends(q, S, rank)
  <2> SUFFICES ASSUME NEW g, NEW k, NEW n \in S,
                      \A y \in S : rank[y] < rank[n] => g[y] = k[y]
               PROVE  ClimbDef(q, g, n) = ClimbDef(q, k, n)
    BY DEF Climbs!Descends
  <2>1. ASSUME n # 0 PROVE g[n - 1] = k[n - 1]
    <3>1. n - 1 \in S /\ rank[n - 1] < rank[n]
      BY <1>1, <2>1
    <3> QED
      BY <3>1
  <2> HIDE DEF rank, S, q
  <2> QED
    BY <2>1 DEF ClimbDef
<1>4. PICK r \in [S -> Nat] : Climbs!Descends(q, S, r)
  <2> HIDE DEF rank, S, q
  <2> QED
    BY <1>2, <1>3
<1>5. \A n \in S : f[n] = ClimbDef(q, f, n)
  <2> HIDE DEF rank, S, q
  <2> QED
    BY <1>4, Climbs!RecEquation
<1>6. Climb(key, leaf, siblings) = f
  BY DEF Climb, Climbs!Rec, ClimbDef
<1> HIDE DEF f
<1>7. q.leaf = leaf /\ q.key = key /\ q.siblings = siblings
  OBVIOUS
<1> HIDE DEF q
<1>8. 0 \in S /\ \A n \in 1..Height : n \in S /\ n # 0
  BY <1>1
<1> HIDE DEF S
<1> QED
  BY <1>5, <1>6, <1>7, <1>8 DEF ClimbDef

(* A node on the path is the parent of the next one and its sibling.       *)
LEMMA ParentOnPath ==
    ASSUME NEW u, NEW g, IsHashTree(u, g), NEW key \in Key, NEW d \in 1..Height
    PROVE  u[NodeId(key, d - 1)] = Parent(key, d, u[NodeId(key, d)], u[SiblingId(key, d)])
<1> DEFINE p == NodeId(key, d - 1)
<1>1. /\ key[d] \in {0, 1}
      /\ SiblingId(key, d) = Append(p, 1 - key[d])
      /\ NodeId(key, d) = Append(p, key[d])
  BY PathFacts
<1>2. p \in Prefix /\ Len(p) < Height
  <2>1. Height \in Nat /\ d - 1 \in 0..Height /\ d - 1 < Height
    BY HeightAssumption
  <2> QED
    BY <2>1, PathFacts
<1> HIDE DEF p
<1>3. u[p] = Hash2(u[Append(p, 0)], u[Append(p, 1)])
  BY <1>2 DEF IsHashTree
<1>4. CASE key[d] = 0
  BY <1>1, <1>3, <1>4 DEF Parent, p
<1>5. CASE key[d] = 1
  BY <1>1, <1>3, <1>5 DEF Parent, p
<1> QED
  BY <1>1, <1>4, <1>5

(* With the leaf and the siblings of a tree one climbs to its root ...     *)
LEMMA ClimbTree ==
    ASSUME NEW u, NEW g, IsHashTree(u, g), NEW key \in Key, NEW siblings,
           \A d \in 1..Height : siblings[d] = u[SiblingId(key, d)]
    PROVE  \A n \in 0..Height : Climb(key, g[key], siblings)[n] = u[NodeId(key, Height - n)]
<1> DEFINE f == Climb(key, g[key], siblings)
           T == {n \in Nat : n <= Height => f[n] = u[NodeId(key, Height - n)]}
<1>1. Height \in Nat
  BY HeightAssumption
<1>2. /\ f[0] = g[key]
      /\ \A n \in 1..Height :
           f[n] = Parent(key, Height - n + 1, f[n - 1], siblings[Height - n + 1])
  BY ClimbEquation
<1> HIDE DEF f
<1>3. 0 \in T
  <2>1. NodeId(key, Height - 0) = key
    BY <1>1, PathFacts
  <2> QED
    BY <1>2, <2>1 DEF IsHashTree
<1>4. ASSUME NEW n \in Nat, n \in T PROVE n + 1 \in T
  <2> SUFFICES ASSUME n + 1 <= Height PROVE f[n + 1] = u[NodeId(key, Height - (n + 1))]
    OBVIOUS
  <2> DEFINE d == Height - n
  <2>1. /\ d \in 1..Height /\ n + 1 \in 1..Height /\ (n + 1) - 1 = n
        /\ Height - (n + 1) + 1 = d /\ Height - (n + 1) = d - 1
    BY <1>1
  <2>2. f[n] = u[NodeId(key, d)]
    BY <1>1, <1>4
  <2> HIDE DEF d, T
  <2>3. f[n + 1] = Parent(key, d, f[n], siblings[d])
    BY <1>2, <2>1
  <2>4. u[NodeId(key, d - 1)] = Parent(key, d, u[NodeId(key, d)], u[SiblingId(key, d)])
    BY <2>1, ParentOnPath
  <2> QED
    BY <2>1, <2>2, <2>3, <2>4
<1> HIDE DEF T
<1>5. \A n \in Nat : n \in T
  BY <1>3, <1>4, Roots!NatInSet
<1>6. ASSUME NEW n \in 0..Height PROVE f[n] = u[NodeId(key, Height - n)]
  BY <1>1, <1>5 DEF T
<1> QED
  BY <1>6 DEF f

(* The hashes of inner nodes are injective.                                *)
LEMMA ParentInjective ==
    ASSUME NEW key, NEW d, NEW a, NEW b, NEW x, NEW y, Parent(key, d, a, x) = Parent(key, d, b, y)
    PROVE  a = b /\ x = y
BY DEF Parent, Hash2

(* ... and with no other leaf or siblings.                                 *)
LEMMA ClimbExact ==
    ASSUME NEW u, NEW g, IsHashTree(u, g), NEW key \in Key, NEW leaf, NEW siblings,
           Climb(key, leaf, siblings)[Height] = u[<<>>]
    PROVE  leaf = g[key] /\ \A d \in 1..Height : siblings[d] = u[SiblingId(key, d)]
<1> DEFINE f == Climb(key, leaf, siblings)
           T == {m \in Nat : m <= Height =>
                   /\ f[Height - m] = u[NodeId(key, m)]
                   /\ \A d \in 1..m : siblings[d] = u[SiblingId(key, d)]}
<1>1. Height \in Nat
  BY HeightAssumption
<1>2. /\ f[0] = leaf
      /\ \A n \in 1..Height :
           f[n] = Parent(key, Height - n + 1, f[n - 1], siblings[Height - n + 1])
  BY ClimbEquation
<1>3. f[Height] = u[<<>>]
  OBVIOUS
<1> HIDE DEF f
<1>4. 0 \in T
  <2>1. NodeId(key, 0) = <<>> /\ Height - 0 = Height /\ 1..0 = {}
    BY <1>1, PathFacts
  <2> QED
    BY <1>3, <2>1
<1>5. ASSUME NEW m \in Nat, m \in T PROVE m + 1 \in T
  <2> SUFFICES ASSUME m + 1 <= Height
               PROVE  /\ f[Height - (m + 1)] = u[NodeId(key, m + 1)]
                      /\ \A d \in 1..(m + 1) : siblings[d] = u[SiblingId(key, d)]
    OBVIOUS
  <2> DEFINE e == m + 1
             n == Height - m
  <2>1. /\ e \in 1..Height /\ n \in 1..Height /\ e - 1 = m
        /\ n - 1 = Height - e /\ Height - n + 1 = e
    BY <1>1
  <2>2. f[n] = u[NodeId(key, m)] /\ \A d \in 1..m : siblings[d] = u[SiblingId(key, d)]
    BY <1>1, <1>5
  <2>3. \A d \in 1..e : d \in 1..m \/ d = e
    OBVIOUS
  <2> HIDE DEF e, n, T
  <2>4. f[n] = Parent(key, e, f[Height - e], siblings[e])
    BY <1>2, <2>1
  <2>5. u[NodeId(key, m)] = Parent(key, e, u[NodeId(key, e)], u[SiblingId(key, e)])
    BY <2>1, ParentOnPath
  <2>6. f[Height - e] = u[NodeId(key, e)] /\ siblings[e] = u[SiblingId(key, e)]
    <3> DEFINE a == f[Height - e]
               b == u[NodeId(key, e)]
               x == siblings[e]
               y == u[SiblingId(key, e)]
    <3>1. Parent(key, e, a, x) = Parent(key, e, b, y)
      BY <2>2, <2>4, <2>5
    <3> HIDE DEF a, b, x, y
    <3>2. a = b /\ x = y
      BY <3>1, ParentInjective
    <3> QED
      BY <3>2 DEF a, b, x, y
  <2> QED
    BY <2>2, <2>3, <2>6 DEF e
<1> HIDE DEF T
<1>6. \A m \in Nat : m \in T
  BY <1>4, <1>5, Roots!NatInSet
<1>7. /\ f[Height - Height] = u[NodeId(key, Height)]
      /\ \A d \in 1..Height : siblings[d] = u[SiblingId(key, d)]
  BY <1>1, <1>6 DEF T
<1>8. Height - Height = 0 /\ NodeId(key, Height) = key
  BY <1>1, PathFacts
<1> QED
  BY <1>2, <1>7, <1>8 DEF IsHashTree

----------------------------------------------------------------------------
(* The tree in the store.                                                  *)

(* The store holds the nodes of t that are not default.                    *)
IsStore(nodes, t) ==
    nodes = [id \in {p \in Prefix : t[p] # Default[Len(p)]} |-> t[id]]

(* get_node reads the tree, default nodes included.                        *)
LEMMA StoredNode ==
    ASSUME NEW nodes, NEW t, IsStore(nodes, t), NEW p \in Prefix
    PROVE  GetNode(nodes, p) = t[p]
BY DEF IsStore, GetNode

(* A node off the path of a key does not have the key below it.            *)
LEMMA OffPath ==
    ASSUME NEW key \in Key, NEW p \in Prefix, p \notin {NodeId(key, d) : d \in 0..Height}
    PROVE  ~IsPrefix(p, key)
BY OnPath, PrefixFacts

(* The siblings of a path are off it.                                      *)
LEMMA SiblingOffPath ==
    ASSUME NEW key \in Key, NEW d \in 1..Height
    PROVE  ~IsPrefix(SiblingId(key, d), key)
<1>1. /\ SiblingId(key, d) \in Prefix /\ Len(SiblingId(key, d)) = d
      /\ SiblingId(key, d) # NodeId(key, d)
  BY PathFacts
<1> QED
  BY <1>1, OnPath

(* update_leaf turns the store of one tree into that of the tree which     *)
(* differs from it in that leaf alone.                                     *)
LEMMA UpdateExact ==
    ASSUME NEW nodes, NEW t, NEW u, NEW f, NEW g, NEW key \in Key,
           IsHashTree(t, f), IsHashTree(u, g), IsStore(nodes, t),
           \A k \in Key : k # key => f[k] = g[k]
    PROVE  IsStore(UpdateLeaf(nodes, key, g[key]), u)
<1> DEFINE siblings == StoredProof(nodes, key)
           P == {NodeId(key, d) : d \in 0..Height}
           path == [id \in P |-> Climb(key, g[key], siblings)[Height - Len(id)]]
           all == Override(nodes, path)
<1>1. Height \in Nat
  BY HeightAssumption
<1>2. \A p \in Prefix : ~IsPrefix(p, key) => t[p] = u[p]
  <2> TAKE p \in Prefix
  <2> HAVE ~IsPrefix(p, key)
  <2>1. \A k \in Key : IsPrefix(p, k) => f[k] = g[k]
    OBVIOUS
  <2> QED
    BY <2>1, TreesAgree
<1>3. \A d \in 1..Height : siblings[d] = u[SiblingId(key, d)]
  <2> TAKE d \in 1..Height
  <2>1. SiblingId(key, d) \in Prefix
    BY PathFacts
  <2>2. siblings[d] = t[SiblingId(key, d)]
    BY <2>1, StoredNode DEF StoredProof
  <2> QED
    BY <1>2, <2>1, <2>2, SiblingOffPath
<1>4. P \subseteq Prefix
  BY PathFacts
<1>5. \A id \in P : path[id] = u[id]
  <2> SUFFICES ASSUME NEW d \in 0..Height
               PROVE  path[NodeId(key, d)] = u[NodeId(key, d)]
    OBVIOUS
  <2> HIDE DEF siblings
  <2>1. NodeId(key, d) \in P /\ Len(NodeId(key, d)) = d
    BY PathFacts
  <2>2. Height - d \in 0..Height /\ Height - (Height - d) = d
    BY <1>1
  <2>3. \A n \in 0..Height : Climb(key, g[key], siblings)[n] = u[NodeId(key, Height - n)]
    BY <1>3, ClimbTree
  <2>4. path[NodeId(key, d)] = Climb(key, g[key], siblings)[Height - d]
    BY <2>1
  <2> QED
    BY <2>2, <2>3, <2>4
<1>6. DOMAIN path = P
  OBVIOUS
<1>7. UpdateLeaf(nodes, key, g[key]) = PutPath(nodes, path)
  BY DEF UpdateLeaf
<1> HIDE DEF path, siblings
<1>8. /\ DOMAIN nodes = {p \in Prefix : t[p] # Default[Len(p)]}
      /\ \A p \in DOMAIN nodes : nodes[p] = t[p]
  BY DEF IsStore
<1>9. \A p \in Prefix : p \notin P => t[p] = u[p]
  BY <1>2, OffPath
<1> HIDE DEF P
<1>10. DOMAIN all = DOMAIN nodes \cup P /\ \A id \in DOMAIN all : all[id] = u[id]
  <2>1. DOMAIN all = DOMAIN nodes \cup P
    BY <1>6 DEF Override
  <2>2. ASSUME NEW id \in DOMAIN all PROVE all[id] = u[id]
    <3>1. all[id] = IF id \in P THEN path[id] ELSE nodes[id]
      BY <1>6 DEF Override
    <3> QED
      BY <1>5, <1>8, <1>9, <2>1, <3>1
  <2> QED
    BY <2>1, <2>2
<1> HIDE DEF all
<1>11. {id \in DOMAIN all : all[id] # Default[Len(id)]} = {p \in Prefix : u[p] # Default[Len(p)]}
  BY <1>4, <1>8, <1>9, <1>10
<1>12. PutPath(nodes, path) = Restrict(all, {id \in DOMAIN all : all[id] # Default[Len(id)]})
  BY DEF PutPath, all
<1>13. PutPath(nodes, path) = [id \in {p \in Prefix : u[p] # Default[Len(p)]} |-> all[id]]
  BY <1>11, <1>12 DEF Restrict
<1>14. \A id \in {p \in Prefix : u[p] # Default[Len(p)]} : all[id] = u[id]
  BY <1>10, <1>11
<1> QED
  BY <1>7, <1>13, <1>14 DEF IsStore

(* The store holds the tree over a leaf for every key.                     *)
Matches(nodes, leaf) == IsStore(nodes, SubtreeRoot(leaf))

(* A leaf for every key makes a tree.                                      *)
LEMMA TotalTree ==
    ASSUME NEW leaf, leaf = [k \in Key |-> leaf[k]]
    PROVE  IsHashTree(SubtreeRoot(leaf), leaf)
<1>1. DOMAIN leaf = Key /\ DOMAIN leaf \subseteq Key
  BY Zenon
<1>2. LeafOf(leaf) = leaf
  BY <1>1 DEF LeafOf
<1> QED
  BY <1>1, <1>2, ScratchIsTree

(* The leaf of every key, given the accounts.                              *)
LeavesFor(accounts) == [k \in Key |-> LeafFor(accounts, k)]

(* An absent key has the empty leaf, present or not.                       *)
LEMMA ScratchSame ==
    ASSUME NEW accounts, DOMAIN accounts \subseteq Key
    PROVE  SubtreeRoot([k \in DOMAIN accounts |-> LeafFor(accounts, k)])
             = SubtreeRoot(LeavesFor(accounts))
<1> DEFINE some == [k \in DOMAIN accounts |-> LeafFor(accounts, k)]
           every == LeavesFor(accounts)
<1>1. DOMAIN some = DOMAIN accounts /\ LeafOf(some) = every
  BY DEF LeafOf, LeavesFor, LeafFor
<1>2. every = [k \in Key |-> every[k]]
  BY DEF LeavesFor
<1> HIDE DEF some, every
<1>3. IsHashTree(SubtreeRoot(some), every)
  BY <1>1, ScratchIsTree
<1>4. IsHashTree(SubtreeRoot(every), every)
  BY <1>2, TotalTree
<1> DEFINE t == SubtreeRoot(some)
           u == SubtreeRoot(every)
<1>5. \A p \in Prefix : t[p] = u[p]
  BY <1>3, <1>4, TreesAgree
<1>6. t = [p \in Prefix |-> t[p]] /\ u = [p \in Prefix |-> u[p]]
  <2>1. /\ SubtreeRoot(some) = [p \in Prefix |-> SubtreeRoot(some)[p]]
        /\ SubtreeRoot(every) = [p \in Prefix |-> SubtreeRoot(every)[p]]
    BY RootEquation
  <2> QED
    BY <2>1
<1> HIDE DEF t, u
<1>7. t = u
  BY <1>5, <1>6
<1> QED
  BY <1>7 DEF t, u, some, every

(* The balances of an account set, and what is summed of them.             *)
BalanceIn(balances, a) == balances[a]

(* The update of a tree as an instance of Folding.                         *)
UpdateStep(p, nodes, l) == UpdateNext(nodes, l)

Updates == INSTANCE Folding WITH op <- UpdateStep, val <- BalanceIn

(* smt_update, with leaves taken from `to', turns the store of the tree    *)
(* over `from' into that of the tree which has them at these keys: a later *)
(* leaf sees the nodes that the earlier ones have left in the overlay.     *)
LEMMA BatchExact ==
    ASSUME NEW nodes, NEW from, NEW to, NEW keys \in Seq(Key), Matches(nodes, from),
           from = [k \in Key |-> from[k]]
    PROVE  Matches(SmtUpdate(nodes, [i \in DOMAIN keys |->
                     [key |-> keys[i], leaf |-> to[keys[i]]]]),
                   [k \in Key |-> IF \E i \in DOMAIN keys : keys[i] = k THEN to[k] ELSE from[k]])
<1> DEFINE E == [key : Key, leaf : {to[k] : k \in Key}]
           s == [i \in DOMAIN keys |-> [key |-> keys[i], leaf |-> to[keys[i]]]]
           n == Len(keys)
           At(m) == [k \in Key |-> IF \E i \in 1..m : keys[i] = k THEN to[k] ELSE from[k]]
           T == {m \in Nat : m <= n => Matches(Updates!Fold(0, nodes, SubSeq(s, 1, m)), At(m))}
<1>1. n \in Nat /\ DOMAIN keys = 1..n /\ \A i \in 1..n : keys[i] \in Key
  OBVIOUS
<1>2. s \in Seq(E) /\ Len(s) = n /\ \A i \in 1..n : s[i] = [key |-> keys[i], leaf |-> to[keys[i]]]
  BY <1>1
<1> HIDE DEF s, E, n
<1>3. 0 \in T
  <2>1. SubSeq(s, 1, 0) = <<>>
    BY <1>2
  <2>2. Updates!Fold(0, nodes, <<>>) = nodes
    BY Updates!FoldEmpty
  <2>3. At(0) = from
    <3>1. \A k \in Key : At(0)[k] = from[k]
      OBVIOUS
    <3> QED
      BY <3>1
  <2> HIDE DEF At
  <2> QED
    BY <2>1, <2>2, <2>3
<1>4. ASSUME NEW m \in Nat, m \in T PROVE m + 1 \in T
  <2> SUFFICES ASSUME m + 1 <= n
               PROVE  Matches(Updates!Fold(0, nodes, SubSeq(s, 1, m + 1)), At(m + 1))
    OBVIOUS
  <2> DEFINE old == Updates!Fold(0, nodes, SubSeq(s, 1, m))
             key == keys[m + 1]
  <2>1. m <= n /\ m + 1 \in 1..n
    BY <1>1
  <2>2. Matches(old, At(m))
    BY <1>4, <2>1
  <2>3. SubSeq(s, 1, m + 1) = Append(SubSeq(s, 1, m), s[m + 1])
    BY <1>1, <1>2, <2>1
  <2>4. SubSeq(s, 1, m) \in Seq(E) /\ s[m + 1] \in E
    BY <1>1, <1>2, <2>1
  <2>5. Updates!Fold(0, nodes, SubSeq(s, 1, m + 1)) = UpdateNext(old, s[m + 1])
    <3> DEFINE q == SubSeq(s, 1, m)
               x == s[m + 1]
    <3> HIDE DEF q, x
    <3>1. q \in Seq(E) /\ x \in E
      BY <2>4 DEF q, x
    <3>2. Updates!Fold(0, nodes, Append(q, x)) = UpdateNext(Updates!Fold(0, nodes, q), x)
      BY <3>1, Updates!FoldAppend DEF UpdateStep
    <3> QED
      BY <2>3, <3>2 DEF q, x
  <2> HIDE DEF old
  <2>6. key \in Key /\ s[m + 1].key = key /\ s[m + 1].leaf = to[key]
    BY <1>1, <1>2, <2>1
  <2>7. UpdateNext(old, s[m + 1]) = UpdateLeaf(old, key, to[key])
    BY <2>6 DEF UpdateNext
  <2> HIDE DEF key
  <2>8. At(m + 1)[key] = to[key] /\ \A k \in Key : k # key => At(m)[k] = At(m + 1)[k]
    <3>1. \A i \in 1..(m + 1) : i \in 1..m \/ i = m + 1
      OBVIOUS
    <3>2. \A i \in 1..m : i \in 1..(m + 1)
      OBVIOUS
    <3>3. m + 1 \in 1..(m + 1)
      OBVIOUS
    <3> QED
      BY <2>6, <3>1, <3>2, <3>3 DEF key
  <2>9. At(m) = [k \in Key |-> At(m)[k]] /\ At(m + 1) = [k \in Key |-> At(m + 1)[k]]
    OBVIOUS
  <2> DEFINE f == At(m)
             g == At(m + 1)
  <2> HIDE DEF At, T
  <2>10. IsHashTree(SubtreeRoot(f), f) /\ IsHashTree(SubtreeRoot(g), g)
    BY <2>9, TotalTree
  <2>11. g[key] = to[key] /\ \A k \in Key : k # key => f[k] = g[k]
    BY <2>8
  <2>12. IsStore(old, SubtreeRoot(f))
    BY <2>2 DEF Matches
  <2> HIDE DEF f, g
  <2>13. IsStore(UpdateLeaf(old, key, g[key]), SubtreeRoot(g))
    BY <2>6, <2>10, <2>11, <2>12, UpdateExact
  <2> QED
    BY <2>5, <2>7, <2>11, <2>13 DEF Matches, g
<1>5. n \in T
  <2> HIDE DEF T
  <2> QED
    BY <1>1, <1>3, <1>4, Roots!NatInSet
<1>6. SubSeq(s, 1, n) = s
  BY <1>1, <1>2
<1>7. SmtUpdate(nodes, s) = Updates!Fold(0, nodes, s)
  BY DEF SmtUpdate, Updates!Fold, UpdateStep, FoldLeft, MapThenFoldSet, Updates!FoldLeft,
         Updates!MapThenFoldSet, Updates!Max, Max
<1>8. Matches(SmtUpdate(nodes, s), At(n))
  <2> HIDE DEF At
  <2>1. Matches(Updates!Fold(0, nodes, SubSeq(s, 1, n)), At(n))
    BY <1>1, <1>5
  <2> QED
    BY <1>6, <1>7, <2>1
<1> QED
  BY <1>1, <1>8 DEF s

(* A batch over all the keys whose accounts have changed.                  *)
LEMMA BatchMatches ==
    ASSUME NEW before, NEW after, NEW nodes, NEW keys \in Seq(Key),
           Matches(nodes, LeavesFor(before)),
           \A k \in Key :
             (\A i \in DOMAIN keys : keys[i] # k) => LeafFor(before, k) = LeafFor(after, k)
    PROVE  Matches(Batch(after, nodes, keys).nodes, LeavesFor(after))
<1> DEFINE from == LeavesFor(before)
           to == LeavesFor(after)
           mix == [k \in Key |-> IF \E i \in DOMAIN keys : keys[i] = k THEN to[k] ELSE from[k]]
<1>1. from = [k \in Key |-> from[k]]
  BY DEF LeavesFor
<1>2. mix = to
  BY DEF LeavesFor
<1>3. \A i \in DOMAIN keys : to[keys[i]] = LeafFor(after, keys[i])
  BY DEF LeavesFor
<1>4. [i \in DOMAIN keys |-> [key |-> keys[i], leaf |-> to[keys[i]]]]
        = [i \in DOMAIN keys |-> [key |-> keys[i], leaf |-> LeafFor(after, keys[i])]]
  BY <1>3
<1>5. Matches(SmtUpdate(nodes, [i \in DOMAIN keys |->
                [key |-> keys[i], leaf |-> to[keys[i]]]]), mix)
  <2> HIDE DEF from, to
  <2> QED
    BY <1>1, BatchExact DEF from
<1> HIDE DEF from, to, mix
<1> QED
  BY <1>2, <1>4, <1>5 DEF Batch, to

----------------------------------------------------------------------------
(* Balances.                                                               *)

(* An account is stored when it holds something.                           *)
BalancesOK(a) ==
    /\ DOMAIN a \subseteq Account
    /\ IsFiniteSet(DOMAIN a)
    /\ a \in [DOMAIN a -> Nat \ {0}]

(* What a key holds.                                                       *)
Bal(a, key) == IF key \in DOMAIN a THEN a[key] ELSE 0

(* The balance is a number, and determines the leaf.                       *)
LEMMA BalFacts ==
    ASSUME NEW a, BalancesOK(a), NEW k
    PROVE  /\ Bal(a, k) \in Nat
           /\ k \in DOMAIN a <=> Bal(a, k) # 0
           /\ k \in DOMAIN a => a[k] = Bal(a, k) /\ a[k] \in Nat \ {0}
           /\ LeafFor(a, k) = IF Bal(a, k) = 0 THEN EmptyLeaf ELSE LeafHash(k, Bal(a, k))
BY DEF BalancesOK, Bal, LeafFor

(* Balances determine the accounts.                                        *)
LEMMA SameBalances ==
    ASSUME NEW a, NEW b, BalancesOK(a), BalancesOK(b),
           \A k \in Account : Bal(a, k) = Bal(b, k)
    PROVE  a = b
<1>1. DOMAIN a \subseteq Account /\ DOMAIN b \subseteq Account
  BY DEF BalancesOK
<1>2. \A k : (k \in DOMAIN a <=> Bal(a, k) # 0) /\ (k \in DOMAIN b <=> Bal(b, k) # 0)
  BY BalFacts
<1>3. DOMAIN a = DOMAIN b
  BY <1>1, <1>2
<1>4. \A k \in DOMAIN a : a[k] = b[k]
  BY <1>1, <1>3 DEF Bal
<1>5. a = [k \in DOMAIN a |-> a[k]] /\ b = [k \in DOMAIN b |-> b[k]]
  BY DEF BalancesOK
<1> QED
  BY <1>3, <1>4, <1>5

(* The changes of a commit and the sums of balances as an instance.        *)
ChangeStep(p, a, c) == Change(a, c)

Changes == INSTANCE Folding WITH op <- ChangeStep, val <- BalanceIn

(* The total of the balances, as a sum.                                    *)
LEMMA TotalIsSum == \A a : Total(a) = Changes!Sum(a, DOMAIN a)
BY DEF Total, Changes!Sum, BalanceIn, Changes!MapThenSumSet, MapThenSumSet,
       Changes!MapThenFoldSet, MapThenFoldSet

(* A sum of balances is a number.                                          *)
LEMMA SumFacts ==
    ASSUME NEW a, BalancesOK(a), NEW S \in SUBSET DOMAIN a
    PROVE  /\ Changes!Sum(a, S) \in Nat
           /\ \A k \in S : Changes!Sum(a, S) = a[k] + Changes!Sum(a, S \ {k})
<1>1. IsFiniteSet(S)
  BY FS_Subset DEF BalancesOK
<1>2. \A k \in S : BalanceIn(a, k) \in Nat /\ BalanceIn(a, k) \in Int /\ BalanceIn(a, k) >= 0
  BY DEF BalancesOK, BalanceIn
<1>3. Changes!Numbers(a, S) /\ Changes!IsFiniteSet(S)
  BY <1>1, <1>2 DEF Changes!Numbers, Changes!IsFiniteSet, IsFiniteSet
<1>4. Changes!Sum(a, S) \in Int /\ Changes!Sum(a, S) >= 0
  BY <1>2, <1>3, Changes!SumType
<1>5. \A k \in S : Changes!Sum(a, S) = BalanceIn(a, k) + Changes!Sum(a, S \ {k})
  BY <1>3, Changes!SumRemove
<1> QED
  BY <1>4, <1>5 DEF BalanceIn

(* Equal balances, equal sums.                                             *)
LEMMA SumsSame ==
    ASSUME NEW a, NEW b, NEW S, IsFiniteSet(S), \A k \in S : a[k] = b[k]
    PROVE  Changes!Sum(a, S) = Changes!Sum(b, S)
<1>1. Changes!IsFiniteSet(S)
  BY DEF Changes!IsFiniteSet, IsFiniteSet
<1>2. \A k \in S : BalanceIn(a, k) = BalanceIn(b, k)
  BY DEF BalanceIn
<1> QED
  BY <1>1, <1>2, Changes!SumSame

(* An entry of a commit.                                                   *)
Entry == [key : Account, lamports : Nat]

(* A change to one account is to that one alone, and moves the total by as *)
(* much.                                                                   *)
LEMMA ChangeFacts ==
    ASSUME NEW a, BalancesOK(a), NEW c \in Entry
    PROVE  /\ BalancesOK(Change(a, c))
           /\ \A k : Bal(Change(a, c), k) = IF k = c.key THEN c.lamports ELSE Bal(a, k)
           /\ Total(a) \in Nat /\ Total(Change(a, c)) \in Nat
           /\ Total(Change(a, c)) + Bal(a, c.key) = Total(a) + c.lamports
<1> DEFINE key == c.key
           n == c.lamports
           b == Change(a, c)
           rest == DOMAIN a \ {key}
<1>1. key \in Account /\ n \in Nat
  BY DEF Entry
<1>2. /\ DOMAIN b = IF n = 0 THEN rest ELSE DOMAIN a \cup {key}
      /\ n # 0 => b[key] = n
      /\ \A k \in rest : b[k] = a[k]
      /\ b = [k \in DOMAIN b |-> b[k]]
  BY DEF Change, Restrict, Store, Override
<1> HIDE DEF b, key, n
<1>3. IsFiniteSet(rest) /\ IsFiniteSet(DOMAIN a) /\ IsFiniteSet(DOMAIN a \cup {key})
  BY FS_RemoveElement, FS_AddElement DEF BalancesOK
<1>4. DOMAIN b \subseteq Account /\ IsFiniteSet(DOMAIN b)
  BY <1>1, <1>2, <1>3 DEF BalancesOK
<1>5. \A k \in DOMAIN b : b[k] \in Nat \ {0}
  BY <1>1, <1>2 DEF BalancesOK
<1>6. BalancesOK(b)
  BY <1>2, <1>4, <1>5 DEF BalancesOK
<1>7. \A k : Bal(b, k) = IF k = key THEN n ELSE Bal(a, k)
  BY <1>2 DEF Bal
<1>8. Changes!Sum(b, rest) = Changes!Sum(a, rest)
  BY <1>2, <1>3, SumsSame
<1>9. Total(a) = Bal(a, key) + Changes!Sum(a, rest)
  <2>1. CASE key \in DOMAIN a
    <3>1. Total(a) = a[key] + Changes!Sum(a, rest)
      BY <2>1, TotalIsSum, SumFacts
    <3> QED
      BY <2>1, <3>1 DEF Bal
  <2>2. CASE key \notin DOMAIN a
    <3>1. rest = DOMAIN a
      BY <2>2
    <3>2. Changes!Sum(a, DOMAIN a) \in Nat
      BY SumFacts
    <3> HIDE DEF rest
    <3> QED
      BY <2>2, <3>1, <3>2, TotalIsSum DEF Bal
  <2> QED
    BY <2>1, <2>2
<1>10. Total(b) = n + Changes!Sum(b, rest)
  <2>1. CASE n = 0
    <3>1. Changes!Sum(b, DOMAIN b) \in Nat /\ DOMAIN b = rest
      BY <1>2, <1>6, <2>1, SumFacts
    <3> HIDE DEF rest
    <3> QED
      BY <2>1, <3>1, TotalIsSum
  <2>2. CASE n # 0
    <3>1. key \in DOMAIN b /\ DOMAIN b \ {key} = rest /\ b[key] = n
      BY <1>2, <2>2
    <3>2. Changes!Sum(b, DOMAIN b) = b[key] + Changes!Sum(b, DOMAIN b \ {key})
      BY <1>6, <3>1, SumFacts
    <3> HIDE DEF rest
    <3> QED
      BY <3>1, <3>2, TotalIsSum
  <2> QED
    BY <2>1, <2>2
<1>11. Changes!Sum(a, rest) \in Nat /\ Bal(a, key) \in Nat
  BY SumFacts, BalFacts
<1> HIDE DEF rest
<1>12. Total(a) \in Nat /\ Total(b) \in Nat /\ Total(b) + Bal(a, key) = Total(a) + n
  BY <1>1, <1>8, <1>9, <1>10, <1>11
<1> QED
  BY <1>6, <1>7, <1>12 DEF b, key, n

(* The fold of commit.                                                     *)
LEMMA ChangesFold == \A a, cs : FoldLeft(Change, a, cs) = Changes!Fold(0, a, cs)
BY DEF Changes!Fold, ChangeStep, FoldLeft, MapThenFoldSet, Changes!FoldLeft, Changes!MapThenFoldSet,
       Changes!Max, Max

(* One change.                                                             *)
LEMMA OneChange ==
    ASSUME NEW a, NEW c
    PROVE  Changes!Fold(0, a, <<c>>) = Change(a, c)
<1> DEFINE none == <<>>
<1>1. none \in Seq({c}) /\ <<c>> = Append(none, c)
  OBVIOUS
<1>2. Changes!Fold(0, a, none) = a
  BY Changes!FoldEmpty
<1> HIDE DEF none
<1>3. Changes!Fold(0, a, Append(none, c)) = Change(Changes!Fold(0, a, none), c)
  BY <1>1, Changes!FoldAppend DEF ChangeStep
<1> QED
  BY <1>1, <1>2, <1>3

(* The accounts after all the changes of a commit: those with no entry     *)
(* keep their balance, and when no key has two, each has that of its       *)
(* entry.                                                                  *)
LEMMA CommitAccounts ==
    ASSUME NEW a, BalancesOK(a), NEW cs \in Seq(Entry)
    PROVE  LET b == Changes!Fold(0, a, cs)
           IN  /\ BalancesOK(b)
               /\ \A k : (\A i \in DOMAIN cs : cs[i].key # k) => Bal(b, k) = Bal(a, k)
               /\ (\A i, j \in DOMAIN cs : cs[i].key = cs[j].key => i = j)
                    => \A i \in DOMAIN cs : Bal(b, cs[i].key) = cs[i].lamports
<1> DEFINE n == Len(cs)
           At(m) == Changes!Fold(0, a, SubSeq(cs, 1, m))
           Keeps(m) == \A k : (\A i \in 1..m : cs[i].key # k) => Bal(At(m), k) = Bal(a, k)
           Once == \A i, j \in DOMAIN cs : cs[i].key = cs[j].key => i = j
           Has(m) == Once => \A i \in 1..m : Bal(At(m), cs[i].key) = cs[i].lamports
           T == {m \in Nat : m <= n => BalancesOK(At(m)) /\ Keeps(m) /\ Has(m)}
<1>1. n \in Nat /\ DOMAIN cs = 1..n /\ \A i \in 1..n : cs[i] \in Entry
  OBVIOUS
<1>2. At(0) = a
  <2>1. SubSeq(cs, 1, 0) = <<>>
    OBVIOUS
  <2> QED
    BY <2>1, Changes!FoldEmpty
<1>3. \A m \in Nat : m + 1 <= n => At(m + 1) = Change(At(m), cs[m + 1])
  <2> TAKE m \in Nat
  <2> HAVE m + 1 <= n
  <2> DEFINE q == SubSeq(cs, 1, m)
             x == cs[m + 1]
  <2>1. SubSeq(cs, 1, m + 1) = Append(q, x) /\ q \in Seq(Entry) /\ x \in Entry
    BY <1>1
  <2> HIDE DEF q, x
  <2>2. Changes!Fold(0, a, Append(q, x)) = Change(Changes!Fold(0, a, q), x)
    BY <2>1, Changes!FoldAppend DEF ChangeStep
  <2> QED
    BY <2>1, <2>2 DEF q, x
<1> HIDE DEF At, n
<1>4. 0 \in T
  BY <1>2
<1>5. ASSUME NEW m \in Nat, m \in T PROVE m + 1 \in T
  <2> SUFFICES ASSUME m + 1 <= n PROVE BalancesOK(At(m + 1)) /\ Keeps(m + 1) /\ Has(m + 1)
    OBVIOUS
  <2> DEFINE b == At(m)
             c == cs[m + 1]
             e == At(m + 1)
  <2>1. BalancesOK(b) /\ Keeps(m) /\ Has(m)
    BY <1>1, <1>5
  <2>2. e = Change(b, c) /\ c \in Entry
    BY <1>1, <1>3
  <2>3. /\ BalancesOK(Change(b, c))
        /\ \A k : Bal(Change(b, c), k) = IF k = c.key THEN c.lamports ELSE Bal(b, k)
    <3> HIDE DEF b, c
    <3> QED
      BY <2>1, <2>2, ChangeFacts DEF b
  <2>4. \A k : Bal(e, k) = IF k = c.key THEN c.lamports ELSE Bal(b, k)
    BY <2>2, <2>3
  <2> HIDE DEF e
  <2>5. /\ \A i \in 1..(m + 1) : i \in 1..m \/ i = m + 1
        /\ \A i \in 1..m : i \in 1..(m + 1) /\ i # m + 1 /\ i \in DOMAIN cs
        /\ m + 1 \in 1..(m + 1) /\ m + 1 \in DOMAIN cs
    BY <1>1
  <2>6. Keeps(m + 1)
    BY <2>1, <2>4, <2>5 DEF e
  <2>7. Has(m + 1)
    <3> SUFFICES ASSUME Once, NEW i \in 1..(m + 1) PROVE Bal(e, cs[i].key) = cs[i].lamports
      BY DEF e
    <3>1. CASE i = m + 1
      BY <2>4, <3>1
    <3>2. CASE i \in 1..m
      <4>1. cs[i].key # c.key
        BY <2>5, <3>2
      <4> QED
        BY <2>1, <2>4, <3>2, <4>1
    <3> QED
      BY <2>5, <3>1, <3>2
  <2> QED
    BY <2>2, <2>3, <2>6, <2>7 DEF e
<1>6. n \in T
  <2> HIDE DEF T
  <2> QED
    BY <1>1, <1>4, <1>5, Roots!NatInSet
<1>7. BalancesOK(At(n)) /\ Keeps(n) /\ Has(n)
  BY <1>1, <1>6
<1>8. Changes!Fold(0, a, cs) = At(n)
  <2>1. SubSeq(cs, 1, n) = cs
    BY DEF n
  <2> QED
    BY <2>1 DEF At
<1> HIDE DEF T
<1> QED
  BY <1>1, <1>7, <1>8

----------------------------------------------------------------------------
(* The store.                                                              *)

(* Accounts and tree agree.                                                *)
DbOK(d) ==
    /\ d = [accounts |-> d.accounts, nodes |-> d.nodes]
    /\ BalancesOK(d.accounts)
    /\ Matches(d.nodes, LeavesFor(d.accounts))

(* A commit keeps accounts and tree in agreement.                          *)
LEMMA CommitOK ==
    ASSUME NEW d, DbOK(d), NEW cs \in Seq(Entry)
    PROVE  DbOK(Commit(d, cs)) /\ Commit(d, cs).accounts = Changes!Fold(0, d.accounts, cs)
<1> DEFINE b == Changes!Fold(0, d.accounts, cs)
           keys == [i \in DOMAIN cs |-> cs[i].key]
<1>1. /\ BalancesOK(b)
      /\ \A k : (\A i \in DOMAIN cs : cs[i].key # k) => Bal(b, k) = Bal(d.accounts, k)
  BY CommitAccounts DEF DbOK
<1>2. keys \in Seq(Key) /\ DOMAIN keys = DOMAIN cs /\ \A i \in DOMAIN cs : keys[i] = cs[i].key
  <2>1. \A i \in DOMAIN cs : cs[i].key \in Key
    <3>1. \A i \in DOMAIN cs : cs[i] \in Entry
      OBVIOUS
    <3>2. \A c \in Entry : c.key \in Account
      BY DEF Entry
    <3> QED
      BY <3>1, <3>2, LedgerAssumption
  <2>2. DOMAIN cs = 1..Len(cs) /\ Len(cs) \in Nat
    OBVIOUS
  <2> QED
    BY <2>1, <2>2
<1>3. Commit(d, cs) = Batch(b, d.nodes, keys)
  BY ChangesFold DEF Commit
<1> HIDE DEF b, keys
<1>4. ASSUME NEW k \in Key, \A i \in DOMAIN keys : keys[i] # k
      PROVE  LeafFor(d.accounts, k) = LeafFor(b, k)
  <2>1. Bal(b, k) = Bal(d.accounts, k)
    BY <1>1, <1>2, <1>4
  <2> QED
    BY <1>1, <2>1, BalFacts DEF DbOK
<1>5. Matches(Batch(b, d.nodes, keys).nodes, LeavesFor(b))
  BY <1>2, <1>4, BatchMatches DEF DbOK
<1>6. /\ Batch(b, d.nodes, keys).accounts = b
      /\ Batch(b, d.nodes, keys) = [accounts |-> Batch(b, d.nodes, keys).accounts,
                                    nodes    |-> Batch(b, d.nodes, keys).nodes]
  BY DEF Batch
<1> QED
  BY <1>1, <1>3, <1>5, <1>6 DEF DbOK, b

(* A commit of one change.                                                 *)
LEMMA CommitOne ==
    ASSUME NEW d, DbOK(d), NEW c \in Entry
    PROVE  DbOK(Commit(d, <<c>>)) /\ Commit(d, <<c>>).accounts = Change(d.accounts, c)
<1>1. <<c>> \in Seq(Entry)
  OBVIOUS
<1> QED
  BY <1>1, CommitOK, OneChange

(* A commit of two.                                                        *)
LEMMA CommitTwo ==
    ASSUME NEW d, DbOK(d), NEW c \in Entry, NEW e \in Entry
    PROVE  /\ DbOK(Commit(d, <<c, e>>))
           /\ Commit(d, <<c, e>>).accounts = Change(Change(d.accounts, c), e)
<1> DEFINE two == <<c, e>>
<1>1. two \in Seq(Entry)
  OBVIOUS
<1>2. Changes!Fold(0, d.accounts, two) = Change(Change(d.accounts, c), e)
  <2> DEFINE one == <<c>>
             a == d.accounts
  <2>1. one \in Seq(Entry) /\ two = Append(one, e)
    OBVIOUS
  <2>2. Changes!Fold(0, a, one) = Change(a, c)
    BY OneChange
  <2> HIDE DEF one, a, two
  <2>3. Changes!Fold(0, a, Append(one, e)) = Change(Changes!Fold(0, a, one), e)
    BY <2>1, Changes!FoldAppend DEF ChangeStep
  <2> QED
    BY <2>1, <2>2, <2>3 DEF a
<1> HIDE DEF two
<1>3. DbOK(Commit(d, two)) /\ Commit(d, two).accounts = Changes!Fold(0, d.accounts, two)
  BY <1>1, CommitOK
<1> QED
  BY <1>2, <1>3 DEF two

(* set, of more than nothing, is a commit of one change.                   *)
LEMMA SetIsCommit ==
    ASSUME NEW d, NEW key, NEW n \in Nat \ {0}
    PROVE  Set(d, key, n) = Commit(d, <<[key |-> key, lamports |-> n]>>)
<1> DEFINE c == [key |-> key, lamports |-> n]
           a == d.accounts
<1>1. c.key = key /\ c.lamports = n /\ n # 0
  OBVIOUS
<1> HIDE DEF c, a
<1>2. Changes!Fold(0, a, <<c>>) = Store(a, key, n)
  BY <1>1, OneChange DEF Change
<1>3. [i \in DOMAIN <<c>> |-> <<c>>[i].key] = <<key>>
  BY <1>1
<1> QED
  BY <1>2, <1>3, ChangesFold DEF Set, Commit, a, c

(* An empty store.                                                         *)
LEMMA EmptyOK ==
    /\ DbOK(EmptyDb) /\ \A k : Bal(EmptyDb.accounts, k) = 0
<1> DEFINE none == EmptyDb.accounts
           t == SubtreeRoot([k \in DOMAIN none |-> LeafFor(none, k)])
<1>1. none = <<>> /\ DOMAIN none = {} /\ EmptyDb.nodes = <<>>
  BY DEF EmptyDb
<1>2. BalancesOK(none) /\ \A k : Bal(none, k) = 0
  <2>1. none \in [{} -> Nat \ {0}]
    BY <1>1
  <2> QED
    BY <1>1, <2>1, FS_EmptySet DEF BalancesOK, Bal
<1>3. \A p \in Prefix : t[p] = Default[Len(p)]
  BY <1>1, RootEquation DEF RootDef
<1>4. t = SubtreeRoot(LeavesFor(none))
  BY <1>1, ScratchSame
<1> HIDE DEF t
<1>5. {p \in Prefix : t[p] # Default[Len(p)]} = {}
  BY <1>3
<1>6. <<>> = [id \in {p \in Prefix : t[p] # Default[Len(p)]} |-> t[id]]
  BY <1>5
<1>7. Matches(EmptyDb.nodes, LeavesFor(none))
  BY <1>1, <1>4, <1>6 DEF Matches, IsStore
<1>8. EmptyDb = [accounts |-> EmptyDb.accounts, nodes |-> EmptyDb.nodes]
  BY DEF EmptyDb
<1> QED
  BY <1>2, <1>7, <1>8 DEF DbOK

(* Equal balances, equal stores.                                           *)
LEMMA SameStores ==
    ASSUME NEW d, NEW e, DbOK(d), DbOK(e),
           \A k \in Account : Bal(d.accounts, k) = Bal(e.accounts, k)
    PROVE  d = e
<1>1. d.accounts = e.accounts
  BY SameBalances DEF DbOK
<1>2. d.nodes = e.nodes
  BY <1>1 DEF DbOK, Matches, IsStore
<1> QED
  BY <1>1, <1>2 DEF DbOK

(* A finite set as a sequence: each element once.                          *)
LEMMA SeqOfSet ==
    ASSUME NEW S, IsFiniteSet(S)
    PROVE  /\ SetToSeq(S) \in Seq(S)
           /\ \A i, j \in DOMAIN SetToSeq(S) : SetToSeq(S)[i] = SetToSeq(S)[j] => i = j
           /\ \A x \in S : \E i \in DOMAIN SetToSeq(S) : SetToSeq(S)[i] = x
<1> DEFINE n == Cardinality(S)
           f == SetToSeq(S)
<1>1. n \in Nat /\ ExistsBijection(1..n, S)
  BY FS_CardinalityType
<1>2. PICK g \in [1..n -> S] : IsInjective(g)
  BY <1>1 DEF ExistsBijection, Bijection, Injection
<1>3. f \in [1..n -> S] /\ IsInjective(f)
  BY <1>2 DEF SetToSeq
<1> HIDE DEF f
<1>4. f \in Injection(1..n, S)
  BY <1>3 DEF Injection
<1>5. Cardinality(1..n) = n
  <2>1. 1 \in Int /\ n \in Int
    BY <1>1
  <2>2. Cardinality(1..n) = IF 1 > n THEN 0 ELSE n - 1 + 1
    BY <2>1, FS_Interval
  <2> HIDE DEF n
  <2> QED
    BY <1>1, <2>2
<1>6. f \in Surjection(1..n, S)
  BY <1>4, <1>5, FS_Injection
<1>7. \A x \in S : \E i \in 1..n : f[i] = x
  BY <1>6 DEF Surjection
<1>8. f \in Seq(S) /\ DOMAIN f = 1..n
  BY <1>1, <1>3
<1>9. \A i, j \in DOMAIN f : f[i] = f[j] => i = j
  BY <1>3 DEF IsInjective
<1> QED
  BY <1>7, <1>8, <1>9 DEF f

(* The accounts of a dump, committed to an empty store, give the store     *)
(* that was dumped.                                                        *)
LEMMA DumpRestores ==
    ASSUME NEW d, DbOK(d)
    PROVE  Commit(EmptyDb, Dump(d)) = d
<1> DEFINE keys == SetToSeq(DOMAIN d.accounts)
           cs == Dump(d)
           e == Commit(EmptyDb, cs)
<1>1. /\ IsFiniteSet(DOMAIN d.accounts) /\ DOMAIN d.accounts \subseteq Account
      /\ BalancesOK(d.accounts)
  BY DEF DbOK, BalancesOK
<1>2. /\ keys \in Seq(DOMAIN d.accounts)
      /\ \A i, j \in DOMAIN keys : keys[i] = keys[j] => i = j
      /\ \A k \in DOMAIN d.accounts : \E i \in DOMAIN keys : keys[i] = k
  BY <1>1, SeqOfSet
<1>3. cs = [i \in DOMAIN keys |-> [key |-> keys[i], lamports |-> d.accounts[keys[i]]]]
  BY DEF Dump
<1> HIDE DEF keys, cs
<1>4. \A i \in DOMAIN keys : keys[i] \in DOMAIN d.accounts
  BY <1>2
<1>5. \A i \in DOMAIN keys : [key |-> keys[i], lamports |-> d.accounts[keys[i]]] \in Entry
  BY <1>1, <1>4, BalFacts DEF Entry
<1>6. DOMAIN keys = 1..Len(keys) /\ Len(keys) \in Nat
  BY <1>2
<1>7. /\ cs \in Seq(Entry) /\ DOMAIN cs = DOMAIN keys
      /\ \A i \in DOMAIN cs : cs[i].key = keys[i] /\ cs[i].lamports = d.accounts[keys[i]]
  BY <1>3, <1>5, <1>6
<1>8. DbOK(e) /\ e.accounts = Changes!Fold(0, EmptyDb.accounts, cs)
  BY <1>7, EmptyOK, CommitOK
<1>9. \A k : (\A i \in DOMAIN cs : cs[i].key # k) => Bal(e.accounts, k) = Bal(EmptyDb.accounts, k)
  BY <1>7, <1>8, EmptyOK, CommitAccounts DEF DbOK
<1>10. \A i \in DOMAIN cs : Bal(e.accounts, cs[i].key) = cs[i].lamports
  <2>1. \A i, j \in DOMAIN cs : cs[i].key = cs[j].key => i = j
    BY <1>2, <1>7
  <2> QED
    BY <1>7, <1>8, <2>1, EmptyOK, CommitAccounts DEF DbOK
<1> HIDE DEF e
<1>11. ASSUME NEW k \in Account PROVE Bal(e.accounts, k) = Bal(d.accounts, k)
  <2>1. CASE k \in DOMAIN d.accounts
    <3>1. PICK i \in DOMAIN keys : keys[i] = k
      BY <1>2, <2>1
    <3> QED
      BY <1>7, <1>10, <2>1, <3>1 DEF Bal
  <2>2. CASE k \notin DOMAIN d.accounts
    <3>1. \A i \in DOMAIN cs : cs[i].key # k
      BY <1>4, <1>7, <2>2
    <3> QED
      BY <1>9, <2>2, <3>1, EmptyOK DEF Bal
  <2> QED
    BY <2>1, <2>2
<1>12. e = d
  BY <1>8, <1>11, SameStores
<1> QED
  BY <1>12 DEF e, cs

----------------------------------------------------------------------------
(* The bank.                                                               *)

(* A balance is part of the total.                                         *)
LEMMA BalInTotal ==
    ASSUME NEW a, BalancesOK(a), NEW k
    PROVE  Total(a) \in Nat /\ Bal(a, k) \in Nat /\ Bal(a, k) <= Total(a)
<1>1. Bal(a, k) \in Nat
  BY BalFacts
<1>2. Total(a) \in Nat
  BY SumFacts, TotalIsSum
<1>3. CASE k \in DOMAIN a
  <2>1. Total(a) = a[k] + Changes!Sum(a, DOMAIN a \ {k})
    BY <1>3, SumFacts, TotalIsSum
  <2>2. Changes!Sum(a, DOMAIN a \ {k}) \in Nat /\ a[k] = Bal(a, k)
    BY <1>3, SumFacts, BalFacts
  <2> QED
    BY <1>1, <1>2, <2>1, <2>2
<1>4. CASE k \notin DOMAIN a
  BY <1>1, <1>2, <1>4 DEF Bal
<1> QED
  BY <1>1, <1>2, <1>3, <1>4

(* A sum below u64::MAX does not saturate.                                 *)
LEMMA SaturateSame ==
    ASSUME NEW n \in Nat, n <= MaxLamports
    PROVE  Saturate(n) = n
<1>1. MaxLamports \in Nat
  BY LedgerAssumption
<1> QED
  BY <1>1 DEF Saturate, Min

(* credit pays in full, as long as the sum fits.                           *)
LEMMA CreditFacts ==
    ASSUME NEW d, DbOK(d), NEW key \in Account, NEW n \in Nat,
           Bal(d.accounts, key) + n <= MaxLamports
    PROVE  /\ DbOK(Credit(d, key, n))
           /\ Total(Credit(d, key, n).accounts) = Total(d.accounts) + n
<1> DEFINE a == d.accounts
           m == Bal(a, key) + n
           c == [key |-> key, lamports |-> m]
<1>1. BalancesOK(a) /\ Bal(a, key) \in Nat /\ Total(a) \in Nat
  BY BalInTotal DEF DbOK
<1>2. CASE n = 0
  BY <1>1, <1>2 DEF Credit
<1>3. CASE n # 0
  <2>1. m \in Nat \ {0} /\ Saturate(m) = m /\ m = Bal(a, key) + n
    BY <1>1, <1>3, SaturateSame
  <2>2. Balance(d, key) = Bal(a, key)
    BY DEF Balance, Bal
  <2>3. Credit(d, key, n) = Set(d, key, m)
    BY <1>3, <2>1, <2>2 DEF Credit
  <2> HIDE DEF m
  <2>4. Set(d, key, m) = Commit(d, <<c>>)
    BY <2>1, SetIsCommit
  <2>5. c \in Entry /\ c.key = key /\ c.lamports = m
    BY <2>1 DEF Entry
  <2> HIDE DEF c, a
  <2>6. DbOK(Commit(d, <<c>>)) /\ Commit(d, <<c>>).accounts = Change(a, c)
    BY <2>5, CommitOne DEF a
  <2>7. Total(Change(a, c)) \in Nat /\ Total(Change(a, c)) + Bal(a, key) = Total(a) + m
    BY <1>1, <2>5, ChangeFacts
  <2>8. Total(Change(a, c)) = Total(a) + n
    BY <1>1, <2>1, <2>7
  <2> QED
    BY <2>3, <2>4, <2>6, <2>8 DEF a
<1> QED
  BY <1>2, <1>3

(* A transaction moves lamports between accounts, and takes its fee.       *)
LEMMA ExecuteFacts ==
    ASSUME NEW d, DbOK(d), NEW t \in Tx
    PROVE  /\ DbOK(ExecuteTransaction(d, t))
           /\ FeeOf(d, t) \in Nat
           /\ Total(ExecuteTransaction(d, t).accounts) + FeeOf(d, t) = Total(d.accounts)
<1> DEFINE a == d.accounts
           from == t.from
           to == t.to
           amount == t.amount
           paid == Bal(a, from)
<1>1. BalancesOK(a) /\ Total(a) \in Nat /\ paid \in Nat /\ Bal(a, to) \in Nat
  BY BalInTotal DEF DbOK
<1>2. from \in Account /\ to \in Account /\ amount \in Nat /\ Fee \in Nat
  BY LedgerAssumption
<1>3. Balance(d, from) = paid /\ Balance(d, to) = Bal(a, to)
  BY DEF Balance, Bal
<1>4. CASE Processed(d, t) = "executed"
  <2>1. paid >= Fee + amount
    BY <1>1, <1>2, <1>3, <1>4 DEF Processed
  <2>2. FeeOf(d, t) = Fee /\ ExecuteTransaction(d, t) = Commit(d, Writes(d, t))
    BY <1>4 DEF FeeOf, ExecuteTransaction
  <2>3. CASE from = to
    <3> DEFINE c == [key |-> from, lamports |-> paid - Fee - amount + amount]
    <3>1. Writes(d, t) = <<c>>
      BY <1>3, <2>3 DEF Writes
    <3>2. c.lamports = paid - Fee /\ c \in Entry /\ c.key = from
      BY <1>1, <1>2, <2>1 DEF Entry
    <3> HIDE DEF c
    <3>3. DbOK(Commit(d, <<c>>)) /\ Commit(d, <<c>>).accounts = Change(a, c)
      BY <3>2, CommitOne
    <3> HIDE DEF a, paid, from
    <3>4. Total(Change(a, c)) \in Nat /\ Total(Change(a, c)) + paid = Total(a) + (paid - Fee)
      BY <1>1, <3>2, ChangeFacts DEF paid
    <3>5. Total(Change(a, c)) + Fee = Total(a)
      BY <1>1, <1>2, <3>4
    <3> QED
      BY <1>2, <2>2, <3>1, <3>3, <3>5 DEF a
  <2>4. CASE from # to
    <3> DEFINE c == [key |-> from, lamports |-> paid - Fee - amount]
               e == [key |-> to, lamports |-> Bal(a, to) + amount]
               b == Change(a, c)
    <3>1. Writes(d, t) = <<c, e>>
      BY <1>3, <2>4 DEF Writes
    <3>2. /\ c \in Entry /\ c.key = from /\ c.lamports = paid - Fee - amount
          /\ e \in Entry /\ e.key = to /\ e.lamports = Bal(a, to) + amount
      BY <1>1, <1>2, <2>1 DEF Entry
    <3> HIDE DEF c, e
    <3>3. DbOK(Commit(d, <<c, e>>)) /\ Commit(d, <<c, e>>).accounts = Change(b, e)
      BY <3>2, CommitTwo
    <3> HIDE DEF a, paid, from, to
    <3>4. /\ BalancesOK(b) /\ Total(b) \in Nat /\ Bal(b, to) = Bal(a, to)
          /\ Total(b) + paid = Total(a) + (paid - Fee - amount)
      BY <1>1, <2>4, <3>2, ChangeFacts DEF paid
    <3> HIDE DEF b
    <3>5. /\ Total(Change(b, e)) \in Nat
          /\ Total(Change(b, e)) + Bal(a, to) = Total(b) + (Bal(a, to) + amount)
      BY <3>2, <3>4, ChangeFacts
    <3>6. Total(Change(b, e)) + Fee = Total(a)
      BY <1>1, <1>2, <3>4, <3>5
    <3> QED
      BY <1>2, <2>2, <3>1, <3>3, <3>6 DEF a
  <2> QED
    BY <2>3, <2>4
<1>5. CASE Processed(d, t) = "failed"
  <2>1. paid >= Fee
    BY <1>1, <1>2, <1>3, <1>5 DEF Processed
  <2>2. FeeOf(d, t) = Fee /\ ExecuteTransaction(d, t) = Commit(d, Rollback(d, t))
    BY <1>5 DEF FeeOf, ExecuteTransaction
  <2> DEFINE c == [key |-> from, lamports |-> paid - Fee]
  <2>3. Rollback(d, t) = <<c>>
    BY <1>3 DEF Rollback
  <2>4. c.lamports = paid - Fee /\ c \in Entry /\ c.key = from
    BY <1>1, <1>2, <2>1 DEF Entry
  <2> HIDE DEF c
  <2>5. DbOK(Commit(d, <<c>>)) /\ Commit(d, <<c>>).accounts = Change(a, c)
    BY <2>4, CommitOne
  <2> HIDE DEF a, paid, from
  <2>6. Total(Change(a, c)) \in Nat /\ Total(Change(a, c)) + paid = Total(a) + (paid - Fee)
    BY <1>1, <2>4, ChangeFacts DEF paid
  <2>7. Total(Change(a, c)) + Fee = Total(a)
    BY <1>1, <1>2, <2>6
  <2> QED
    BY <1>2, <2>2, <2>3, <2>5, <2>7 DEF a
<1>6. CASE Processed(d, t) \notin {"executed", "failed"}
  <2>1. FeeOf(d, t) = 0 /\ ExecuteTransaction(d, t) = d
    BY <1>6 DEF FeeOf, ExecuteTransaction
  <2> QED
    BY <1>1, <2>1
<1> QED
  BY <1>4, <1>5, <1>6

(* The allocations of the genesis as an instance.                          *)
AllocateStep(p, d, k) == Allocate(d, k)

Allocations == INSTANCE Folding WITH op <- AllocateStep, val <- BalanceIn

(* Genesis allocates each account once.                                    *)
LEMMA GenesisFacts == DbOK(Genesis) /\ Genesis.accounts = Allocation
<1> DEFINE S == DOMAIN Allocation
           keys == SetToSeq(S)
           n == Len(keys)
           At(m) == Allocations!Fold(0, EmptyDb, SubSeq(keys, 1, m))
           Has(m) == \A k : Bal(At(m).accounts, k) =
                              IF \E i \in 1..m : keys[i] = k THEN Allocation[k] ELSE 0
           T == {m \in Nat : m <= n => DbOK(At(m)) /\ Has(m)}
<1>1. /\ IsFiniteSet(S) /\ S \subseteq Account
      /\ \A k \in S : Allocation[k] \in Nat \ {0}
      /\ BalancesOK(Allocation)
  BY LedgerAssumption DEF BalancesOK
<1>2. keys \in Seq(S) /\ \A k \in S : \E i \in DOMAIN keys : keys[i] = k
  BY <1>1, SeqOfSet
<1>3. Genesis = Allocations!Fold(0, EmptyDb, keys)
  BY DEF Genesis, Allocations!Fold, AllocateStep, FoldLeft, MapThenFoldSet, Allocations!FoldLeft,
         Allocations!MapThenFoldSet, Allocations!Max, Max
<1> HIDE DEF keys
<1>4. /\ n \in Nat /\ DOMAIN keys = 1..n
      /\ (\A i \in 1..n : keys[i] \in S) /\ SubSeq(keys, 1, n) = keys
  BY <1>2
<1>5. At(0) = EmptyDb
  <2>1. SubSeq(keys, 1, 0) = <<>>
    BY <1>2
  <2> QED
    BY <2>1, Allocations!FoldEmpty
<1>6. \A m \in Nat : m + 1 <= n => At(m + 1) = Allocate(At(m), keys[m + 1])
  <2> TAKE m \in Nat
  <2> HAVE m + 1 <= n
  <2> DEFINE q == SubSeq(keys, 1, m)
             x == keys[m + 1]
  <2>1. SubSeq(keys, 1, m + 1) = Append(q, x) /\ q \in Seq(S) /\ x \in S
    BY <1>2, <1>4
  <2> HIDE DEF q, x, S
  <2>2. Allocations!Fold(0, EmptyDb, Append(q, x)) = Allocate(Allocations!Fold(0, EmptyDb, q), x)
    BY <2>1, Allocations!FoldAppend DEF AllocateStep
  <2> QED
    BY <2>1, <2>2 DEF q, x
<1> HIDE DEF At, n
<1>7. 0 \in T
  BY <1>5, EmptyOK
<1>8. ASSUME NEW m \in Nat, m \in T PROVE m + 1 \in T
  <2> SUFFICES ASSUME m + 1 <= n PROVE DbOK(At(m + 1)) /\ Has(m + 1)
    OBVIOUS
  <2> DEFINE d == At(m)
             key == keys[m + 1]
             v == Allocation[key]
             c == [key |-> key, lamports |-> v]
             e == At(m + 1)
  <2>1. DbOK(d) /\ Has(m)
    BY <1>4, <1>8
  <2>2. key \in S /\ key \in Account /\ v \in Nat \ {0}
    BY <1>1, <1>4
  <2>3. e = Set(d, key, v)
    BY <1>6 DEF Allocate
  <2>4. c \in Entry /\ c.key = key /\ c.lamports = v
    BY <2>2 DEF Entry
  <2> HIDE DEF d, key, v, e
  <2>5. e = Commit(d, <<c>>)
    BY <2>2, <2>3, SetIsCommit
  <2> HIDE DEF c
  <2>6. DbOK(e) /\ e.accounts = Change(d.accounts, c)
    BY <2>1, <2>4, <2>5, CommitOne
  <2>7. \A k : Bal(e.accounts, k) = IF k = key THEN v ELSE Bal(d.accounts, k)
    <3> DEFINE a == d.accounts
    <3>1. BalancesOK(a)
      BY <2>1 DEF DbOK
    <3> HIDE DEF a
    <3>2. \A k : Bal(Change(a, c), k) = IF k = c.key THEN c.lamports ELSE Bal(a, k)
      BY <2>4, <3>1, ChangeFacts
    <3> QED
      BY <2>4, <2>6, <3>2 DEF a
  <2>8. /\ \A i \in 1..(m + 1) : i \in 1..m \/ i = m + 1
        /\ \A i \in 1..m : i \in 1..(m + 1)
        /\ m + 1 \in 1..(m + 1)
    OBVIOUS
  <2>9. Has(m + 1)
    <3> SUFFICES ASSUME NEW k
                 PROVE  Bal(e.accounts, k) =
                          IF \E i \in 1..(m + 1) : keys[i] = k THEN Allocation[k] ELSE 0
      BY DEF e
    <3>1. Bal(d.accounts, k) = IF \E i \in 1..m : keys[i] = k THEN Allocation[k] ELSE 0
      BY <2>1 DEF d
    <3> QED
      BY <2>7, <2>8, <3>1 DEF key, v
  <2> QED
    BY <2>6, <2>9 DEF e
<1>9. n \in T
  <2> HIDE DEF T
  <2> QED
    BY <1>4, <1>7, <1>8, Roots!NatInSet
<1>10. DbOK(At(n)) /\ Has(n) /\ Genesis = At(n)
  <2>1. Genesis = At(n)
    BY <1>3, <1>4 DEF At
  <2> QED
    BY <1>4, <1>9, <2>1
<1>11. \A k \in Account : Bal(At(n).accounts, k) = Bal(Allocation, k)
  BY <1>2, <1>4, <1>10 DEF Bal
<1>12. At(n).accounts = Allocation
  BY <1>1, <1>10, <1>11, SameBalances DEF DbOK
<1> QED
  BY <1>10, <1>12

----------------------------------------------------------------------------
(* The inductive invariant.                                                *)

TypeOK ==
    /\ dag \in BOOLEAN
    /\ minted \in Nat /\ burned \in Nat /\ blocks \in 0..MaxBlocks
    /\ \/ block = Idle
       \/ block \in [on : {TRUE}, miner : Account, reward : Rewards, fees : Nat, txs : Nat]

(* The reward that the block has not paid yet.                             *)
Owed == IF block.on /\ ~dag THEN block.reward ELSE 0

(* What has been paid, and is owed, is at most as many times a reward as   *)
(* there were blocks.  With the supply conserved, no sum saturates.        *)
Emitted ==
    \/ blocks = 0 /\ minted = 0 /\ ~block.on
    \/ \E r \in Rewards : minted + Owed <= blocks * r

(* replay_blocks collects no fees.                                         *)
DropsFees == dag /\ block.on => block.fees = 0

LedgerInv == TypeOK /\ DbOK(db) /\ Emitted /\ DropsFees /\ SupplyConserved

(* Emission stays below the largest amount.                                *)
LEMMA EmissionFits ==
    ASSUME NEW b \in 0..MaxBlocks, NEW r \in Rewards, NEW x \in Nat, x <= b * r
    PROVE  Total(Allocation) \in Nat /\ Total(Allocation) + x <= MaxLamports
<1>1. r \in Nat /\ MaxBlocks \in Nat /\ MaxLamports \in Nat
  BY LedgerAssumption
<1>2. Total(Allocation) \in Nat
  BY GenesisFacts, BalInTotal DEF DbOK
<1>3. Total(Allocation) + MaxBlocks * r <= MaxLamports
  BY LedgerAssumption
<1>4. b * r <= MaxBlocks * r /\ b * r \in Nat /\ MaxBlocks * r \in Nat
  BY <1>1
<1> QED
  BY <1>1, <1>2, <1>3, <1>4

(* One more block emits at most one more reward.                           *)
LEMMA EmissionGrows ==
    ASSUME NEW b \in Nat, NEW x \in Nat, NEW r \in Rewards,
           (b = 0 /\ x = 0) \/ \E q \in Rewards : x <= b * q
    PROVE  \E q \in Rewards : x + r <= (b + 1) * q
<1>1. Rewards \subseteq Nat
  BY LedgerAssumption
<1>2. CASE b = 0 /\ x = 0
  <2>1. x + r <= (b + 1) * r
    BY <1>1, <1>2
  <2> QED
    BY <2>1
<1>3. CASE \E q \in Rewards : x <= b * q
  <2>1. PICK q \in Rewards : x <= b * q
    BY <1>3
  <2>2. q \in Nat /\ r \in Nat /\ b * q \in Nat /\ b * r \in Nat
    BY <1>1
  <2>3. (b + 1) * q = b * q + q /\ (b + 1) * r = b * r + r
    BY <2>2
  <2>4. CASE q >= r
    <3>1. x + r <= (b + 1) * q
      BY <2>1, <2>2, <2>3, <2>4
    <3> QED
      BY <3>1
  <2>5. CASE q < r
    <3>1. b * q <= b * r
      BY <2>2, <2>5
    <3>2. x + r <= (b + 1) * r
      BY <2>1, <2>2, <2>3, <3>1
    <3> QED
      BY <3>2
  <2> QED
    BY <2>2, <2>4, <2>5
<1> QED
  BY <1>2, <1>3

(* The invariant holds of the genesis ...                                  *)
LEMMA LedgerInit == Init => LedgerInv
<1> SUFFICES ASSUME Init PROVE LedgerInv
  OBVIOUS
<1>1. ~block.on /\ block = Idle
  BY DEF Init, Idle
<1>2. TypeOK
  BY <1>1, LedgerAssumption DEF Init, TypeOK
<1>3. DbOK(db) /\ Total(db.accounts) = Total(Allocation) /\ Total(Allocation) \in Nat
  BY GenesisFacts, BalInTotal DEF Init, DbOK
<1>4. SupplyConserved
  BY <1>1, <1>3 DEF Init, SupplyConserved
<1>5. Emitted /\ DropsFees
  BY <1>1 DEF Init, Emitted, DropsFees
<1> QED
  BY <1>2, <1>3, <1>4, <1>5 DEF LedgerInv

(* ... is kept when a block begins,                                        *)
LEMMA BeginKeeps ==
    ASSUME LedgerInv, NEW m \in Account, NEW r \in Rewards, BeginBlock(m, r)
    PROVE  LedgerInv'
<1> DEFINE supply == Total(db.accounts)
           all == Total(Allocation)
<1>1. /\ dag \in BOOLEAN /\ minted \in Nat /\ burned \in Nat /\ blocks \in 0..MaxBlocks
      /\ blocks \in Nat /\ r \in Nat /\ MaxLamports \in Nat /\ MaxBlocks \in Nat
  BY LedgerAssumption DEF LedgerInv, TypeOK
<1>2. /\ ~block.on /\ blocks < MaxBlocks /\ blocks' = blocks + 1
      /\ block' = [on |-> TRUE, miner |-> m, reward |-> r, fees |-> 0, txs |-> 0]
      /\ db' = IF dag THEN Credit(db, m, r) ELSE db
      /\ minted' = IF dag THEN minted + r ELSE minted
      /\ dag' = dag /\ burned' = burned
  BY DEF BeginBlock
<1>3. block'.on /\ block'.fees = 0 /\ block'.reward = r
  BY <1>2
<1>4. PICK q \in Rewards : minted + r <= (blocks + 1) * q
  <2>1. (blocks = 0 /\ minted = 0) \/ \E s \in Rewards : minted <= blocks * s
    BY <1>1, <1>2 DEF LedgerInv, Emitted, Owed
  <2> QED
    BY <1>1, <2>1, EmissionGrows
<1>5. all \in Nat /\ all + (minted + r) <= MaxLamports
  <2>1. blocks + 1 \in 0..MaxBlocks /\ minted + r \in Nat
    BY <1>1, <1>2
  <2> QED
    BY <1>4, <2>1, EmissionFits
<1>6. supply + burned = all + minted
  <2>1. Total(db.accounts) + 0 + burned = Total(Allocation) + minted
    BY <1>2 DEF LedgerInv, SupplyConserved
  <2>2. supply \in Nat
    BY BalInTotal DEF LedgerInv, DbOK
  <2> QED
    BY <1>1, <2>1, <2>2
<1>7. supply \in Nat /\ Bal(db.accounts, m) \in Nat /\ Bal(db.accounts, m) <= supply
  BY BalInTotal DEF LedgerInv, DbOK
<1>8. Bal(db.accounts, m) + r <= MaxLamports
  <2> HIDE DEF supply, all
  <2> QED
    BY <1>1, <1>5, <1>6, <1>7
<1>9. /\ DbOK(Credit(db, m, r))
      /\ Total(Credit(db, m, r).accounts) = supply + r
  BY <1>1, <1>8, CreditFacts DEF LedgerInv
<1>10. DbOK(db')
  BY <1>2, <1>9 DEF LedgerInv
<1>11. TypeOK'
  <2>1. block' \in [on : {TRUE}, miner : Account, reward : Rewards, fees : Nat, txs : Nat]
    BY <1>2
  <2>2. minted' \in Nat /\ blocks' \in 0..MaxBlocks
    BY <1>1, <1>2
  <2> QED
    BY <1>1, <1>2, <2>1, <2>2 DEF TypeOK
<1>12. Emitted'
  <2>1. minted' + Owed' = minted + r
    BY <1>1, <1>2, <1>3 DEF Owed
  <2>2. minted' + Owed' <= blocks' * q
    BY <1>2, <1>4, <2>1
  <2> QED
    BY <2>2 DEF Emitted
<1>13. SupplyConserved'
  <2>1. Total(db'.accounts) + 0 + burned = all + minted'
    <3> HIDE DEF all
    <3>1. CASE dag
      <4>1. Total(db'.accounts) = supply + r
        BY <1>2, <1>9, <3>1
      <4> HIDE DEF supply
      <4> QED
        BY <1>1, <1>2, <1>5, <1>6, <1>7, <3>1, <4>1
    <3>2. CASE ~dag
      <4>1. Total(db'.accounts) = supply
        BY <1>2, <3>2
      <4> HIDE DEF supply
      <4> QED
        BY <1>1, <1>2, <1>5, <1>6, <1>7, <3>2, <4>1
    <3> QED
      BY <3>1, <3>2
  <2> QED
    BY <1>2, <1>3, <2>1 DEF SupplyConserved
<1> QED
  BY <1>3, <1>10, <1>11, <1>12, <1>13 DEF LedgerInv, DropsFees

(* What the invariant says while a block is on.                            *)
LEMMA OnBlock ==
    ASSUME LedgerInv, block.on
    PROVE  /\ block \in [on : {TRUE}, miner : Account, reward : Rewards, fees : Nat, txs : Nat]
           /\ dag \in BOOLEAN /\ minted \in Nat /\ burned \in Nat /\ blocks \in 0..MaxBlocks
           /\ block.fees \in Nat /\ block.reward \in Nat /\ block.miner \in Account
           /\ Total(Allocation) \in Nat /\ Total(db.accounts) \in Nat
           /\ Total(db.accounts) + block.fees + burned = Total(Allocation) + minted
           /\ Total(Allocation) + minted + Owed <= MaxLamports
           /\ Owed \in Nat /\ MaxLamports \in Nat
           /\ \E r \in Rewards : minted + Owed <= blocks * r
<1>1. block # Idle
  BY DEF Idle
<1>2. /\ block \in [on : {TRUE}, miner : Account, reward : Rewards, fees : Nat, txs : Nat]
      /\ dag \in BOOLEAN /\ minted \in Nat /\ burned \in Nat /\ blocks \in 0..MaxBlocks
  BY <1>1 DEF LedgerInv, TypeOK
<1>3. Rewards \subseteq Nat /\ MaxLamports \in Nat
  BY LedgerAssumption
<1>4. block.fees \in Nat /\ block.reward \in Nat /\ block.miner \in Account /\ Owed \in Nat
  BY <1>2, <1>3 DEF Owed
<1>5. PICK r \in Rewards : minted + Owed <= blocks * r
  BY DEF LedgerInv, Emitted
<1>6. Total(Allocation) \in Nat /\ Total(Allocation) + (minted + Owed) <= MaxLamports
  <2>1. minted + Owed \in Nat
    BY <1>2, <1>4
  <2> QED
    BY <1>2, <1>5, <2>1, EmissionFits
<1>7. Total(db.accounts) \in Nat
  BY BalInTotal DEF LedgerInv, DbOK
<1>8. Total(db.accounts) + block.fees + burned = Total(Allocation) + minted
  BY DEF LedgerInv, SupplyConserved
<1>9. Total(Allocation) + minted + Owed <= MaxLamports
  BY <1>2, <1>3, <1>4, <1>6
<1>10. \E q \in Rewards : minted + Owed <= blocks * q
  BY <1>5
<1> QED
  BY <1>2, <1>3, <1>4, <1>6, <1>7, <1>8, <1>9, <1>10, Zenon

(* by each of its transactions, ...                                        *)
LEMMA ExecuteKeeps ==
    ASSUME LedgerInv, NEW t \in Tx, Execute(t)
    PROVE  LedgerInv'
<1> DEFINE supply == Total(db.accounts)
           all == Total(Allocation)
           fee == FeeOf(db, t)
<1>1. /\ block.on /\ db' = ExecuteTransaction(db, t)
      /\ block' = [block EXCEPT !.txs = @ + 1, !.fees = IF dag THEN @ ELSE Saturate(@ + fee)]
      /\ burned' = IF dag THEN burned + fee ELSE burned
      /\ dag' = dag /\ minted' = minted /\ blocks' = blocks
  BY DEF Execute
<1>2. /\ block \in [on : {TRUE}, miner : Account, reward : Rewards, fees : Nat, txs : Nat]
      /\ dag \in BOOLEAN /\ minted \in Nat /\ burned \in Nat /\ blocks \in 0..MaxBlocks
      /\ block.fees \in Nat /\ all \in Nat /\ supply \in Nat
      /\ supply + block.fees + burned = all + minted
      /\ all + minted + Owed <= MaxLamports
      /\ Owed \in Nat /\ MaxLamports \in Nat
  BY <1>1, OnBlock
<1>3. DbOK(db') /\ fee \in Nat /\ Total(db'.accounts) + fee = supply
  BY <1>1, ExecuteFacts DEF LedgerInv
<1>4. Total(db'.accounts) \in Nat
  BY <1>3, BalInTotal DEF DbOK
<1> HIDE DEF supply, all, fee
<1>5. Saturate(block.fees + fee) = block.fees + fee
  <2>1. block.fees + fee \in Nat /\ block.fees + fee <= MaxLamports
    BY <1>2, <1>3, <1>4
  <2> QED
    BY <2>1, SaturateSame
<1>6. /\ block' \in [on : {TRUE}, miner : Account, reward : Rewards, fees : Nat, txs : Nat]
      /\ block'.on /\ block'.reward = block.reward
      /\ block'.fees = IF dag THEN block.fees ELSE block.fees + fee
  <2> DEFINE f == IF dag THEN block.fees ELSE block.fees + fee
             n == block.txs + 1
  <2>1. f \in Nat /\ n \in Nat
    BY <1>2, <1>3
  <2>2. block' = [block EXCEPT !.txs = n, !.fees = f]
    BY <1>1, <1>5
  <2> HIDE DEF f, n
  <2>3. /\ block' \in [on : {TRUE}, miner : Account, reward : Rewards, fees : Nat, txs : Nat]
        /\ block'.on /\ block'.reward = block.reward /\ block'.fees = f
    BY <1>2, <2>1, <2>2
  <2> QED
    BY <2>3 DEF f
<1>7. TypeOK'
  <2>1. burned' \in Nat
    BY <1>1, <1>2, <1>3
  <2> QED
    BY <1>1, <1>2, <1>6, <2>1 DEF TypeOK
<1>8. Emitted'
  <2>1. Owed' = Owed
    BY <1>1, <1>6 DEF Owed
  <2>2. \E r \in Rewards : minted + Owed <= blocks * r
    BY <1>1, OnBlock
  <2> QED
    BY <1>1, <2>1, <2>2 DEF Emitted
<1>9. SupplyConserved'
  <2>1. Total(db'.accounts) + block'.fees + burned' = all + minted'
    BY <1>1, <1>2, <1>3, <1>4, <1>6
  <2> QED
    BY <1>6, <2>1 DEF SupplyConserved, all
<1>10. DropsFees'
  BY <1>1, <1>6 DEF LedgerInv, DropsFees
<1> QED
  BY <1>3, <1>7, <1>8, <1>9, <1>10 DEF LedgerInv

(* when replay_blocks gives up, ...                                        *)
LEMMA AbortKeeps ==
    ASSUME LedgerInv, NEW t \in Tx, Abort(t)
    PROVE  LedgerInv'
<1>1. /\ block.on /\ dag /\ block' = Idle /\ ~block'.on
      /\ dag' = dag /\ db' = db /\ minted' = minted /\ burned' = burned /\ blocks' = blocks
  BY DEF Abort, Idle
<1>2. TypeOK'
  BY <1>1 DEF LedgerInv, TypeOK
<1>3. Owed = 0 /\ Owed' = 0
  BY <1>1 DEF Owed
<1>4. Emitted'
  <2>1. \E r \in Rewards : minted + Owed <= blocks * r
    BY <1>1, OnBlock
  <2> QED
    BY <1>1, <1>3, <2>1 DEF Emitted
<1>5. SupplyConserved'
  BY <1>1 DEF LedgerInv, DropsFees, SupplyConserved
<1> QED
  BY <1>1, <1>2, <1>4, <1>5 DEF LedgerInv, DropsFees

(* and by the coinbase.                                                    *)
LEMMA EndKeeps ==
    ASSUME LedgerInv, EndBlock
    PROVE  LedgerInv'
<1> DEFINE supply == Total(db.accounts)
           all == Total(Allocation)
           reward == block.reward
           fees == block.fees
           held == Bal(db.accounts, block.miner)
<1>1. /\ block.on
      /\ db' = IF dag THEN db ELSE Credit(db, block.miner, Coinbase)
      /\ minted' = IF dag THEN minted ELSE minted + block.reward
      /\ block' = Idle /\ ~block'.on
      /\ dag' = dag /\ burned' = burned /\ blocks' = blocks
  BY DEF EndBlock, Idle
<1>2. /\ dag \in BOOLEAN /\ minted \in Nat /\ burned \in Nat /\ blocks \in 0..MaxBlocks
      /\ fees \in Nat /\ reward \in Nat /\ block.miner \in Account
      /\ all \in Nat /\ supply \in Nat
      /\ supply + fees + burned = all + minted
      /\ all + minted + Owed <= MaxLamports
      /\ Owed \in Nat /\ MaxLamports \in Nat
  BY <1>1, OnBlock
<1>3. held \in Nat /\ held <= supply
  BY BalInTotal DEF LedgerInv, DbOK
<1>4. Owed = IF dag THEN 0 ELSE reward
  BY <1>1, <1>2 DEF Owed
<1>5. Owed' = 0
  BY <1>1 DEF Owed
<1>6. ASSUME ~dag
      PROVE  DbOK(Credit(db, block.miner, Coinbase))
             /\ Total(Credit(db, block.miner, Coinbase).accounts) = supply + (reward + fees)
  <2>1. /\ reward + fees \in Nat /\ reward + fees <= MaxLamports
        /\ held + (reward + fees) <= MaxLamports
    <3> HIDE DEF supply, all, reward, fees, held
    <3> QED
      BY <1>2, <1>3, <1>4, <1>6
  <2>2. Coinbase = reward + fees
    BY <2>1, SaturateSame DEF Coinbase
  <2> QED
    BY <1>2, <2>1, <2>2, CreditFacts DEF LedgerInv
<1>7. DbOK(db')
  BY <1>1, <1>2, <1>6 DEF LedgerInv
<1>8. minted' = minted + Owed
  BY <1>1, <1>2, <1>4
<1>9. TypeOK'
  <2>1. minted' \in Nat
    BY <1>2, <1>8
  <2> QED
    BY <1>1, <1>2, <2>1 DEF TypeOK
<1>10. Emitted'
  <2>1. \E r \in Rewards : minted + Owed <= blocks * r
    BY <1>1, OnBlock
  <2>2. minted' + Owed' = minted + Owed
    BY <1>2, <1>5, <1>8
  <2> QED
    BY <1>1, <2>1, <2>2 DEF Emitted
<1>11. SupplyConserved'
  <2>1. Total(db'.accounts) + 0 + burned' = all + minted'
    <3>1. CASE dag
      <4>1. db' = db /\ minted' = minted /\ fees = 0
        BY <1>1, <3>1 DEF LedgerInv, DropsFees
      <4>2. Total(db'.accounts) = supply
        BY <4>1
      <4> HIDE DEF supply, all, fees
      <4> QED
        BY <1>1, <1>2, <4>1, <4>2
    <3>2. CASE ~dag
      <4>1. Total(db'.accounts) = supply + (reward + fees) /\ minted' = minted + reward
        BY <1>1, <1>6, <3>2
      <4> HIDE DEF supply, all, fees, reward
      <4> QED
        BY <1>1, <1>2, <4>1
    <3> QED
      BY <1>2, <3>1, <3>2
  <2> QED
    BY <1>1, <2>1 DEF SupplyConserved
<1>12. DropsFees'
  BY <1>1 DEF DropsFees
<1> QED
  BY <1>7, <1>9, <1>10, <1>11, <1>12 DEF LedgerInv

(* The inductive invariant: the store is sound, nothing saturates, and the *)
(* supply adds up.                                                         *)
THEOREM LedgerSound == Spec => []LedgerInv
<1>1. Init => LedgerInv
  BY LedgerInit
<1>2. LedgerInv /\ [Next]_vars => LedgerInv'
  <2> SUFFICES ASSUME LedgerInv, [Next]_vars PROVE LedgerInv'
    OBVIOUS
  <2>1. CASE \E m \in Account, r \in Rewards : BeginBlock(m, r)
    BY <2>1, BeginKeeps
  <2>2. CASE \E t \in Tx : Execute(t)
    BY <2>2, ExecuteKeeps
  <2>3. CASE \E t \in Tx : Abort(t)
    BY <2>3, AbortKeeps
  <2>4. CASE EndBlock
    BY <2>4, EndKeeps
  <2>5. CASE UNCHANGED vars
    BY <2>5 DEF vars, LedgerInv, TypeOK, Emitted, Owed, DropsFees, SupplyConserved
  <2> QED
    BY <2>1, <2>2, <2>3, <2>4, <2>5 DEF Next
<1> QED
  BY <1>1, <1>2, PTL DEF Spec

----------------------------------------------------------------------------
(* The properties.                                                         *)

(* The keys of the accounts are keys of the tree.                          *)
LEMMA AccountsAreKeys ==
    ASSUME NEW d, DbOK(d)
    PROVE  /\ DOMAIN d.accounts \subseteq Key
           /\ SubtreeRoot(Leaves(d)) = SubtreeRoot(LeavesFor(d.accounts))
<1>1. DOMAIN d.accounts \subseteq Key
  BY LedgerAssumption DEF DbOK, BalancesOK
<1> QED
  BY <1>1, ScratchSame DEF Leaves

(* The tree that update_leaf keeps in the store through any history of     *)
(* blocks is the one computed from scratch over the accounts, with no      *)
(* default node stored (smt.rs, accounts_db.rs).                           *)
THEOREM TreeAlwaysMatches == Spec => []TreeMatches
<1>1. LedgerInv => TreeMatches
  BY AccountsAreKeys DEF LedgerInv, DbOK, Matches, IsStore, TreeMatches
<1> QED
  BY <1>1, LedgerSound, PTL

(* A proof from the store verifies, against the root of the store, exactly *)
(* for the leaf of the account it holds and with its own siblings          *)
(* (accounts_db.rs prove, smt.rs verify).                                  *)
THEOREM ProofsAlwaysExact == Spec => []ProofsExact
<1>1. LedgerInv => ProofsExact
  <2> SUFFICES ASSUME LedgerInv, NEW k \in Key, NEW j \in Key, NEW leaf
               PROVE  Verify(StateRoot(db), j, leaf, StoredProof(db.nodes, k))
                        <=> leaf = LeafFor(db.accounts, j)
                            /\ StoredProof(db.nodes, k) = Proof(Leaves(db), j)
    BY DEF ProofsExact
  <2> DEFINE g == LeavesFor(db.accounts)
             u == SubtreeRoot(g)
             siblings == StoredProof(db.nodes, k)
             own == Proof(Leaves(db), j)
  <2>1. g = [i \in Key |-> g[i]] /\ g[j] = LeafFor(db.accounts, j)
    BY DEF LeavesFor
  <2>2. IsStore(db.nodes, u)
    BY DEF LedgerInv, DbOK, Matches
  <2>3. \A d \in 1..Height : own[d] = u[SiblingId(j, d)]
    BY AccountsAreKeys DEF Proof, LedgerInv
  <2>4. /\ own = [d \in 1..Height |-> own[d]]
        /\ siblings = [d \in 1..Height |-> siblings[d]]
        /\ Len(siblings) = Height
    BY HeightAssumption DEF Proof, StoredProof
  <2> HIDE DEF siblings, own, g
  <2>5. IsHashTree(u, g)
    BY <2>1, TotalTree
  <2> HIDE DEF u
  <2>6. StateRoot(db) = u[<<>>] /\ NodeId(j, 0) = <<>>
    <3>1. 0 \in 0..Height
      BY HeightAssumption
    <3>2. NodeId(j, 0) = <<>> /\ NodeId(j, 0) \in Prefix
      BY <3>1, PathFacts
    <3> QED
      BY <2>2, <3>2, StoredNode DEF StateRoot, StoredRoot
  <2>7. ASSUME Verify(StateRoot(db), j, leaf, siblings)
        PROVE  leaf = g[j] /\ siblings = own
    <3>1. Climb(j, leaf, siblings)[Height] = u[<<>>]
      BY <2>6, <2>7 DEF Verify
    <3>2. leaf = g[j] /\ \A d \in 1..Height : siblings[d] = u[SiblingId(j, d)]
      BY <2>5, <3>1, ClimbExact
    <3>3. \A d \in 1..Height : siblings[d] = own[d]
      BY <2>3, <3>2
    <3> QED
      BY <2>4, <3>2, <3>3
  <2>8. ASSUME leaf = g[j], siblings = own
        PROVE  Verify(StateRoot(db), j, leaf, siblings)
    <3>1. \A n \in 0..Height : Climb(j, g[j], siblings)[n] = u[NodeId(j, Height - n)]
      BY <2>3, <2>5, <2>8, ClimbTree
    <3>2. Height \in 0..Height /\ Height - Height = 0
      BY HeightAssumption
    <3>3. Climb(j, g[j], siblings)[Height] = u[<<>>]
      BY <2>6, <3>1, <3>2
    <3> QED
      BY <2>4, <2>6, <2>8, <3>3 DEF Verify
  <2> QED
    BY <2>1, <2>7, <2>8 DEF siblings, own
<1> QED
  BY <1>1, LedgerSound, PTL

(* No lamport appears or is lost, whatever a block contains, linear or DAG *)
(* (bank.rs execute_block, dag_chain.rs replay_blocks): no sum of balances *)
(* or fees saturates.                                                      *)
THEOREM SupplyAlwaysConserved == Spec => []SupplyConserved
<1>1. LedgerInv => SupplyConserved
  BY DEF LedgerInv
<1> QED
  BY <1>1, LedgerSound, PTL

(* A store restored from a dump of its accounts is the same store, tree    *)
(* nodes included (accounts_db.rs dump and commit).                        *)
THEOREM RestoreAlwaysSame == Spec => []RestoreSame
<1>1. LedgerInv => RestoreSame
  BY DumpRestores DEF LedgerInv, RestoreSame
<1> QED
  BY <1>1, LedgerSound, PTL
=============================================================================
