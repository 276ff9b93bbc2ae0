-------------------------- MODULE LinearNodeProofs --------------------------
(***************************************************************************)
(* Proofs about the linear node, for every set of nodes, miners and        *)
(* transactions, every clock, window and reward schedule.                  *)
(*                                                                         *)
(* First come lemmas on what the operators compute: chain work and         *)
(* difficulty, paths, add_header, rewards, accounts and the pool.  Of the  *)
(* invariant, the first part (Safe) is about each node by itself and needs *)
(* no assumption on what the others do.  The second part (Faithful) ties   *)
(* the nodes together: the blocks that travel are blocks of some log, and  *)
(* as long as no fork and no clock running back has occurred, the state of *)
(* a node is what its log makes of the genesis.                            *)
(***************************************************************************)
EXTENDS LinearNode, FiniteSetTheorems, TLAPS

----------------------------------------------------------------------------
(* Types.                                                                  *)

Store == [paid : [Node -> Nat], ran : Seq(Tx)]

Block == [id : Nat, prev : Nat, height : Nat, time : Nat, target : 0..MaxWord,
          miner : Node, txs : Seq(Tx), root : Store]

Message == [kind : {"tx"}, body : Tx] \cup [kind : {"block"}, body : Block]

(* A tree of headers rooted in the genesis, each one higher than its       *)
(* parent, with the heaviest block as its tip.                             *)
IsTree(c) ==
    /\ KnownBlocks(c) \subseteq Nat
    /\ GenesisId \in KnownBlocks(c)
    /\ c.headers[GenesisId] = GenesisHeader
    /\ \A b \in KnownBlocks(c) \ {GenesisId} :
         /\ c.headers[b] \in Block
         /\ c.headers[b].prev \in KnownBlocks(c)
         /\ c.headers[b].height = c.headers[c.headers[b].prev].height + 1

Heaviest(c) ==
    /\ c.tip \in KnownBlocks(c)
    /\ DOMAIN c.work = KnownBlocks(c)
    /\ \A b \in KnownBlocks(c) : c.work[b] \in Nat /\ c.work[b] <= c.work[c.tip]

ChainOK(c) == IsTree(c) /\ Heaviest(c)

----------------------------------------------------------------------------
(* Work and difficulty.                                                    *)

(* Quotients of natural numbers.                                           *)
LEMMA DivNat ==
    ASSUME NEW a \in Nat, NEW b \in Nat, b > 0
    PROVE  a \div b \in Nat /\ a \div b <= a
OBVIOUS

(* Every target is worth some work.                                        *)
LEMMA WorkPositive ==
    ASSUME NEW t \in 0..MaxWord
    PROVE  WorkForTarget(t) \in Nat /\ WorkForTarget(t) > 0
<1>1. MaxWord \in Nat /\ MaxWord > 0
  BY ChainAssumption
<1>2. ASSUME t # 0 PROVE (MaxWord - t) \div (t + 1) \in Nat
  BY <1>1, DivNat
<1> QED
  BY <1>1, <1>2 DEF WorkForTarget

(* The larger of two integers.                                             *)
LEMMA MaxOfTwo == \A a, b \in Int : Max({a, b}) = IF a >= b THEN a ELSE b
<1> SUFFICES ASSUME NEW a \in Int, NEW b \in Int
             PROVE  Max({a, b}) = IF a >= b THEN a ELSE b
  OBVIOUS
<1>1. \E x \in {a, b} : \A y \in {a, b} : x >= y
  OBVIOUS
<1> QED
  BY <1>1 DEF Max

(* The smaller of two integers.                                            *)
LEMMA MinOfTwo == \A a, b \in Int : Min({a, b}) = IF a <= b THEN a ELSE b
<1> SUFFICES ASSUME NEW a \in Int, NEW b \in Int
             PROVE  Min({a, b}) = IF a <= b THEN a ELSE b
  OBVIOUS
<1>1. \E x \in {a, b} : \A y \in {a, b} : x <= y
  OBVIOUS
<1> QED
  BY <1>1 DEF Min

(* The sums of next_target, and the folds over the blocks of a log, as     *)
(* instances of Folding.                                                   *)
ReplayStep(p, r, block) == ReplayNext(r, block)
ExecuteStep(p, b, block) == Execute(b, block)

SolveTime(w, i) == i * Clamp(w[i + 1].time - w[i].time, 1, 6 * BlockTime)
Replays == INSTANCE Folding WITH op <- ReplayStep, val <- SolveTime

SolveWork(w, i) == WorkForTarget(w[i + 1].target)
Executions == INSTANCE Folding WITH op <- ExecuteStep, val <- SolveWork

IsHeader(h) == h.time \in Nat /\ h.target \in 0..MaxWord

(* lwma_next_target stays within the words, whatever the clocks were.      *)
LEMMA NextTargetType ==
    ASSUME NEW S, NEW recent \in Seq(S), \A h \in S : IsHeader(h), recent # <<>>
    PROVE  NextTarget(recent) \in 0..MaxWord
<1> DEFINE w    == SubSeq(recent, Len(recent) - Window, Len(recent))
           time == MapThenSumSet(LAMBDA i : i * Clamp(w[i + 1].time - w[i].time, 1, 6 * BlockTime),
                                 1..Window)
           work == MapThenSumSet(LAMBDA i : WorkForTarget(w[i + 1].target), 1..Window)
           avg  == work \div Window
           k    == BlockTime * ((Window * (Window + 1)) \div 2)
           d    == Min({avg * k, MaxWord}) \div Max({time, 1})
<1> HIDE DEF w, time, work, avg, k, d
<1>1. /\ Window \in Nat /\ Window > 0
      /\ BlockTime \in Nat /\ BlockTime > 0
      /\ MaxWord \in Nat
  BY ChainAssumption
<1>2. CASE Len(recent) <= Window
  <2>1. Last(recent) \in S
    BY DEF Last
  <2>2. NextTarget(recent) = Last(recent).target
    BY <1>2 DEF NextTarget
  <2> QED
    BY <2>1, <2>2 DEF IsHeader
<1>3. CASE ~(Len(recent) <= Window)
  <2>1. w \in Seq(S) /\ Len(w) = Window + 1
    BY <1>1, <1>3 DEF w
  <2>2. \A i \in 1..(Window + 1) : IsHeader(w[i])
    BY <2>1
  <2>3. IsFiniteSet(1..Window)
    BY <1>1, FS_Interval
  <2>4. time \in Nat
    <3>1. time = Replays!Sum(w, 1..Window)
      BY DEF time, Replays!Sum, SolveTime, Replays!MapThenSumSet, MapThenSumSet,
             Replays!MapThenFoldSet, MapThenFoldSet
    <3>2. ASSUME NEW i \in 1..Window PROVE SolveTime(w, i) \in Int /\ SolveTime(w, i) >= 0
      <4> DEFINE x == w[i + 1].time - w[i].time
                 y == Clamp(x, 1, 6 * BlockTime)
      <4>1. x \in Int
        <5>1. i \in 1..(Window + 1) /\ i + 1 \in 1..(Window + 1)
          BY <1>1
        <5> QED
          BY <2>2, <5>1 DEF IsHeader
      <4> HIDE DEF x
      <4>2. Max({x, 1}) \in Int /\ Max({x, 1}) >= 1
        BY <4>1, MaxOfTwo
      <4>3. 6 * BlockTime \in Int /\ 6 * BlockTime >= 0
        BY <1>1
      <4>4. y \in Int /\ y >= 0
        <5> DEFINE m == Max({x, 1})
                   u == 6 * BlockTime
        <5>1. y = Min({m, u})
          BY DEF Clamp
        <5>2. m \in Int /\ m >= 1 /\ u \in Int /\ u >= 0
          BY <4>2, <4>3
        <5> HIDE DEF m, u, y
        <5> QED
          BY <5>1, <5>2, MinOfTwo
      <4> HIDE DEF y
      <4>5. i * y \in Int /\ i * y >= 0
        BY <1>1, <4>4
      <4> QED
        BY <4>5 DEF SolveTime, y, x
    <3>3. Replays!Numbers(w, 1..Window)
      BY <3>2 DEF Replays!Numbers
    <3>4. Replays!Sum(w, 1..Window) \in Int /\ Replays!Sum(w, 1..Window) >= 0
      BY <2>3, <3>2, <3>3, Replays!SumType DEF Replays!IsFiniteSet, IsFiniteSet
    <3> QED
      BY <3>1, <3>4
  <2>5. work \in Nat
    <3>1. work = Executions!Sum(w, 1..Window)
      BY DEF work, Executions!Sum, SolveWork, Executions!MapThenSumSet, MapThenSumSet,
             Executions!MapThenFoldSet, MapThenFoldSet
    <3>2. ASSUME NEW i \in 1..Window PROVE SolveWork(w, i) \in Int /\ SolveWork(w, i) >= 0
      <4>1. i + 1 \in 1..(Window + 1)
        BY <1>1
      <4>2. w[i + 1].target \in 0..MaxWord
        BY <2>2, <4>1 DEF IsHeader
      <4> QED
        BY <4>2, WorkPositive DEF SolveWork
    <3>3. Executions!Numbers(w, 1..Window)
      BY <3>2 DEF Executions!Numbers
    <3>4. Executions!Sum(w, 1..Window) \in Int /\ Executions!Sum(w, 1..Window) >= 0
      BY <2>3, <3>2, <3>3, Executions!SumType DEF Executions!IsFiniteSet, IsFiniteSet
    <3> QED
      BY <3>1, <3>4
  <2>6. avg * k \in Nat
    <3>1. avg \in Nat
      BY <1>1, <2>5, DivNat DEF avg
    <3>2. (Window * (Window + 1)) \div 2 \in Nat
      <4>1. Window * (Window + 1) \in Nat
        BY <1>1
      <4> QED
        BY <4>1, DivNat
    <3>3. k \in Nat
      BY <1>1, <3>2 DEF k
    <3> QED
      BY <3>1, <3>3
  <2>7. d \in Nat
    <3>1. Min({avg * k, MaxWord}) \in Nat
      BY <1>1, <2>6, MinOfTwo
    <3>2. Max({time, 1}) \in Nat /\ Max({time, 1}) > 0
      BY <2>4, MaxOfTwo
    <3> QED
      BY <3>1, <3>2, DivNat DEF d
  <2>8. NextTarget(recent) = DifficultyToTarget(d)
    BY <1>3, Zenon DEF NextTarget, d, w, time, work, avg, k
  <2>9. DifficultyToTarget(d) \in 0..MaxWord
    <3>1. ASSUME d # 0 PROVE MaxWord \div d \in Nat /\ MaxWord \div d <= MaxWord
      BY <1>1, <2>7, <3>1, DivNat
    <3> QED
      BY <1>1, <2>7, <3>1 DEF DifficultyToTarget
  <2> QED
    BY <2>8, <2>9
<1> QED
  BY <1>2, <1>3

----------------------------------------------------------------------------
(* Paths.                                                                  *)

PathDef(p, f, h) ==
    IF h = 0 THEN <<p.b>> ELSE <<p.c.headers[f[h - 1][1]].prev>> \o f[h - 1]

Path == INSTANCE Recursion WITH Def <- PathDef

(* The function that PathTo defines: the last h + 1 blocks of the path.    *)
Suffix(c, b) == Path!Rec([c |-> c, b |-> b], 0..c.headers[b].height)

(* One block more at the front for each height.                            *)
LEMMA SuffixEquation ==
    ASSUME NEW c, NEW b, c.headers[b].height \in Nat
    PROVE  /\ Suffix(c, b)[0] = <<b>>
           /\ \A h \in 1..c.headers[b].height :
                Suffix(c, b)[h] = <<c.headers[Suffix(c, b)[h - 1][1]].prev>> \o Suffix(c, b)[h - 1]
           /\ PathTo(c, b) = Suffix(c, b)[c.headers[b].height]
<1> DEFINE p == [c |-> c, b |-> b]
           H == c.headers[b].height
           S == 0..H
           rank == [h \in S |-> h]
<1>1. rank \in [S -> Nat]
  OBVIOUS
<1>2. Path!Descends(p, S, rank)
  <2> SUFFICES ASSUME NEW g, NEW k, NEW h \in S,
                      \A y \in S : rank[y] < rank[h] => g[y] = k[y]
               PROVE  PathDef(p, g, h) = PathDef(p, k, h)
    BY DEF Path!Descends
  <2>1. ASSUME h # 0 PROVE g[h - 1] = k[h - 1]
    <3>1. h - 1 \in S /\ rank[h - 1] < rank[h]
      BY <2>1
    <3> QED
      BY <3>1
  <2> HIDE DEF rank, S, p
  <2> QED
    BY <2>1 DEF PathDef
<1>3. PICK r \in [S -> Nat] : Path!Descends(p, S, r)
  <2> HIDE DEF rank, S, p
  <2> QED
    BY <1>1, <1>2
<1> HIDE DEF rank
<1>4. ASSUME NEW h \in S PROVE Path!Rec(p, S)[h] = PathDef(p, Path!Rec(p, S), h)
  <2> HIDE DEF p, S
  <2> QED
    BY <1>3, Path!RecEquation
<1>5. Suffix(c, b) = Path!Rec(p, S)
  BY DEF Suffix
<1>6. PathTo(c, b) = Suffix(c, b)[H]
  BY DEF PathTo, Suffix, Path!Rec, PathDef
<1>7. \A h \in S : Suffix(c, b)[h] = PathDef(p, Suffix(c, b), h)
  BY <1>4, <1>5
<1>8. Suffix(c, b)[0] = <<b>>
  <2>1. 0 \in S
    OBVIOUS
  <2> HIDE DEF S
  <2> QED
    BY <1>7, <2>1 DEF PathDef
<1>9. ASSUME NEW h \in 1..H
      PROVE  Suffix(c, b)[h] = <<c.headers[Suffix(c, b)[h - 1][1]].prev>> \o Suffix(c, b)[h - 1]
  <2>1. h \in S /\ h # 0
    OBVIOUS
  <2> HIDE DEF S
  <2> QED
    BY <1>7, <2>1 DEF PathDef
<1> QED
  BY <1>6, <1>8, <1>9

(* Heights in a tree.                                                      *)
LEMMA TreeHeights ==
    ASSUME NEW c, IsTree(c), NEW b \in KnownBlocks(c)
    PROVE  /\ c.headers[b].height \in Nat
           /\ c.headers[b].height = 0 => b = GenesisId
           /\ b # GenesisId => /\ c.headers[b].height > 0
                               /\ c.headers[b].prev \in KnownBlocks(c)
                               /\ c.headers[c.headers[b].prev].height = c.headers[b].height - 1
           /\ IsHeader(c.headers[b])
<1>1. CASE b = GenesisId
  BY <1>1, ChainAssumption DEF IsTree, GenesisHeader, IsHeader
<1>2. CASE b # GenesisId
  <2> DEFINE a == c.headers[b].prev
  <2>1. /\ a \in KnownBlocks(c)
        /\ c.headers[b] \in Block
        /\ c.headers[b].height = c.headers[a].height + 1
    BY <1>2 DEF IsTree
  <2>2. c.headers[a].height \in Nat
    BY <2>1 DEF IsTree, Block, GenesisHeader
  <2>3. IsHeader(c.headers[b])
    BY <2>1 DEF Block, IsHeader
  <2>4. /\ c.headers[b].height \in Nat
        /\ c.headers[b].height > 0
        /\ c.headers[a].height = c.headers[b].height - 1
    BY <2>1, <2>2
  <2>5. c.headers[b].height # 0
    BY <2>4
  <2> QED
    BY <1>2, <2>1, <2>3, <2>4, <2>5
<1> QED
  BY <1>1, <1>2

(* A path goes from the genesis to b, one block of each height.            *)
LEMMA PathShape ==
    ASSUME NEW c, IsTree(c), NEW b \in KnownBlocks(c)
    PROVE  /\ PathTo(c, b) \in Seq(KnownBlocks(c))
           /\ Len(PathTo(c, b)) = c.headers[b].height + 1
<1> DEFINE H == c.headers[b].height
           f == Suffix(c, b)
           T == {h \in Nat : h <= H =>
                   /\ f[h] \in Seq(KnownBlocks(c))
                   /\ Len(f[h]) = h + 1
                   /\ c.headers[f[h][1]].height = H - h}
<1>1. H \in Nat
  BY TreeHeights
<1>2. /\ f[0] = <<b>>
      /\ \A h \in 1..H : f[h] = <<c.headers[f[h - 1][1]].prev>> \o f[h - 1]
      /\ PathTo(c, b) = f[H]
  BY <1>1, SuffixEquation
<1> HIDE DEF f
<1>3. 0 \in T
  <2>1. <<b>> \in Seq(KnownBlocks(c)) /\ Len(<<b>>) = 1 /\ <<b>>[1] = b
    OBVIOUS
  <2>2. H = H - 0 /\ 1 = 0 + 1
    BY <1>1
  <2> QED
    BY <1>2, <2>1, <2>2
<1>4. ASSUME NEW h \in Nat, h \in T PROVE h + 1 \in T
  <2> SUFFICES ASSUME h + 1 <= H
               PROVE  /\ f[h + 1] \in Seq(KnownBlocks(c))
                      /\ Len(f[h + 1]) = h + 2
                      /\ c.headers[f[h + 1][1]].height = H - (h + 1)
    OBVIOUS
  <2> DEFINE x == f[h][1]
             y == c.headers[x].prev
  <2>1. /\ f[h] \in Seq(KnownBlocks(c))
        /\ Len(f[h]) = h + 1
        /\ c.headers[x].height = H - h
    BY <1>1, <1>4
  <2>2. x \in KnownBlocks(c)
    BY <2>1
  <2>3. x # GenesisId
    <3>1. c.headers[x].height # 0
      <4>1. c.headers[x].height = H - h
        BY <2>1
      <4> HIDE DEF T, x, H
      <4> QED
        BY <1>1, <4>1
    <3>2. c.headers[GenesisId].height = 0
      BY DEF IsTree, GenesisHeader
    <3> QED
      BY <3>1, <3>2
  <2>4. y \in KnownBlocks(c) /\ c.headers[y].height = H - (h + 1)
    <3>1. y \in KnownBlocks(c) /\ c.headers[y].height = c.headers[x].height - 1
      BY <2>2, <2>3, TreeHeights
    <3>2. c.headers[x].height = H - h
      BY <2>1
    <3> HIDE DEF T, x, y, H
    <3> QED
      BY <1>1, <3>1, <3>2
  <2>5. h + 1 \in 1..H /\ (h + 1) - 1 = h
    BY <1>1
  <2>6. f[h + 1] = <<y>> \o f[h]
    BY <1>2, <2>5
  <2> HIDE DEF x, y, H
  <2>7. /\ f[h + 1] \in Seq(KnownBlocks(c))
        /\ Len(f[h + 1]) = h + 2
        /\ f[h + 1][1] = y
    BY <2>1, <2>4, <2>6
  <2> QED
    BY <2>4, <2>7
<1> HIDE DEF T
<1>5. \A h \in Nat : h \in T
  BY <1>3, <1>4, Path!NatInSet
<1>6. H <= H /\ H \in T
  BY <1>1, <1>5
<1>7. f[H] \in Seq(KnownBlocks(c)) /\ Len(f[H]) = H + 1
  BY <1>6 DEF T
<1> QED
  BY <1>2, <1>7

(* The path to a block is the path to its parent, and the block.           *)
LEMMA PathAppend ==
    ASSUME NEW c, IsTree(c), NEW b \in KnownBlocks(c), b # GenesisId
    PROVE  PathTo(c, b) = Append(PathTo(c, c.headers[b].prev), b)
<1> DEFINE a == c.headers[b].prev
           H == c.headers[a].height
           f == Suffix(c, b)
           g == Suffix(c, a)
           T == {h \in Nat : h <= H =>
                   /\ g[h] \in Seq(KnownBlocks(c)) /\ g[h] # <<>>
                   /\ c.headers[g[h][1]].height = H - h
                   /\ f[h + 1] = Append(g[h], b)}
<1>1. /\ a \in KnownBlocks(c)
      /\ H \in Nat
      /\ c.headers[b].height = H + 1
  <2>1. a \in KnownBlocks(c) /\ c.headers[b].height \in Nat /\ H = c.headers[b].height - 1
    BY TreeHeights
  <2>2. H \in Nat
    BY <2>1, TreeHeights
  <2> QED
    BY <2>1, <2>2
<1>2. /\ f[0] = <<b>>
      /\ \A h \in 1..(H + 1) : f[h] = <<c.headers[f[h - 1][1]].prev>> \o f[h - 1]
      /\ PathTo(c, b) = f[H + 1]
  BY <1>1, SuffixEquation
<1>3. /\ g[0] = <<a>>
      /\ \A h \in 1..H : g[h] = <<c.headers[g[h - 1][1]].prev>> \o g[h - 1]
      /\ PathTo(c, a) = g[H]
  BY <1>1, SuffixEquation
<1> HIDE DEF f, g
<1>4. 0 \in T
  <2>1. f[1] = <<a>> \o <<b>>
    <3>1. 1 \in 1..(H + 1) /\ 1 - 1 = 0
      BY <1>1
    <3>2. f[1] = <<c.headers[f[0][1]].prev>> \o f[0]
      BY <1>2, <3>1
    <3> QED
      BY <1>2, <3>2
  <2>2. <<a>> \in Seq(KnownBlocks(c)) /\ <<a>> # <<>> /\ <<a>>[1] = a
    BY <1>1
  <2>3. <<a>> \o <<b>> = Append(<<a>>, b)
    OBVIOUS
  <2>4. H = H - 0 /\ 1 = 0 + 1
    BY <1>1
  <2> QED
    BY <1>3, <2>1, <2>2, <2>3, <2>4
<1>5. ASSUME NEW h \in Nat, h \in T PROVE h + 1 \in T
  <2> SUFFICES ASSUME h + 1 <= H
               PROVE  /\ g[h + 1] \in Seq(KnownBlocks(c)) /\ g[h + 1] # <<>>
                      /\ c.headers[g[h + 1][1]].height = H - (h + 1)
                      /\ f[(h + 1) + 1] = Append(g[h + 1], b)
    OBVIOUS
  <2> DEFINE x == g[h][1]
             y == c.headers[x].prev
  <2>1. /\ g[h] \in Seq(KnownBlocks(c)) /\ g[h] # <<>>
        /\ c.headers[x].height = H - h
        /\ f[h + 1] = Append(g[h], b)
    BY <1>1, <1>5
  <2>2. x \in KnownBlocks(c)
    BY <2>1
  <2>3. x # GenesisId
    <3>1. c.headers[x].height # 0
      <4>1. c.headers[x].height = H - h
        BY <2>1
      <4> HIDE DEF T, x, H
      <4> QED
        BY <1>1, <4>1
    <3>2. c.headers[GenesisId].height = 0
      BY DEF IsTree, GenesisHeader
    <3> QED
      BY <3>1, <3>2
  <2>4. y \in KnownBlocks(c) /\ c.headers[y].height = H - (h + 1)
    <3>1. y \in KnownBlocks(c) /\ c.headers[y].height = c.headers[x].height - 1
      BY <2>2, <2>3, TreeHeights
    <3>2. c.headers[x].height = H - h
      BY <2>1
    <3> HIDE DEF T, x, y, H
    <3> QED
      BY <1>1, <3>1, <3>2
  <2>5. /\ h + 1 \in 1..H /\ (h + 1) - 1 = h
        /\ (h + 1) + 1 \in 1..(H + 1) /\ ((h + 1) + 1) - 1 = h + 1
    BY <1>1
  <2>6. g[h + 1] = <<y>> \o g[h]
    BY <1>3, <2>5
  <2>7. f[h + 1][1] = x
    BY <2>1
  <2>8. f[(h + 1) + 1] = <<y>> \o f[h + 1]
    BY <1>2, <2>5, <2>7
  <2> HIDE DEF x, y, H
  <2>9. /\ g[h + 1] \in Seq(KnownBlocks(c)) /\ g[h + 1] # <<>>
        /\ g[h + 1][1] = y
    BY <2>1, <2>4, <2>6
  <2>10. <<y>> \o Append(g[h], b) = Append(<<y>> \o g[h], b)
    BY <2>1, <2>4
  <2> QED
    BY <2>1, <2>4, <2>6, <2>8, <2>9, <2>10
<1> HIDE DEF T
<1>6. \A h \in Nat : h \in T
  BY <1>4, <1>5, Path!NatInSet
<1>7. f[H + 1] = Append(g[H], b)
  <2>1. H \in Nat
    BY <1>1
  <2> HIDE DEF H
  <2>2. H <= H /\ H \in T
    BY <1>6, <2>1
  <2> QED
    BY <2>2 DEF T
<1> QED
  BY <1>2, <1>3, <1>7

(* The target a block must have is a word.                                 *)
LEMMA TargetType ==
    ASSUME NEW c, IsTree(c), NEW b \in KnownBlocks(c)
    PROVE  TargetAfter(c, b) \in 0..MaxWord
<1> DEFINE path == PathTo(c, b)
           m    == Max({1, Len(path) - Window})
           ids  == SubSeq(path, m, Len(path))
           S    == {c.headers[x] : x \in KnownBlocks(c)}
<1>1. path \in Seq(KnownBlocks(c)) /\ Len(path) \in Nat /\ Len(path) >= 1
  BY PathShape, TreeHeights
<1> HIDE DEF path
<1>2. m \in 1..Len(path)
  <2>1. Window \in Nat /\ Window >= 1
    BY ChainAssumption
  <2> DEFINE k == Len(path) - Window
  <2>2. k \in Int /\ k <= Len(path)
    BY <1>1, <2>1
  <2> HIDE DEF k
  <2>3. Max({1, k}) \in 1..Len(path)
    BY <1>1, <2>2, MaxOfTwo
  <2> QED
    BY <2>3 DEF k
<1> HIDE DEF m
<1>3. ids \in Seq(KnownBlocks(c)) /\ Len(ids) \in Nat /\ Len(ids) >= 1
  BY <1>1, <1>2
<1>4. RecentHeaders(c, b) = [i \in DOMAIN ids |-> c.headers[ids[i]]]
  BY DEF RecentHeaders, path, m
<1> HIDE DEF ids
<1>5. RecentHeaders(c, b) \in Seq(S) /\ RecentHeaders(c, b) # <<>>
  BY <1>3, <1>4
<1>6. \A h \in S : IsHeader(h)
  BY TreeHeights
<1> HIDE DEF S
<1> QED
  BY <1>5, <1>6, NextTargetType DEF TargetAfter

----------------------------------------------------------------------------
(* add_header.                                                             *)

(* A header that passes the checks.                                        *)
LEMMA ResultOk ==
    ASSUME NEW c, NEW id, NEW h
    PROVE  HeaderResult(c, id, h) = "ok" <=>
             /\ id \notin KnownBlocks(c)
             /\ h.prev \in KnownBlocks(c)
             /\ h.height = c.headers[h.prev].height + 1
             /\ ~(h.time < c.headers[h.prev].time)
             /\ h.target = TargetAfter(c, h.prev)
BY DEF HeaderResult

(* The new chain, field by field.                                          *)
LEMMA AddFields ==
    ASSUME NEW c, NEW id, NEW h, DOMAIN c.work = KnownBlocks(c), id \notin KnownBlocks(c)
    PROVE  LET d == AddHeader(c, id, h)
           IN  /\ KnownBlocks(d) = KnownBlocks(c) \cup {id}
               /\ DOMAIN d.work = KnownBlocks(c) \cup {id}
               /\ d.headers[id] = h
               /\ d.work[id] = c.work[h.prev] + WorkForTarget(h.target)
               /\ \A b \in KnownBlocks(c) : d.headers[b] = c.headers[b] /\ d.work[b] = c.work[b]
               /\ d.tip = IF d.work[id] > c.work[c.tip] THEN id ELSE c.tip
BY DEF AddHeader, Extend, KnownBlocks, WorkAfter, TakesTip

(* Adding it keeps the tree and its heaviest tip, and the tip only moves   *)
(* to more work; a child of the tip always becomes the tip.                *)
LEMMA AddOK ==
    ASSUME NEW c, ChainOK(c), NEW h \in Block, HeaderResult(c, h.id, h) = "ok"
    PROVE  LET d == AddHeader(c, h.id, h)
           IN  /\ ChainOK(d)
               /\ c.tip \in KnownBlocks(d)
               /\ d.tip # c.tip => d.work[c.tip] < d.work[d.tip]
               /\ h.prev = c.tip => d.tip = h.id
<1> DEFINE d == AddHeader(c, h.id, h)
           K == KnownBlocks(c)
<1>1. /\ h.id \notin K
      /\ h.prev \in K
      /\ h.height = c.headers[h.prev].height + 1
  BY ResultOk
<1>2. /\ c.tip \in K
      /\ DOMAIN c.work = K
      /\ \A b \in K : c.work[b] \in Nat /\ c.work[b] <= c.work[c.tip]
  BY DEF ChainOK, Heaviest
<1>3. /\ KnownBlocks(d) = K \cup {h.id}
      /\ DOMAIN d.work = K \cup {h.id}
      /\ d.headers[h.id] = h
      /\ d.work[h.id] = c.work[h.prev] + WorkForTarget(h.target)
      /\ \A b \in K : d.headers[b] = c.headers[b] /\ d.work[b] = c.work[b]
      /\ d.tip = IF d.work[h.id] > c.work[c.tip] THEN h.id ELSE c.tip
  BY <1>1, <1>2, AddFields
<1>4. WorkForTarget(h.target) \in Nat /\ WorkForTarget(h.target) > 0
  BY WorkPositive DEF Block
<1> HIDE DEF d
<1>5. d.work[h.id] \in Nat /\ d.work[h.id] > c.work[h.prev]
  BY <1>1, <1>2, <1>3, <1>4
<1>6. IsTree(d)
  <2>1. /\ K \subseteq Nat /\ GenesisId \in K /\ c.headers[GenesisId] = GenesisHeader
        /\ \A b \in K \ {GenesisId} :
             /\ c.headers[b] \in Block
             /\ c.headers[b].prev \in K
             /\ c.headers[b].height = c.headers[c.headers[b].prev].height + 1
    BY DEF ChainOK, IsTree
  <2>2. h.id \in Nat
    BY DEF Block
  <2>3. ASSUME NEW b \in KnownBlocks(d) \ {GenesisId}
        PROVE  /\ d.headers[b] \in Block
               /\ d.headers[b].prev \in KnownBlocks(d)
               /\ d.headers[b].height = d.headers[d.headers[b].prev].height + 1
    <3>1. CASE b = h.id
      BY <1>1, <1>3, <3>1
    <3>2. CASE b # h.id
      BY <1>3, <2>1, <3>2
    <3> QED
      BY <3>1, <3>2
  <2> QED
    BY <1>1, <1>3, <2>1, <2>2, <2>3 DEF IsTree
<1>7. Heaviest(d)
  <2>1. d.tip \in KnownBlocks(d)
    BY <1>2, <1>3
  <2>2. ASSUME NEW b \in KnownBlocks(d)
        PROVE  d.work[b] \in Nat /\ d.work[b] <= d.work[d.tip]
    BY <1>1, <1>2, <1>3, <1>5
  <2> QED
    BY <1>3, <2>1, <2>2 DEF Heaviest
<1>8. d.tip # c.tip => d.work[c.tip] < d.work[d.tip]
  BY <1>1, <1>2, <1>3, <1>5
<1>9. h.prev = c.tip => d.tip = h.id
  BY <1>2, <1>3, <1>5
<1> QED
  BY <1>2, <1>3, <1>6, <1>7, <1>8, <1>9 DEF ChainOK, d

(* The chain of the genesis alone.                                         *)
LEMMA NewChainOK == ChainOK(NewChainState)
<1>1. WorkForTarget(GenesisTarget) \in Nat
  BY ChainAssumption, WorkPositive
<1>2. GenesisId \in Nat
  BY NodeAssumption
<1> QED
  BY <1>1, <1>2 DEF ChainOK, IsTree, Heaviest, NewChainState, KnownBlocks

----------------------------------------------------------------------------
(* Rewards and accounts.                                                   *)

ShiftDef(p, f, bits) == IF bits = 0 THEN InitialReward ELSE f[bits - 1] \div 2

Shift == INSTANCE Recursion WITH Def <- ShiftDef

(* A shifted reward is a natural number.                                   *)
LEMMA ShiftType == \A bits \in Nat : ShiftRight[bits] \in Nat
<1> DEFINE rank == [n \in Nat |-> n]
           T == {n \in Nat : ShiftRight[n] \in Nat}
<1>1. rank \in [Nat -> Nat]
  OBVIOUS
<1>2. Shift!Descends(0, Nat, rank)
  <2> SUFFICES ASSUME NEW g, NEW k, NEW n \in Nat,
                      \A y \in Nat : rank[y] < rank[n] => g[y] = k[y]
               PROVE  ShiftDef(0, g, n) = ShiftDef(0, k, n)
    BY DEF Shift!Descends
  <2>1. ASSUME n # 0 PROVE g[n - 1] = k[n - 1]
    <3>1. n - 1 \in Nat /\ rank[n - 1] < rank[n]
      BY <2>1
    <3> QED
      BY <3>1
  <2> QED
    BY <2>1 DEF ShiftDef
<1>3. PICK r \in [Nat -> Nat] : Shift!Descends(0, Nat, r)
  <2> HIDE DEF rank
  <2> QED
    BY <1>1, <1>2
<1>4. \A n \in Nat : Shift!Rec(0, Nat)[n] = ShiftDef(0, Shift!Rec(0, Nat), n)
  <2> HIDE DEF rank
  <2> QED
    BY <1>3, Shift!RecEquation
<1>5. ShiftRight = Shift!Rec(0, Nat)
  BY DEF ShiftRight, Shift!Rec, ShiftDef
<1>6. 0 \in T
  BY <1>4, <1>5, NodeAssumption DEF ShiftDef
<1>7. ASSUME NEW n \in Nat, n \in T PROVE n + 1 \in T
  <2>1. ShiftRight[n + 1] = ShiftRight[n] \div 2
    <3>1. n + 1 \in Nat /\ n + 1 # 0 /\ (n + 1) - 1 = n
      OBVIOUS
    <3> QED
      BY <1>4, <1>5, <3>1 DEF ShiftDef
  <2> QED
    BY <1>7, <2>1, DivNat
<1> HIDE DEF T
<1>8. \A n \in Nat : n \in T
  BY <1>6, <1>7, Shift!NatInSet
<1> QED
  BY <1>8 DEF T

(* emission is a number of lamports.                                       *)
LEMMA EmissionType == \A height \in Nat : Emission(height) \in Nat
<1> SUFFICES ASSUME NEW height \in Nat PROVE Emission(height) \in Nat
  OBVIOUS
<1>1. InitialReward \in Nat /\ HalvingInterval \in Nat
  BY NodeAssumption
<1>2. ASSUME HalvingInterval # 0 PROVE height \div HalvingInterval \in Nat
  BY <1>1, <1>2, DivNat
<1> QED
  BY <1>1, <1>2, ShiftType DEF Emission

(* execute_block gives accounts.                                           *)
LEMMA ExecuteType ==
    ASSUME NEW bk \in Store, NEW txs \in Seq(Tx), NEW miner \in Node, NEW height \in Nat
    PROVE  ExecuteBlock(bk, txs, miner, Emission(height)) \in Store
<1>1. Emission(height) \in Nat
  BY EmissionType
<1>2. Len(txs) \in Nat
  OBVIOUS
<1>3. bk.paid[miner] + Emission(height) + Len(txs) \in Nat
  BY <1>1, <1>2 DEF Store
<1>4. bk.ran \o txs \in Seq(Tx)
  BY DEF Store
<1> QED
  BY <1>3, <1>4 DEF ExecuteBlock, Store

----------------------------------------------------------------------------
(* The pool.                                                               *)

Pool == [txs : Seq(Tx), seen : SUBSET Tx]

(* A sequence has at most as many elements as its length, and as many only *)
(* if none of them comes twice.                                            *)
LEMMA Elements ==
    ASSUME NEW S, NEW s \in Seq(S)
    PROVE  /\ IsFiniteSet(ToSet(s))
           /\ Cardinality(ToSet(s)) \in Nat
           /\ Cardinality(ToSet(s)) <= Len(s)
           /\ Cardinality(ToSet(s)) = Len(s) => \A i, j \in 1..Len(s) : s[i] = s[j] => i = j
<1>1. IsFiniteSet(1..Len(s)) /\ Cardinality(1..Len(s)) = Len(s)
  <2> DEFINE n == Len(s)
  <2>1. n \in Nat /\ n \in Int /\ 1 \in Int
    OBVIOUS
  <2> HIDE DEF n
  <2>2. /\ IsFiniteSet(1..n)
        /\ Cardinality(1..n) = IF 1 > n THEN 0 ELSE n - 1 + 1
    BY <2>1, FS_Interval
  <2>3. Cardinality(1..n) = n
    BY <2>1, <2>2
  <2> QED
    BY <2>2, <2>3 DEF n
<1>2. s \in Surjection(1..Len(s), ToSet(s))
  BY DEF Surjection, ToSet
<1>3. /\ IsFiniteSet(ToSet(s))
      /\ Cardinality(ToSet(s)) <= Len(s)
      /\ Cardinality(ToSet(s)) = Len(s) <=> s \in Injection(1..Len(s), ToSet(s))
  BY <1>1, <1>2, FS_Surjection
<1> QED
  BY <1>3, FS_CardinalityType DEF Injection, IsInjective

(* Making room keeps the pool in order and leaves room.                    *)
LEMMA EvictOK ==
    ASSUME NEW p \in Pool, PoolOK(p)
    PROVE  /\ Evict(p) \in Pool
           /\ PoolOK(Evict(p))
           /\ Len(Evict(p).txs) < MaxSize
           /\ Evict(p).seen \subseteq p.seen
<1> DEFINE s == p.txs
<1>1. s \in Seq(Tx) /\ p.seen \in SUBSET Tx /\ MaxSize \in Nat /\ MaxSize > 0
  BY PoolAssumption DEF Pool
<1>2. /\ p.seen = ToSet(s) /\ Cardinality(p.seen) = Len(s) /\ Len(s) <= MaxSize
  BY DEF PoolOK
<1>3. CASE Len(s) < MaxSize
  BY <1>1, <1>2, <1>3 DEF Evict, PoolOK
<1>4. CASE ~(Len(s) < MaxSize)
  <2>1. Len(s) = MaxSize /\ s # <<>>
    BY <1>1, <1>2, <1>4
  <2>2. /\ Tail(s) \in Seq(Tx) /\ Len(Tail(s)) = Len(s) - 1
        /\ \A i \in 1..(Len(s) - 1) : Tail(s)[i] = s[i + 1]
        /\ Head(s) = s[1]
    BY <1>1, <2>1
  <2>3. \A i, j \in 1..Len(s) : s[i] = s[j] => i = j
    BY <1>1, <1>2, Elements
  <2>4. ToSet(Tail(s)) = p.seen \ {Head(s)}
    <3>1. ASSUME NEW x \in ToSet(Tail(s)) PROVE x \in p.seen \ {Head(s)}
      <4>1. PICK i \in 1..(Len(s) - 1) : x = s[i + 1]
        BY <2>2 DEF ToSet
      <4>2. i + 1 \in 1..Len(s) /\ i + 1 # 1 /\ 1 \in 1..Len(s)
        BY <1>1, <2>1
      <4> QED
        BY <1>1, <1>2, <2>2, <2>3, <4>1, <4>2 DEF ToSet
    <3>2. ASSUME NEW x \in p.seen \ {Head(s)} PROVE x \in ToSet(Tail(s))
      <4>1. PICK i \in 1..Len(s) : x = s[i]
        BY <1>1, <1>2 DEF ToSet
      <4>2. i # 1
        BY <2>2, <4>1
      <4>3. i - 1 \in 1..(Len(s) - 1) /\ (i - 1) + 1 = i
        BY <1>1, <4>2
      <4>4. Tail(s)[i - 1] = x
        BY <2>2, <4>1, <4>3
      <4>5. i - 1 \in DOMAIN Tail(s)
        BY <2>2, <4>3
      <4> QED
        BY <4>4, <4>5 DEF ToSet
    <3> QED
      BY <3>1, <3>2
  <2>5. Head(s) \in p.seen
    BY <1>1, <1>2, <2>1, <2>2 DEF ToSet
  <2>6. IsFiniteSet(p.seen)
    BY <1>1, <1>2, Elements
  <2>7. Cardinality(p.seen \ {Head(s)}) = Len(s) - 1
    BY <1>2, <2>5, <2>6, FS_RemoveElement
  <2>8. Evict(p) = [txs |-> Tail(s), seen |-> p.seen \ {Head(s)}]
    BY <1>4 DEF Evict
  <2> QED
    BY <1>1, <1>2, <2>1, <2>2, <2>4, <2>7, <2>8 DEF PoolOK, Pool
<1> QED
  BY <1>3, <1>4

(* submit keeps the pool in order.                                         *)
LEMMA SubmitOK ==
    ASSUME NEW p \in Pool, PoolOK(p), NEW t \in Tx
    PROVE  Submit(p, t) \in Pool /\ PoolOK(Submit(p, t))
<1> DEFINE r == Evict(p)
<1>1. /\ r \in Pool /\ Len(r.txs) < MaxSize /\ r.seen \subseteq p.seen
      /\ r.seen = ToSet(r.txs) /\ Cardinality(r.seen) = Len(r.txs)
  BY EvictOK DEF PoolOK
<1> HIDE DEF r
<1>2. CASE t \in p.seen
  BY <1>2 DEF Submit
<1>3. CASE t \notin p.seen
  <2>1. Submit(p, t) = [txs |-> Append(r.txs, t), seen |-> r.seen \cup {t}]
    BY <1>3 DEF Submit, r
  <2>2. r.txs \in Seq(Tx) /\ r.seen \in SUBSET Tx
    BY <1>1 DEF Pool
  <2>3. ToSet(Append(r.txs, t)) = r.seen \cup {t}
    <3>1. ToSet(Append(r.txs, t)) = ToSet(r.txs) \cup {t}
      <4>1. /\ Len(Append(r.txs, t)) = Len(r.txs) + 1
            /\ Append(r.txs, t)[Len(r.txs) + 1] = t
            /\ \A i \in 1..Len(r.txs) : Append(r.txs, t)[i] = r.txs[i]
        BY <2>2
      <4> QED
        BY <2>2, <4>1 DEF ToSet
    <3> QED
      BY <1>1, <3>1
  <2>4. IsFiniteSet(r.seen)
    BY <1>1, <2>2, Elements
  <2>5. t \notin r.seen
    BY <1>1, <1>3
  <2>6. Cardinality(r.seen \cup {t}) = Len(r.txs) + 1
    BY <1>1, <2>4, <2>5, FS_AddElement
  <2>7. Append(r.txs, t) \in Seq(Tx) /\ Len(Append(r.txs, t)) = Len(r.txs) + 1
    BY <2>2
  <2>8. Len(r.txs) + 1 <= MaxSize
    BY <1>1, <2>2, PoolAssumption
  <2> QED
    BY <2>1, <2>2, <2>3, <2>6, <2>7, <2>8 DEF PoolOK, Pool
<1> QED
  BY <1>2, <1>3

(* drain empties it; so is the pool of a node that starts.                 *)
LEMMA DrainOK ==
    /\ \A p \in Pool : PoolOK(p) => Drain(p) = EmptyPool
    /\ EmptyPool \in Pool
    /\ PoolOK(EmptyPool)
<1>1. ToSet(<<>>) = {}
  BY DEF ToSet
<1>2. <<>> \in Seq(Tx) /\ Len(<<>>) = 0
  OBVIOUS
<1>3. MaxSize \in Nat
  BY PoolAssumption
<1>4. ASSUME NEW p \in Pool, PoolOK(p) PROVE Drain(p) = EmptyPool
  <2>1. p.seen \ ToSet(p.txs) = {}
    BY <1>4 DEF PoolOK
  <2> QED
    BY <2>1 DEF Drain, EmptyPool
<1>5. EmptyPool \in Pool
  BY <1>2 DEF EmptyPool, Pool
<1>6. PoolOK(EmptyPool)
  <2>1. Cardinality({}) = 0
    BY FS_EmptySet
  <2>2. EmptyPool.txs = <<>> /\ EmptyPool.seen = {}
    BY DEF EmptyPool
  <2>3. 0 <= MaxSize
    BY <1>3
  <2> QED
    BY <1>1, <1>2, <2>1, <2>2, <2>3 DEF PoolOK
<1> QED
  BY <1>4, <1>5, <1>6

----------------------------------------------------------------------------
(* The first invariant.                                                    *)

TypeInv ==
    /\ DOMAIN chain = Node
    /\ bank \in [Node -> Store]
    /\ log \in [Node -> Seq(Block)]
    /\ pool \in [Node -> Pool]
    /\ status \in [Node -> SUBSET Tx]
    /\ DOMAIN head = Node
    /\ phase \in [Node -> {"idle", "executed", "logged", "replaying", "down", "failed"}]
    /\ DOMAIN job = Node
    /\ wire \in [Node \X Node -> Seq(Message)]
    /\ mined \in Nat

ChainsOK == \A n \in Node : ChainOK(chain[n])

(* The block being mined, in the log before it is added; the next record   *)
(* to replay.                                                              *)
JobOK ==
    \A n \in Node :
        /\ phase[n] \in {"executed", "logged"} => job[n] \in Block
        /\ phase[n] = "logged" => log[n] # <<>> /\ log[n][Len(log[n])] = job[n]
        /\ phase[n] = "replaying" => job[n] \in 1..(Len(log[n]) + 1)

Safe == TypeInv /\ ChainsOK /\ JobOK /\ PoolsOK /\ ConfirmedIsLogged

----------------------------------------------------------------------------
(* The second invariant.  M stands for a set of blocks.                    *)

(* The blocks that some node has logged.                                   *)
Mined == UNION {ToSet(log[n]) : n \in Node}

(* Every header of the chain but the genesis is one of those blocks.       *)
HeadersFrom(c, M) ==
    \A b \in KnownBlocks(c) \ {GenesisId} : c.headers[b] \in M /\ c.headers[b].id = b

BlocksFrom(wires, M) ==
    \A p \in Node \X Node : \A i \in DOMAIN wires[p] :
        wires[p][i].kind = "block" => wires[p][i].body \in M

IdsOK(M, count) ==
    /\ \A x \in M : x.id \in 1..count
    /\ \A x, y \in M : x.id = y.id => x = y

(* Blocks have their own ids; the blocks that travel and the headers that  *)
(* were added are blocks of some log.                                      *)
Provenance ==
    /\ IdsOK(Mined, mined)
    /\ BlocksFrom(wire, Mined)
    /\ \A n \in Node : HeadersFrom(chain[n], Mined)

(* The accounts that a block commits to.                                   *)
RootOf(c, b) == IF b = GenesisId THEN GenesisBank ELSE c.headers[b].root

(* A block commits to the accounts of its parent with it executed.         *)
Rooted(M) ==
    \A x \in M :
        \/ x.prev = GenesisId /\ x.root = Execute(GenesisBank, x)
        \/ \E y \in M : y.id = x.prev /\ x.root = Execute(y.root, x)

ReplayOf(records) ==
    Replays!Fold(0, [chain |-> NewChainState, bank |-> GenesisBank, ok |-> TRUE], records)

(* The log can be replayed, and the accounts it gives are those of the tip *)
(* it gives.                                                               *)
LogOK(records, M) ==
    LET r == ReplayOf(records)
    IN  /\ r.ok = TRUE
        /\ ChainOK(r.chain)
        /\ HeadersFrom(r.chain, M)
        /\ r.bank = RootOf(r.chain, r.chain.tip)

(* The block being mined, on the tip of c.                                 *)
OnTip(block, c) ==
    /\ block.prev = c.tip
    /\ block.height = c.headers[c.tip].height + 1
    /\ block.target = TargetAfter(c, c.tip)
    /\ block.root = Execute(RootOf(c, c.tip), block)

(* A node has what its log gives, except for the block it is mining and    *)
(* the records it has not replayed yet.                                    *)
Synced(n) ==
    LET r == ReplayOf(log[n])
        c == chain[n]
    IN  /\ phase[n] \in {"idle", "executed"} => r.chain = c
        /\ phase[n] \in {"idle", "logged"} => r.bank = bank[n]
        /\ phase[n] \in {"executed", "logged"} => OnTip(job[n], c) /\ bank[n] = job[n].root
        /\ phase[n] = "logged" =>
             /\ HeaderResult(c, job[n].id, job[n]) = "ok"
             /\ r.chain = AddHeader(c, job[n].id, job[n])
        /\ phase[n] = "replaying" =>
             ReplayOf(SubSeq(log[n], 1, job[n] - 1)) =
                 [chain |-> c, bank |-> bank[n], ok |-> TRUE]
        /\ Up(n) => head[n] = [slot |-> c.headers[c.tip].height, hash |-> c.tip]

Clean ==
    /\ Rooted(Mined)
    /\ \A n \in Node : LogOK(log[n], Mined)
    /\ \A n \in Node : Synced(n)

Faithful == Provenance /\ (events = {} => Clean)

----------------------------------------------------------------------------
(* The first invariant is inductive.                                       *)

(* The transactions of a log.                                              *)
TxsOf(records) == UNION {ToSet(records[i].txs) : i \in DOMAIN records}

(* A longer log has the transactions it had, and those of the new block.   *)
LEMMA LoggedGrows ==
    ASSUME NEW s \in Seq(Block), NEW x \in Block
    PROVE  TxsOf(Append(s, x)) = TxsOf(s) \cup ToSet(x.txs)
<1> DEFINE u == Append(s, x)
<1>1. /\ DOMAIN s = 1..Len(s) /\ DOMAIN u = 1..(Len(s) + 1) /\ Len(s) \in Nat
      /\ u[Len(s) + 1] = x /\ \A i \in 1..Len(s) : u[i] = s[i]
  OBVIOUS
<1> HIDE DEF u
<1>2. UNION {ToSet(u[i].txs) : i \in 1..(Len(s) + 1)} =
          (UNION {ToSet(s[i].txs) : i \in 1..Len(s)}) \cup ToSet(x.txs)
  <2> DEFINE N == Len(s)
  <2>1. \A i \in 1..(N + 1) : (i \in 1..N /\ u[i] = s[i]) \/ (i = N + 1 /\ u[i] = x)
    BY <1>1
  <2>2. (N + 1) \in 1..(N + 1) /\ \A i \in 1..N : i \in 1..(N + 1)
    BY <1>1
  <2> HIDE DEF N
  <2> QED
    BY <1>1, <2>1, <2>2 DEF N
<1> QED
  BY <1>1, <1>2 DEF u, TxsOf

(* Appending to a log, or to a wire, keeps its type and its last record.   *)
LEMMA AppendType ==
    ASSUME NEW S, NEW s \in Seq(S), NEW x \in S
    PROVE  /\ Append(s, x) \in Seq(S)
           /\ Append(s, x) # <<>>
           /\ Len(Append(s, x)) = Len(s) + 1
           /\ Append(s, x)[Len(s) + 1] = x
           /\ \A i \in 1..Len(s) : Append(s, x)[i] = s[i]
OBVIOUS

(* What broadcast puts on the wires.                                       *)
LEMMA BroadcastType ==
    ASSUME wire \in [Node \X Node -> Seq(Message)], NEW n, NEW kind, NEW body,
           [kind |-> kind, body |-> body] \in Message, Broadcast(n, kind, body)
    PROVE  wire' \in [Node \X Node -> Seq(Message)]
<1> DEFINE msg == [kind |-> kind, body |-> body]
<1>1. \A p \in Node \X Node : Append(wire[p], msg) \in Seq(Message)
  BY AppendType
<1>2. wire' = [p \in Node \X Node |->
                 IF p[1] = n /\ {n, p[2]} \in links THEN Append(wire[p], msg) ELSE wire[p]]
  BY DEF Broadcast
<1> HIDE DEF msg
<1> QED
  BY <1>1, <1>2

(* Taking a message from a wire.                                           *)
LEMMA TailType ==
    ASSUME NEW S, NEW s \in Seq(S), s # <<>>
    PROVE  /\ Tail(s) \in Seq(S) /\ Head(s) \in S
           /\ Front(s) \in Seq(S)
           /\ \A i \in DOMAIN Tail(s) : i + 1 \in DOMAIN s /\ Tail(s)[i] = s[i + 1]
           /\ \A i \in DOMAIN Front(s) : i \in DOMAIN s /\ Front(s)[i] = s[i]
           /\ 1 \in DOMAIN s /\ Head(s) = s[1]
BY DEF Front

(* Blocks and transactions are told apart by the kind of the message.      *)
LEMMA MessageBody ==
    ASSUME NEW msg \in Message
    PROVE  /\ msg.kind = "tx" => msg.body \in Tx
           /\ msg.kind = "block" => msg.body \in Block
BY DEF Message

(* Both invariants hold in the initial states.                             *)
LEMMA InitSafe == Init => Safe
<1> SUFFICES ASSUME Init PROVE Safe
  OBVIOUS
<1>1. GenesisBank \in Store
  BY DEF GenesisBank, Store
<1>2. ChainOK(NewChainState)
  BY NewChainOK
<1>3. EmptyPool \in Pool /\ PoolOK(EmptyPool)
  BY DrainOK
<1>4. TypeInv
  BY <1>1, <1>3 DEF Init, TypeInv
<1>5. ChainsOK /\ JobOK /\ PoolsOK /\ ConfirmedIsLogged
  BY <1>2, <1>3 DEF Init, ChainsOK, JobOK, PoolsOK, ConfirmedIsLogged
<1> QED
  BY <1>4, <1>5 DEF Safe

(* Every step keeps the first invariant.                                   *)
LEMMA NextSafe == Safe /\ [Next]_vars => Safe'
<1> SUFFICES ASSUME Safe, [Next]_vars PROVE Safe'
  OBVIOUS
<1> USE DEF Safe
<1>1. CASE UNCHANGED vars
  BY <1>1 DEF vars, local, net, TypeInv, ChainsOK, JobOK, PoolsOK, ConfirmedIsLogged
<1>2. ASSUME NEW n \in Node, NEW t \in Tx, SendTransaction(n, t) PROVE Safe'
  <2>1. pool' \in [Node -> Pool] /\ PoolsOK'
    BY <1>2, SubmitOK DEF SendTransaction, TypeInv, PoolsOK
  <2>2. wire' \in [Node \X Node -> Seq(Message)]
    <3>1. [kind |-> "tx", body |-> t] \in Message
      BY DEF Message
    <3> QED
      BY <1>2, <3>1, BroadcastType DEF SendTransaction, TypeInv
  <2> QED
    BY <1>2, <2>1, <2>2 DEF SendTransaction, TypeInv, ChainsOK, JobOK, ConfirmedIsLogged
<1>3. ASSUME NEW m \in Node, NEW n \in Node, ReceiveTx(m, n) PROVE Safe'
  <2>1. /\ Head(wire[<<m, n>>]).body \in Tx
        /\ Tail(wire[<<m, n>>]) \in Seq(Message)
    BY <1>3, TailType, MessageBody DEF ReceiveTx, TypeInv
  <2>2. pool' \in [Node -> Pool] /\ PoolsOK'
    BY <1>3, <2>1, SubmitOK DEF ReceiveTx, TypeInv, PoolsOK
  <2>3. wire' \in [Node \X Node -> Seq(Message)]
    BY <1>3, <2>1 DEF ReceiveTx, TypeInv
  <2> QED
    BY <1>3, <2>2, <2>3 DEF ReceiveTx, TypeInv, ChainsOK, JobOK, ConfirmedIsLogged
<1>4. ASSUME NEW n \in Node, MineExecute(n) PROVE Safe'
  <2> DEFINE txs    == Drained(pool[n])
             header == Candidate(chain[n], 0)
             height == chain[n].headers[chain[n].tip].height + 1
             after  == ExecuteBlock(bank[n], txs, n, Emission(height))
             block  == [id |-> GenesisId, prev |-> header.prev, height |-> header.height,
                        time |-> header.time, target |-> header.target,
                        miner |-> n, txs |-> txs, root |-> after]
  <2>1. /\ phase[n] = "idle"
        /\ pool' = [pool EXCEPT ![n] = Drain(@)]
        /\ bank' = [bank EXCEPT ![n] = after]
        /\ job' = [job EXCEPT ![n] = block]
        /\ phase' = [phase EXCEPT ![n] = "executed"]
        /\ UNCHANGED <<chain, status, head, log, wire, mined>>
    BY <1>4 DEF MineExecute, net
  <2>2. txs \in Seq(Tx)
    BY DEF TypeInv, Pool, Drained
  <2>3. /\ header.prev \in Nat /\ header.height \in Nat /\ header.time = 0
        /\ header.target \in 0..MaxWord /\ height \in Nat
    <3>1. IsTree(chain[n]) /\ chain[n].tip \in KnownBlocks(chain[n])
      BY DEF ChainsOK, ChainOK, Heaviest
    <3>2. /\ chain[n].tip \in Nat /\ chain[n].headers[chain[n].tip].height \in Nat
          /\ TargetAfter(chain[n], chain[n].tip) \in 0..MaxWord
      BY <3>1, TreeHeights, TargetType DEF IsTree
    <3> QED
      BY <3>2 DEF Candidate
  <2> HIDE DEF txs, header, height
  <2>4. after \in Store
    BY <2>2, <2>3, ExecuteType DEF TypeInv
  <2> HIDE DEF after
  <2>5. block \in Block
    BY <2>2, <2>3, <2>4, NodeAssumption DEF Block
  <2> HIDE DEF block
  <2>6. pool' \in [Node -> Pool] /\ PoolsOK'
    BY <2>1, DrainOK DEF TypeInv, PoolsOK
  <2>7. TypeInv'
    BY <2>1, <2>4, <2>6 DEF TypeInv
  <2>8. JobOK'
    BY <2>1, <2>5 DEF TypeInv, JobOK
  <2> QED
    BY <2>1, <2>6, <2>7, <2>8 DEF ChainsOK, ConfirmedIsLogged
<1>5. ASSUME NEW n \in Node, MineAppend(n) PROVE Safe'
  <2>1. PICK now \in Clock[n] :
          LET block == [job[n] EXCEPT !.id = mined + 1, !.time = now]
          IN  /\ phase[n] = "executed"
              /\ mined' = mined + 1
              /\ log' = [log EXCEPT ![n] = Append(@, block)]
              /\ job' = [job EXCEPT ![n] = block]
              /\ phase' = [phase EXCEPT ![n] = "logged"]
              /\ UNCHANGED <<chain, bank, pool, status, head, wire>>
    BY <1>5 DEF MineAppend, LogAppend, net
  <2> DEFINE block == [job[n] EXCEPT !.id = mined + 1, !.time = now]
  <2>2. now \in Nat
    BY NodeAssumption
  <2>3. block \in Block
    <3>1. job[n] \in Block /\ mined + 1 \in Nat
      BY <2>1 DEF TypeInv, JobOK
    <3> QED
      BY <2>2, <3>1 DEF Block
  <2> HIDE DEF block
  <2>4. /\ phase[n] = "executed"
        /\ mined' = mined + 1
        /\ log' = [log EXCEPT ![n] = Append(@, block)]
        /\ job' = [job EXCEPT ![n] = block]
        /\ phase' = [phase EXCEPT ![n] = "logged"]
        /\ UNCHANGED <<chain, bank, pool, status, head, wire>>
    BY <2>1 DEF block
  <2>5. /\ Append(log[n], block) \in Seq(Block)
        /\ Append(log[n], block) # <<>>
        /\ Append(log[n], block)[Len(Append(log[n], block))] = block
    BY <2>3, AppendType DEF TypeInv
  <2>6. TypeInv'
    BY <2>4, <2>5 DEF TypeInv
  <2>7. JobOK'
    BY <2>3, <2>4, <2>5 DEF TypeInv, JobOK
  <2>8. ConfirmedIsLogged'
    <3>1. TxsOf(Append(log[n], block)) = TxsOf(log[n]) \cup ToSet(block.txs)
      BY <2>3, LoggedGrows DEF TypeInv
    <3>2. \A k \in Node : status[k] \subseteq TxsOf(log[k])
      BY DEF ConfirmedIsLogged, TxsOf
    <3>3. \A k \in Node : status'[k] \subseteq TxsOf(log'[k])
      BY <2>4, <3>1, <3>2 DEF TypeInv
    <3> QED
      BY <3>3 DEF ConfirmedIsLogged, TxsOf
  <2> QED
    BY <2>4, <2>6, <2>7, <2>8 DEF ChainsOK, PoolsOK
<1>6. ASSUME NEW n \in Node, MineCommit(n) PROVE Safe'
  <2> DEFINE block == job[n]
             after == AddHeader(chain[n], block.id, block)
  <2>1. /\ phase[n] = "logged"
        /\ HeaderResult(chain[n], block.id, block) = "ok"
        /\ chain' = [chain EXCEPT ![n] = after]
        /\ status' = [status EXCEPT ![n] = @ \cup ToSet(block.txs)]
        /\ head' = [head EXCEPT ![n] = [slot |-> block.height, hash |-> after.tip]]
        /\ Broadcast(n, "block", block)
        /\ phase' = [phase EXCEPT ![n] = "idle"]
        /\ job' = [job EXCEPT ![n] = 0]
        /\ UNCHANGED <<bank, pool, log, mined>>
    BY <1>6 DEF MineCommit, Confirm, Advance
  <2>2. /\ block \in Block
        /\ log[n] \in Seq(Block) /\ log[n] # <<>> /\ log[n][Len(log[n])] = block
    BY <2>1 DEF TypeInv, JobOK
  <2> HIDE DEF block
  <2>3. ChainOK(after)
    BY <2>1, <2>2, AddOK DEF ChainsOK
  <2> HIDE DEF after
  <2>4. wire' \in [Node \X Node -> Seq(Message)]
    <3>1. [kind |-> "block", body |-> block] \in Message
      BY <2>2 DEF Message
    <3> QED
      BY <2>1, <3>1, BroadcastType DEF TypeInv
  <2>5. ToSet(block.txs) \subseteq Tx
    BY <2>2 DEF Block, ToSet
  <2>6. TypeInv'
    BY <2>1, <2>4, <2>5 DEF TypeInv
  <2>7. ChainsOK'
    BY <2>1, <2>3 DEF ChainsOK, TypeInv
  <2>8. JobOK'
    BY <2>1 DEF TypeInv, JobOK
  <2>9. ConfirmedIsLogged'
    <3>1. ToSet(block.txs) \subseteq UNION {ToSet(log[n][i].txs) : i \in DOMAIN log[n]}
      <4>1. Len(log[n]) \in DOMAIN log[n]
        BY <2>2
      <4> QED
        BY <2>2, <4>1
    <3> QED
      BY <2>1, <3>1 DEF TypeInv, ConfirmedIsLogged
  <2> QED
    BY <2>1, <2>6, <2>7, <2>8, <2>9 DEF PoolsOK
<1>7. ASSUME NEW n \in Node, MineRejected(n) PROVE Safe'
  BY <1>7 DEF MineRejected, Exit, TypeInv, ChainsOK, JobOK, PoolsOK, ConfirmedIsLogged
<1>8. ASSUME NEW m \in Node, NEW n \in Node, ReceiveBlock(m, n) PROVE Safe'
  <2> DEFINE block == Head(wire[<<m, n>>]).body
             added == AddHeader(chain[n], block.id, block)
             after == Execute(bank[n], block)
  <2>1. /\ phase[n] = "idle"
        /\ wire[<<m, n>>] # <<>> /\ Head(wire[<<m, n>>]).kind = "block"
        /\ wire' = [wire EXCEPT ![<<m, n>>] = Tail(@)]
        /\ UNCHANGED <<pool, phase, job, mined>>
    BY <1>8 DEF ReceiveBlock
  <2>2. block \in Block /\ Tail(wire[<<m, n>>]) \in Seq(Message)
    BY <2>1, TailType, MessageBody DEF TypeInv
  <2>3. CASE HeaderResult(chain[n], block.id, block) = "ok"
    <3>1. /\ chain' = [chain EXCEPT ![n] = added]
          /\ bank' = [bank EXCEPT ![n] = after]
          /\ \/ /\ log' = [log EXCEPT ![n] = Append(@, block)]
                /\ status' = [status EXCEPT ![n] = @ \cup ToSet(block.txs)]
                /\ head' = [head EXCEPT ![n] = [slot |-> block.height, hash |-> added.tip]]
             \/ UNCHANGED <<log, status, head>>
      BY <1>8, <2>3 DEF ReceiveBlock, Executes, LogAppend, Confirm, Advance
    <3> HIDE DEF block
    <3>2. ChainOK(added)
      BY <2>2, <2>3, AddOK DEF ChainsOK
    <3>3. after \in Store
      BY <2>2, ExecuteType DEF Execute, Block, TypeInv
    <3> HIDE DEF added, after
    <3>4. ToSet(block.txs) \subseteq Tx
      BY <2>2 DEF Block, ToSet
    <3>5. /\ Append(log[n], block) \in Seq(Block)
          /\ TxsOf(Append(log[n], block)) = TxsOf(log[n]) \cup ToSet(block.txs)
      <4>1. log[n] \in Seq(Block)
        BY DEF TypeInv
      <4> QED
        BY <2>2, <4>1, AppendType, LoggedGrows
    <3>6. TypeInv'
      <4>1. /\ log' \in [Node -> Seq(Block)]
            /\ status' \in [Node -> SUBSET Tx]
            /\ DOMAIN head' = Node
        BY <3>1, <3>4, <3>5 DEF TypeInv
      <4>2. DOMAIN chain' = Node /\ bank' \in [Node -> Store]
        BY <3>1, <3>3 DEF TypeInv
      <4>3. wire' \in [Node \X Node -> Seq(Message)]
        BY <2>1, <2>2 DEF TypeInv
      <4> QED
        BY <2>1, <4>1, <4>2, <4>3 DEF TypeInv
    <3>7. ChainsOK'
      BY <3>1, <3>2 DEF ChainsOK, TypeInv
    <3>8. ASSUME NEW k \in Node, k # n PROVE log'[k] = log[k] /\ status'[k] = status[k]
      BY <3>1, <3>8 DEF TypeInv
    <3>9. JobOK'
      BY <2>1, <3>8 DEF JobOK, TypeInv
    <3>10. ConfirmedIsLogged'
      <4>1. \A k \in Node : status[k] \subseteq TxsOf(log[k])
        BY DEF ConfirmedIsLogged, TxsOf
      <4>2. status'[n] \subseteq TxsOf(log'[n])
        <5>1. CASE UNCHANGED <<log, status, head>>
          BY <4>1, <5>1
        <5>2. CASE /\ log' = [log EXCEPT ![n] = Append(@, block)]
                   /\ status' = [status EXCEPT ![n] = @ \cup ToSet(block.txs)]
          <6>1. log'[n] = Append(log[n], block) /\ status'[n] = status[n] \cup ToSet(block.txs)
            BY <5>2 DEF TypeInv
          <6> QED
            BY <3>5, <4>1, <6>1
        <5> QED
          BY <3>1, <5>1, <5>2
      <4>3. \A k \in Node : status'[k] \subseteq TxsOf(log'[k])
        BY <3>8, <4>1, <4>2
      <4> QED
        BY <4>3 DEF ConfirmedIsLogged, TxsOf
    <3> QED
      BY <2>1, <3>6, <3>7, <3>9, <3>10 DEF PoolsOK
  <2>4. CASE HeaderResult(chain[n], block.id, block) # "ok"
    <3>1. UNCHANGED <<chain, bank, log, status, head>>
      BY <1>8, <2>4 DEF ReceiveBlock, Executes
    <3> QED
      BY <2>1, <2>2, <3>1 DEF TypeInv, ChainsOK, JobOK, PoolsOK, ConfirmedIsLogged
  <2> QED
    BY <2>3, <2>4
<1>9. ASSUME NEW n \in Node, Crash(n) PROVE Safe'
  BY <1>9 DEF Crash, Exit, TypeInv, ChainsOK, JobOK, PoolsOK, ConfirmedIsLogged
<1>10. ASSUME NEW l \in links, LinkBreaks(l) PROVE Safe'
  BY <1>10 DEF LinkBreaks, local, TypeInv, ChainsOK, JobOK, PoolsOK, ConfirmedIsLogged
<1>11. ASSUME NEW m \in Node, NEW n \in Node, Lose(m, n) PROVE Safe'
  <2>1. Front(wire[<<m, n>>]) \in Seq(Message)
    BY <1>11, TailType DEF Lose, TypeInv
  <2> QED
    BY <1>11, <2>1 DEF Lose, local, TypeInv, ChainsOK, JobOK, PoolsOK, ConfirmedIsLogged
<1>12. ASSUME NEW n \in Node, NEW m \in Node, Connect(n, m) PROVE Safe'
  BY <1>12 DEF Connect, local, TypeInv, ChainsOK, JobOK, PoolsOK, ConfirmedIsLogged
<1>13. ASSUME NEW n \in Node, Restart(n) PROVE Safe'
  <2>1. GenesisBank \in Store
    BY DEF GenesisBank, Store
  <2>2. TypeInv'
    BY <1>13, <2>1, DrainOK DEF Restart, FreshBank, net, TypeInv
  <2>3. ChainsOK'
    BY <1>13, NewChainOK DEF Restart, ChainsOK, TypeInv
  <2>4. JobOK'
    <3>1. 1 \in 1..(Len(log[n]) + 1)
      BY DEF TypeInv
    <3> QED
      BY <1>13, <3>1 DEF Restart, JobOK, TypeInv
  <2>5. PoolsOK'
    BY <1>13, DrainOK DEF Restart, PoolsOK, TypeInv
  <2>6. ConfirmedIsLogged'
    BY <1>13 DEF Restart, ConfirmedIsLogged, TypeInv
  <2> QED
    BY <2>2, <2>3, <2>4, <2>5, <2>6
<1>14. ASSUME NEW n \in Node, ReplayRecord(n) PROVE Safe'
  <2> DEFINE block == log[n][job[n]]
             r == Replay([chain |-> chain[n], bank |-> bank[n]], block)
  <2>1. /\ phase[n] = "replaying"
        /\ job[n] \in DOMAIN log[n]
        /\ chain' = [chain EXCEPT ![n] = r.chain]
        /\ bank' = [bank EXCEPT ![n] = r.bank]
        /\ job' = [job EXCEPT ![n] = @ + 1]
        /\ phase' = [phase EXCEPT ![n] = IF r.ok THEN "replaying" ELSE "failed"]
        /\ UNCHANGED <<pool, status, head, log, wire, mined>>
    BY <1>14 DEF ReplayRecord, net
  <2>2. block \in Block
    BY <2>1 DEF TypeInv
  <2>3. /\ r.chain = IF HeaderResult(chain[n], block.id, block) = "ok"
                     THEN AddHeader(chain[n], block.id, block) ELSE chain[n]
        /\ r.bank = Execute(bank[n], block)
    BY DEF Replay
  <2> HIDE DEF block, r
  <2>4. ChainOK(r.chain)
    BY <2>2, <2>3, AddOK DEF ChainsOK
  <2>5. r.bank \in Store
    BY <2>2, <2>3, ExecuteType DEF Execute, Block, TypeInv
  <2>6. TypeInv'
    BY <2>1, <2>5 DEF TypeInv
  <2>7. ChainsOK'
    BY <2>1, <2>4 DEF ChainsOK, TypeInv
  <2>8. JobOK'
    <3>1. job[n] + 1 \in 1..(Len(log[n]) + 1)
      BY <2>1 DEF TypeInv, JobOK
    <3> QED
      BY <2>1, <3>1 DEF JobOK, TypeInv
  <2> QED
    BY <2>1, <2>6, <2>7, <2>8 DEF PoolsOK, ConfirmedIsLogged
<1>15. ASSUME NEW n \in Node, Start(n) PROVE Safe'
  BY <1>15 DEF Start, Advance, TypeInv, ChainsOK, JobOK, PoolsOK, ConfirmedIsLogged
<1> QED
  BY <1>1, <1>2, <1>3, <1>4, <1>5, <1>6, <1>7, <1>8, <1>9, <1>10, <1>11, <1>12, <1>13,
     <1>14, <1>15 DEF Next

(* In every reachable state.                                               *)
LEMMA Safety == Spec => []Safe
BY InitSafe, NextSafe, PTL DEF Spec

(* add_header's fork choice: no node ever knows of a block with more work  *)
(* than its tip, whatever was received, lost or replayed.                  *)
THEOREM TipIsHeaviest == Spec => []TipHeaviest
<1>1. Safe => TipHeaviest
  BY DEF Safe, ChainsOK, ChainOK, Heaviest, TipHeaviest
<1> QED
  BY <1>1, Safety, PTL

(* The pool's set of signatures is exactly that of its transactions.       *)
THEOREM PoolsAreOK == Spec => []PoolsOK
<1>1. Safe => PoolsOK
  BY DEF Safe
<1> QED
  BY <1>1, Safety, PTL

(* A confirmed signature is one of a block in the node's log.              *)
THEOREM ConfirmedAreLogged == Spec => []ConfirmedIsLogged
<1>1. Safe => ConfirmedIsLogged
  BY DEF Safe
<1> QED
  BY <1>1, Safety, PTL

(* What the action property says of one step of one node.                  *)
Improves(n) ==
    chain'[n].tip # chain[n].tip /\ phase'[n] # "replaying" =>
        /\ chain[n].tip \in KnownBlocks(chain'[n])
        /\ chain'[n].work[chain[n].tip] < chain'[n].work[chain'[n].tip]

(* A header that is added moves the tip to more work only.                 *)
LEMMA AddImproves ==
    ASSUME Safe, NEW n \in Node, NEW block \in Block,
           chain' = [chain EXCEPT ![n] =
                       IF HeaderResult(chain[n], block.id, block) = "ok"
                       THEN AddHeader(chain[n], block.id, block) ELSE chain[n]]
    PROVE  \A k \in Node : Improves(k)
<1>1. ChainOK(chain[n]) /\ DOMAIN chain = Node
  BY DEF Safe, ChainsOK, TypeInv
<1>2. CASE HeaderResult(chain[n], block.id, block) = "ok"
  <2> DEFINE d == AddHeader(chain[n], block.id, block)
  <2>1. /\ chain[n].tip \in KnownBlocks(d)
        /\ d.tip # chain[n].tip => d.work[chain[n].tip] < d.work[d.tip]
    BY <1>1, <1>2, AddOK
  <2> HIDE DEF d
  <2>2. chain' = [chain EXCEPT ![n] = d]
    BY <1>2 DEF d
  <2> QED
    BY <1>1, <2>1, <2>2 DEF Improves
<1>3. CASE HeaderResult(chain[n], block.id, block) # "ok"
  BY <1>1, <1>3 DEF Improves
<1> QED
  BY <1>2, <1>3

(* A running node only leaves its tip for strictly more work.              *)
THEOREM TipNeverSwapsBack == Spec => TipOnlyImproves
<1>1. Safe /\ [Next]_vars => [\A n \in Node : Improves(n)]_vars
  <2> SUFFICES ASSUME Safe, Next PROVE \A k \in Node : Improves(k)
    OBVIOUS
  <2> USE DEF Safe
  <2>1. CASE UNCHANGED chain
    BY <2>1 DEF Improves
  <2>2. ASSUME NEW n \in Node, MineCommit(n) PROVE \A k \in Node : Improves(k)
    <3>1. job[n] \in Block
      BY <2>2 DEF MineCommit, JobOK
    <3>2. chain' = [chain EXCEPT ![n] =
                      IF HeaderResult(chain[n], job[n].id, job[n]) = "ok"
                      THEN AddHeader(chain[n], job[n].id, job[n]) ELSE chain[n]]
      BY <2>2 DEF MineCommit
    <3> QED
      BY <3>1, <3>2, AddImproves
  <2>3. ASSUME NEW m \in Node, NEW n \in Node, ReceiveBlock(m, n)
        PROVE  \A k \in Node : Improves(k)
    <3> DEFINE block == Head(wire[<<m, n>>]).body
    <3>1. block \in Block
      BY <2>3, TailType, MessageBody DEF ReceiveBlock, TypeInv
    <3>2. \/ UNCHANGED chain
          \/ chain' = [chain EXCEPT ![n] =
                         IF HeaderResult(chain[n], block.id, block) = "ok"
                         THEN AddHeader(chain[n], block.id, block) ELSE chain[n]]
      BY <2>3 DEF ReceiveBlock
    <3> HIDE DEF block
    <3> QED
      BY <2>1, <3>1, <3>2, AddImproves
  <2>4. ASSUME NEW n \in Node, ReplayRecord(n) PROVE \A k \in Node : Improves(k)
    <3> DEFINE block == log[n][job[n]]
    <3>1. block \in Block
      BY <2>4 DEF ReplayRecord, TypeInv
    <3>2. chain' = [chain EXCEPT ![n] =
                      IF HeaderResult(chain[n], block.id, block) = "ok"
                      THEN AddHeader(chain[n], block.id, block) ELSE chain[n]]
      BY <2>4 DEF ReplayRecord, Replay
    <3> HIDE DEF block
    <3> QED
      BY <3>1, <3>2, AddImproves
  <2>5. ASSUME NEW n \in Node, Restart(n) PROVE \A k \in Node : Improves(k)
    BY <2>5 DEF Restart, Improves, TypeInv
  <2>6. ASSUME NEW n \in Node,
               \/ MineExecute(n) \/ MineAppend(n) \/ MineRejected(n) \/ Crash(n) \/ Start(n)
        PROVE  UNCHANGED chain
    BY <2>6 DEF MineExecute, MineAppend, MineRejected, Crash, Start
  <2>7. ASSUME NEW m \in Node, NEW n \in Node, ReceiveTx(m, n) \/ Lose(m, n) \/ Connect(m, n)
        PROVE  UNCHANGED chain
    BY <2>7 DEF ReceiveTx, Lose, Connect, local
  <2>8. ASSUME NEW n \in Node, NEW t \in Tx, SendTransaction(n, t) PROVE UNCHANGED chain
    BY <2>8 DEF SendTransaction
  <2>9. ASSUME NEW l \in links, LinkBreaks(l) PROVE UNCHANGED chain
    BY <2>9 DEF LinkBreaks, local
  <2> QED
    BY <2>1, <2>2, <2>3, <2>4, <2>5, <2>6, <2>7, <2>8, <2>9 DEF Next
<1>2. [\A n \in Node : Improves(n)]_vars <=>
        [\A n \in Node :
           chain'[n].tip # chain[n].tip /\ phase'[n] # "replaying" =>
               /\ chain[n].tip \in KnownBlocks(chain'[n])
               /\ chain'[n].work[chain[n].tip] < chain'[n].work[chain'[n].tip]]_vars
  BY DEF Improves
<1> QED
  BY <1>1, <1>2, Safety, PTL DEF Spec, TipOnlyImproves

----------------------------------------------------------------------------
(* Where blocks come from.                                                 *)

(* A block is mined once it is appended to a log.                          *)
LEMMA MinedGrows ==
    ASSUME log \in [Node -> Seq(Block)], NEW n \in Node, NEW x \in Block,
           log' = [log EXCEPT ![n] = Append(@, x)]
    PROVE  Mined' = Mined \cup {x}
<1>1. ToSet(Append(log[n], x)) = ToSet(log[n]) \cup {x}
  <2> DEFINE s == log[n]
             u == Append(s, x)
  <2>1. /\ s \in Seq(Block) /\ DOMAIN s = 1..Len(s) /\ Len(s) \in Nat
        /\ DOMAIN u = 1..(Len(s) + 1)
        /\ u[Len(s) + 1] = x /\ \A i \in 1..Len(s) : u[i] = s[i]
    OBVIOUS
  <2> HIDE DEF s, u
  <2>2. ToSet(u) = ToSet(s) \cup {x}
    <3>1. ASSUME NEW y \in ToSet(u) PROVE y \in ToSet(s) \cup {x}
      <4>1. PICK i \in DOMAIN u : y = u[i]
        BY DEF ToSet
      <4>2. i = Len(s) + 1 \/ i \in 1..Len(s)
        BY <2>1
      <4> QED
        BY <2>1, <4>1, <4>2 DEF ToSet
    <3>2. ASSUME NEW y \in ToSet(s) \cup {x} PROVE y \in ToSet(u)
      <4>1. CASE y = x
        <5>1. Len(s) + 1 \in DOMAIN u
          BY <2>1
        <5> QED
          BY <2>1, <4>1, <5>1 DEF ToSet
      <4>2. CASE y \in ToSet(s)
        <5>1. PICK i \in 1..Len(s) : y = s[i]
          BY <2>1, <4>2 DEF ToSet
        <5>2. i \in DOMAIN u /\ u[i] = y
          BY <2>1, <5>1
        <5> QED
          BY <5>2 DEF ToSet
      <4> QED
        BY <4>1, <4>2
    <3> QED
      BY <3>1, <3>2
  <2> QED
    BY <2>2 DEF s, u
<1>2. \A k \in Node : log'[k] = IF k = n THEN Append(log[n], x) ELSE log[k]
  OBVIOUS
<1>3. ASSUME NEW y PROVE y \in Mined' <=> y \in Mined \cup {x}
  BY <1>1, <1>2 DEF Mined
<1> QED
  BY <1>3

(* Records of logs are mined.                                              *)
LEMMA RecordMined ==
    ASSUME log \in [Node -> Seq(Block)], NEW n \in Node, NEW i \in DOMAIN log[n]
    PROVE  log[n][i] \in Mined
BY DEF Mined, ToSet

(* A block of M keeps the headers in M.                                    *)
LEMMA HeadersAdd ==
    ASSUME NEW c, NEW M, ChainOK(c), HeadersFrom(c, M),
           NEW x \in M, HeaderResult(c, x.id, x) = "ok"
    PROVE  HeadersFrom(AddHeader(c, x.id, x), M)
<1>1. x.id \notin KnownBlocks(c) /\ DOMAIN c.work = KnownBlocks(c)
  BY ResultOk DEF ChainOK, Heaviest
<1> DEFINE d == AddHeader(c, x.id, x)
<1>2. /\ KnownBlocks(d) = KnownBlocks(c) \cup {x.id}
      /\ d.headers[x.id] = x
      /\ \A b \in KnownBlocks(c) : d.headers[b] = c.headers[b]
  BY <1>1, AddFields
<1> HIDE DEF d
<1>3. HeadersFrom(d, M)
  BY <1>2 DEF HeadersFrom
<1> QED
  BY <1>3 DEF d

(* The genesis alone.                                                      *)
LEMMA HeadersNew == \A M : HeadersFrom(NewChainState, M)
BY DEF HeadersFrom, NewChainState, KnownBlocks

(* More blocks.                                                            *)
LEMMA FromMore ==
    ASSUME NEW M, NEW N, M \subseteq N
    PROVE  /\ \A c : HeadersFrom(c, M) => HeadersFrom(c, N)
           /\ \A w : BlocksFrom(w, M) => BlocksFrom(w, N)
BY DEF HeadersFrom, BlocksFrom

(* Taking a message from a wire, or losing the last one.                   *)
LEMMA FewerBlocks ==
    ASSUME NEW M, wire \in [Node \X Node -> Seq(Message)], BlocksFrom(wire, M),
           NEW q \in Node \X Node, wire[q] # <<>>,
           wire' = [wire EXCEPT ![q] = Tail(@)] \/ wire' = [wire EXCEPT ![q] = Front(@)]
    PROVE  BlocksFrom(wire', M)
<1> SUFFICES ASSUME NEW p \in Node \X Node, NEW i \in DOMAIN wire'[p], wire'[p][i].kind = "block"
             PROVE  wire'[p][i].body \in M
  BY DEF BlocksFrom
<1>1. CASE p # q
  BY <1>1 DEF BlocksFrom
<1>2. CASE p = q
  <2>1. wire'[p] = Tail(wire[p]) \/ wire'[p] = Front(wire[p])
    BY <1>2
  <2>2. \E j \in DOMAIN wire[p] : wire'[p][i] = wire[p][j]
    <3>1. wire[p] \in Seq(Message) /\ wire[p] # <<>>
      BY <1>2
    <3>2. CASE wire'[p] = Tail(wire[p])
      <4>1. i + 1 \in DOMAIN wire[p] /\ wire'[p][i] = wire[p][i + 1]
        BY <3>1, <3>2, TailType
      <4> QED
        BY <4>1
    <3>3. CASE wire'[p] = Front(wire[p])
      BY <3>1, <3>3, TailType
    <3> QED
      BY <2>1, <3>2, <3>3
  <2> QED
    BY <2>2 DEF BlocksFrom
<1> QED
  BY <1>1, <1>2

(* A broadcast message adds no block that is not in M.                     *)
LEMMA MoreBlocks ==
    ASSUME NEW M, wire \in [Node \X Node -> Seq(Message)], BlocksFrom(wire, M),
           NEW n, NEW kind, NEW body, [kind |-> kind, body |-> body] \in Message,
           kind = "block" => body \in M, Broadcast(n, kind, body)
    PROVE  BlocksFrom(wire', M)
<1> DEFINE msg == [kind |-> kind, body |-> body]
<1> SUFFICES ASSUME NEW p \in Node \X Node, NEW i \in DOMAIN wire'[p], wire'[p][i].kind = "block"
             PROVE  wire'[p][i].body \in M
  BY DEF BlocksFrom
<1>1. CASE wire'[p] = wire[p]
  BY <1>1 DEF BlocksFrom
<1>2. CASE wire'[p] = Append(wire[p], msg)
  <2>1. msg.kind = kind /\ msg.body = body /\ msg \in Message
    OBVIOUS
  <2> HIDE DEF msg
  <2>2. (i \in DOMAIN wire[p] /\ wire'[p][i] = wire[p][i]) \/ wire'[p][i] = msg
    BY <1>2, <2>1
  <2> QED
    BY <2>1, <2>2 DEF BlocksFrom
<1> QED
  BY <1>1, <1>2 DEF Broadcast

(* Blocks keep coming from logs.                                           *)
LEMMA NextProvenance == Safe /\ Provenance /\ [Next]_vars => Provenance'
<1> SUFFICES ASSUME Safe, Provenance, [Next]_vars PROVE Provenance'
  OBVIOUS
<1> USE DEF Safe, Provenance
<1>0. /\ wire \in [Node \X Node -> Seq(Message)] /\ log \in [Node -> Seq(Block)]
      /\ DOMAIN chain = Node /\ mined \in Nat
  BY DEF TypeInv
<1>1. CASE UNCHANGED log /\ UNCHANGED chain /\ UNCHANGED mined /\ BlocksFrom(wire', Mined)
  BY <1>1 DEF Mined
<1>2. CASE UNCHANGED <<log, chain, mined, wire>>
  BY <1>1, <1>2
<1>3. ASSUME NEW n \in Node, NEW t \in Tx, SendTransaction(n, t) PROVE Provenance'
  <2>1. [kind |-> "tx", body |-> t] \in Message
    BY DEF Message
  <2>2. BlocksFrom(wire', Mined)
    BY <1>0, <1>3, <2>1, MoreBlocks DEF SendTransaction
  <2> QED
    BY <1>1, <1>3, <2>2 DEF SendTransaction
<1>4. ASSUME NEW m \in Node, NEW n \in Node, ReceiveTx(m, n) \/ Lose(m, n) PROVE Provenance'
  <2>1. BlocksFrom(wire', Mined)
    BY <1>0, <1>4, FewerBlocks DEF ReceiveTx, Lose
  <2> QED
    BY <1>1, <1>4, <2>1 DEF ReceiveTx, Lose, local
<1>5. ASSUME NEW n \in Node, MineRejected(n) \/ Crash(n) PROVE Provenance'
  <2>1. BlocksFrom(wire', Mined)
    <3>1. \A p \in Node \X Node : wire'[p] = <<>> \/ wire'[p] = wire[p]
      BY <1>0, <1>5 DEF MineRejected, Crash, Exit
    <3>2. DOMAIN <<>> = {}
      OBVIOUS
    <3> QED
      BY <3>1, <3>2 DEF BlocksFrom
  <2> QED
    BY <1>1, <1>5, <2>1 DEF MineRejected, Crash
<1>6. ASSUME NEW n \in Node, MineAppend(n) PROVE Provenance'
  <2>1. PICK x \in Block : /\ x.id = mined + 1
                           /\ mined' = mined + 1
                           /\ log' = [log EXCEPT ![n] = Append(@, x)]
                           /\ UNCHANGED <<chain, wire>>
    <3>1. PICK now \in Clock[n] :
            LET block == [job[n] EXCEPT !.id = mined + 1, !.time = now]
            IN  /\ phase[n] = "executed"
                /\ mined' = mined + 1
                /\ log' = [log EXCEPT ![n] = Append(@, block)]
                /\ UNCHANGED <<chain, wire>>
      BY <1>6 DEF MineAppend, LogAppend, net
    <3> DEFINE block == [job[n] EXCEPT !.id = mined + 1, !.time = now]
    <3>2. job[n] \in Block /\ now \in Nat
      BY <3>1, NodeAssumption DEF JobOK
    <3>3. block \in Block /\ block.id = mined + 1
      <4>1. mined + 1 \in Nat
        BY <1>0
      <4>2. block \in Block
        BY <3>2, <4>1 DEF Block
      <4>3. block.id = mined + 1
        BY <3>2, <4>1 DEF Block
      <4> QED
        BY <4>2, <4>3
    <3> HIDE DEF block
    <3>4. /\ mined' = mined + 1
          /\ log' = [log EXCEPT ![n] = Append(@, block)]
          /\ UNCHANGED <<chain, wire>>
      BY <3>1 DEF block
    <3> QED
      BY <3>3, <3>4
  <2>2. Mined' = Mined \cup {x}
    BY <1>0, <2>1, MinedGrows
  <2>3. \A y \in Mined : y.id \in 1..mined
    BY DEF IdsOK
  <2>4. IdsOK(Mined', mined')
    BY <1>0, <2>1, <2>2, <2>3 DEF IdsOK
  <2> QED
    BY <2>1, <2>2, <2>4, FromMore
<1>7. ASSUME NEW n \in Node, MineCommit(n) PROVE Provenance'
  <2> DEFINE x == job[n]
  <2>1. /\ HeaderResult(chain[n], x.id, x) = "ok"
        /\ chain' = [chain EXCEPT ![n] = AddHeader(chain[n], x.id, x)]
        /\ Broadcast(n, "block", x)
        /\ UNCHANGED <<log, mined>>
    BY <1>7 DEF MineCommit
  <2>2. x \in Block /\ x \in Mined
    <3>1. /\ phase[n] = "logged" /\ x \in Block
          /\ log[n] # <<>> /\ log[n][Len(log[n])] = x /\ log[n] \in Seq(Block)
      BY <1>0, <1>7 DEF MineCommit, JobOK
    <3>2. Len(log[n]) \in DOMAIN log[n]
      BY <3>1
    <3> QED
      BY <1>0, <3>1, <3>2, RecordMined
  <2> HIDE DEF x
  <2>3. HeadersFrom(AddHeader(chain[n], x.id, x), Mined)
    BY <2>1, <2>2, HeadersAdd DEF ChainsOK
  <2>4. BlocksFrom(wire', Mined)
    <3>1. [kind |-> "block", body |-> x] \in Message
      BY <2>2 DEF Message
    <3> QED
      BY <1>0, <2>1, <2>2, <3>1, MoreBlocks
  <2>5. Mined' = Mined
    BY <2>1 DEF Mined
  <2> QED
    BY <1>0, <2>1, <2>3, <2>4, <2>5
<1>8. ASSUME NEW m \in Node, NEW n \in Node, ReceiveBlock(m, n) PROVE Provenance'
  <2> DEFINE x == Head(wire[<<m, n>>]).body
  <2>1. /\ wire[<<m, n>>] # <<>> /\ Head(wire[<<m, n>>]).kind = "block"
        /\ wire' = [wire EXCEPT ![<<m, n>>] = Tail(@)]
        /\ mined' = mined
        /\ \/ /\ HeaderResult(chain[n], x.id, x) = "ok"
              /\ chain' = [chain EXCEPT ![n] = AddHeader(chain[n], x.id, x)]
           \/ UNCHANGED chain
        /\ log' = [log EXCEPT ![n] = Append(@, x)] \/ UNCHANGED log
    BY <1>8 DEF ReceiveBlock, Executes, LogAppend
  <2>2. x \in Block /\ x \in Mined
    <3>1. /\ 1 \in DOMAIN wire[<<m, n>>] /\ wire[<<m, n>>][1] = Head(wire[<<m, n>>])
          /\ Head(wire[<<m, n>>]) \in Message
      BY <1>0, <2>1, TailType
    <3> QED
      BY <2>1, <3>1, MessageBody DEF BlocksFrom
  <2> HIDE DEF x
  <2>3. Mined' = Mined
    <3>1. CASE UNCHANGED log
      BY <3>1 DEF Mined
    <3>2. CASE log' = [log EXCEPT ![n] = Append(@, x)]
      <4>1. Mined' = Mined \cup {x}
        BY <1>0, <2>2, <3>2, MinedGrows
      <4> QED
        BY <2>2, <4>1
    <3> QED
      BY <2>1, <3>1, <3>2
  <2>4. BlocksFrom(wire', Mined)
    BY <1>0, <2>1, FewerBlocks
  <2>5. \A k \in Node : HeadersFrom(chain'[k], Mined)
    <3>1. HeaderResult(chain[n], x.id, x) = "ok" =>
            HeadersFrom(AddHeader(chain[n], x.id, x), Mined)
      BY <2>2, HeadersAdd DEF ChainsOK
    <3> QED
      BY <1>0, <2>1, <3>1
  <2> QED
    BY <2>1, <2>3, <2>4, <2>5
<1>9. ASSUME NEW n \in Node, Restart(n) PROVE Provenance'
  <2>1. /\ UNCHANGED <<log, wire, mined>>
        /\ chain' = [chain EXCEPT ![n] = NewChainState]
    BY <1>9 DEF Restart, net
  <2>2. Mined' = Mined
    BY <2>1 DEF Mined
  <2> QED
    BY <1>0, <2>1, <2>2, HeadersNew
<1>10. ASSUME NEW n \in Node, ReplayRecord(n) PROVE Provenance'
  <2> DEFINE x == log[n][job[n]]
  <2>1. /\ UNCHANGED <<log, wire, mined>>
        /\ job[n] \in DOMAIN log[n]
        /\ \/ /\ HeaderResult(chain[n], x.id, x) = "ok"
              /\ chain' = [chain EXCEPT ![n] = AddHeader(chain[n], x.id, x)]
           \/ chain' = [chain EXCEPT ![n] = chain[n]]
    BY <1>10 DEF ReplayRecord, Replay, net
  <2>2. x \in Mined
    BY <1>0, <2>1, RecordMined
  <2> HIDE DEF x
  <2>3. \A k \in Node : HeadersFrom(chain'[k], Mined)
    <3>1. HeaderResult(chain[n], x.id, x) = "ok" =>
            HeadersFrom(AddHeader(chain[n], x.id, x), Mined)
      BY <2>2, HeadersAdd DEF ChainsOK
    <3> QED
      BY <1>0, <2>1, <3>1
  <2>4. Mined' = Mined
    BY <2>1 DEF Mined
  <2> QED
    BY <2>1, <2>3, <2>4
<1>11. ASSUME NEW n \in Node, MineExecute(n) \/ Start(n) PROVE Provenance'
  BY <1>2, <1>11 DEF MineExecute, Start, net
<1>12. ASSUME NEW n \in Node, NEW m \in Node, Connect(n, m) PROVE Provenance'
  BY <1>2, <1>12 DEF Connect, local
<1>13. ASSUME NEW l \in links, LinkBreaks(l) PROVE Provenance'
  BY <1>2, <1>13 DEF LinkBreaks, local
<1>14. CASE UNCHANGED vars
  BY <1>2, <1>14 DEF vars, local, net
<1> QED
  BY <1>3, <1>4, <1>5, <1>6, <1>7, <1>8, <1>9, <1>10, <1>11, <1>12, <1>13, <1>14 DEF Next

----------------------------------------------------------------------------
(* What a log makes of the genesis.                                        *)

(* Replaying one record more.                                              *)
LEMMA ReplayAppend ==
    /\ ReplayOf(<<>>) = [chain |-> NewChainState, bank |-> GenesisBank, ok |-> TRUE]
    /\ \A s \in Seq(Block), x \in Block : ReplayOf(Append(s, x)) = ReplayNext(ReplayOf(s), x)
BY Replays!FoldEmpty, Replays!FoldAppend DEF ReplayOf, ReplayStep

(* It is what Replayed says.                                               *)
LEMMA ReplayedIs == \A n \in Node : Replayed(n) = ReplayOf(log[n])
BY DEF Replayed, ReplayOf, FreshBank, ReplayStep, Replays!Fold, FoldLeft, MapThenFoldSet,
       Replays!FoldLeft, Replays!MapThenFoldSet, Replays!Max, Max

(* In a chain of mined blocks, a block commits to the accounts of its      *)
(* parent with it executed.                                                *)
LEMMA RootStep ==
    ASSUME NEW M, NEW k, IdsOK(M, k), Rooted(M), NEW c, HeadersFrom(c, M),
           NEW x \in M, x.prev \in KnownBlocks(c)
    PROVE  x.root = Execute(RootOf(c, x.prev), x)
<1>1. GenesisId = 0 /\ \A y \in M : y.id # 0
  BY NodeAssumption DEF IdsOK
<1>2. CASE x.prev = GenesisId
  BY <1>1, <1>2 DEF Rooted, RootOf
<1>3. CASE x.prev # GenesisId
  <2>1. PICK y \in M : y.id = x.prev /\ x.root = Execute(y.root, x)
    BY <1>3 DEF Rooted
  <2>2. c.headers[x.prev] = y
    BY <1>3, <2>1 DEF HeadersFrom, IdsOK
  <2> QED
    BY <1>3, <2>1, <2>2 DEF RootOf
<1> QED
  BY <1>2, <1>3

(* A record that extends the chain of the log.                             *)
LEMMA LogExtends ==
    ASSUME NEW M, NEW s \in Seq(Block), LogOK(s, M), NEW x \in Block, x \in M,
           HeaderResult(ReplayOf(s).chain, x.id, x) = "ok",
           x.prev = ReplayOf(s).chain.tip,
           x.root = Execute(ReplayOf(s).bank, x)
    PROVE  /\ LogOK(Append(s, x), M)
           /\ ReplayOf(Append(s, x)).chain = AddHeader(ReplayOf(s).chain, x.id, x)
           /\ ReplayOf(Append(s, x)).bank = x.root
<1> DEFINE r == ReplayOf(s)
           d == AddHeader(r.chain, x.id, x)
           u == ReplayOf(Append(s, x))
<1>1. /\ r.ok = TRUE
      /\ ChainOK(r.chain)
      /\ HeadersFrom(r.chain, M)
      /\ r.bank = RootOf(r.chain, r.chain.tip)
  BY DEF LogOK
<1>2. u = ReplayNext(r, x)
  BY ReplayAppend
<1> HIDE DEF r, u
<1>3. HeaderResult(r.chain, x.id, x) = "ok" /\ x.prev = r.chain.tip /\ x.root = Execute(r.bank, x)
  BY DEF r
<1>4. u = [chain |-> d, bank |-> x.root, ok |-> TRUE]
  BY <1>1, <1>2, <1>3 DEF ReplayNext, Replay
<1>5. ChainOK(d) /\ d.tip = x.id
  BY <1>1, <1>3, AddOK
<1>6. HeadersFrom(d, M)
  BY <1>1, <1>3, HeadersAdd
<1>7. RootOf(d, d.tip) = x.root
  <2>1. x.id \notin KnownBlocks(r.chain) /\ GenesisId \in KnownBlocks(r.chain)
    BY <1>1, <1>3, ResultOk DEF ChainOK, IsTree
  <2>2. d.headers[x.id] = x
    BY <1>1, <2>1, AddFields DEF ChainOK, Heaviest
  <2> HIDE DEF d
  <2> QED
    BY <1>5, <2>1, <2>2 DEF RootOf
<1> HIDE DEF d
<1>8. /\ u.ok = TRUE
      /\ ChainOK(u.chain)
      /\ HeadersFrom(u.chain, M)
      /\ u.bank = RootOf(u.chain, u.chain.tip)
      /\ u.chain = d /\ u.bank = x.root
  BY <1>4, <1>5, <1>6, <1>7
<1> QED
  BY <1>8 DEF LogOK, u, d, r

(* More blocks.                                                            *)
LEMMA CleanMore ==
    ASSUME NEW M, NEW N, M \subseteq N
    PROVE  \A s : LogOK(s, M) => LogOK(s, N)
BY FromMore DEF LogOK

(* A node that does nothing stays in step with its log.                    *)
LEMMA SyncedSame ==
    ASSUME NEW n \in Node, Synced(n),
           phase'[n] = phase[n], job'[n] = job[n], chain'[n] = chain[n],
           bank'[n] = bank[n], head'[n] = head[n], log'[n] = log[n]
    PROVE  Synced(n)'
BY DEF Synced, Up

(* Mining keeps the node in step with its log: the drained transactions    *)
(* are executed ...                                                        *)
LEMMA CleanExecute ==
    ASSUME Safe, Clean, NEW n \in Node, MineExecute(n)
    PROVE  Clean'
<1> DEFINE c      == chain[n]
           txs    == Drained(pool[n])
           header == Candidate(c, 0)
           height == c.headers[c.tip].height + 1
           after  == ExecuteBlock(bank[n], txs, n, Emission(height))
           block  == [id |-> GenesisId, prev |-> header.prev, height |-> header.height,
                      time |-> header.time, target |-> header.target,
                      miner |-> n, txs |-> txs, root |-> after]
<1>1. /\ phase[n] = "idle"
      /\ bank' = [bank EXCEPT ![n] = after]
      /\ job' = [job EXCEPT ![n] = block]
      /\ phase' = [phase EXCEPT ![n] = "executed"]
      /\ UNCHANGED <<chain, head, log>>
  BY DEF MineExecute
<1>2. /\ DOMAIN job = Node /\ DOMAIN bank = Node /\ DOMAIN phase = Node
  BY DEF Safe, TypeInv
<1>3. /\ ReplayOf(log[n]).chain = c /\ ReplayOf(log[n]).bank = bank[n]
      /\ bank[n] = RootOf(c, c.tip)
      /\ head[n] = [slot |-> c.headers[c.tip].height, hash |-> c.tip]
  <2>1. LogOK(log[n], Mined) /\ Synced(n)
    BY DEF Clean
  <2> QED
    BY <1>1, <2>1 DEF LogOK, Synced, Up
<1>4. OnTip(block, c) /\ block.root = after
  <2>1. /\ header.prev = c.tip /\ header.height = height
        /\ header.target = TargetAfter(c, c.tip)
    BY DEF Candidate
  <2> HIDE DEF header, height, txs, c
  <2>2. /\ block.prev = header.prev /\ block.height = header.height
        /\ block.target = header.target /\ block.root = after
        /\ block.txs = txs /\ block.miner = n
    OBVIOUS
  <2> HIDE DEF block
  <2>3. block.root = Execute(RootOf(c, c.tip), block)
    BY <1>3, <2>1, <2>2 DEF Execute
  <2> QED
    BY <2>1, <2>2, <2>3 DEF OnTip, height
<1> HIDE DEF block, after
<1>5. Synced(n)'
  <2>1. phase'[n] = "executed" /\ job'[n] = block /\ bank'[n] = after
    BY <1>1, <1>2
  <2> QED
    BY <1>1, <1>3, <1>4, <2>1 DEF Synced, Up
<1>6. ASSUME NEW k \in Node, k # n PROVE Synced(k)'
  BY <1>1, <1>2, <1>6, SyncedSame DEF Clean
<1>7. Mined' = Mined
  BY <1>1 DEF Mined
<1> QED
  BY <1>1, <1>5, <1>6, <1>7 DEF Clean

(* ... the block is logged, and would be accepted ...                      *)
LEMMA CleanAppend ==
    ASSUME Safe, Provenance, Clean, NEW n \in Node, MineAppend(n), events' = {}
    PROVE  Clean'
<1> DEFINE c == chain[n]
           r == ReplayOf(log[n])
<1>1. PICK now \in Clock[n] :
        LET block == [job[n] EXCEPT !.id = mined + 1, !.time = now]
        IN  /\ phase[n] = "executed"
            /\ log' = [log EXCEPT ![n] = Append(@, block)]
            /\ job' = [job EXCEPT ![n] = block]
            /\ phase' = [phase EXCEPT ![n] = "logged"]
            /\ events' = events \cup
                 (IF now < chain[n].headers[block.prev].time THEN {"clock back"} ELSE {})
            /\ UNCHANGED <<chain, bank, head>>
  BY DEF MineAppend, LogAppend
<1> DEFINE x == [job[n] EXCEPT !.id = mined + 1, !.time = now]
<1>2. /\ DOMAIN job = Node /\ DOMAIN phase = Node
      /\ log \in [Node -> Seq(Block)] /\ log[n] \in Seq(Block)
      /\ mined \in Nat /\ now \in Nat /\ job[n] \in Block /\ ChainOK(c)
  BY <1>1, NodeAssumption DEF Safe, TypeInv, JobOK, ChainsOK
<1>3. /\ x \in Block
      /\ x.id = mined + 1 /\ x.time = now /\ x.prev = job[n].prev
      /\ x.height = job[n].height /\ x.target = job[n].target /\ x.root = job[n].root
      /\ x.txs = job[n].txs /\ x.miner = job[n].miner
  <2>1. mined + 1 \in Nat
    BY <1>2
  <2> QED
    BY <1>2, <2>1 DEF Block
<1>4. /\ log' = [log EXCEPT ![n] = Append(@, x)]
      /\ job' = [job EXCEPT ![n] = x]
      /\ phase' = [phase EXCEPT ![n] = "logged"]
      /\ ~(now < c.headers[x.prev].time)
      /\ UNCHANGED <<chain, bank, head>>
  BY <1>1
<1> HIDE DEF x
<1>5. /\ r.chain = c
      /\ OnTip(job[n], c) /\ bank[n] = job[n].root
      /\ head[n] = [slot |-> c.headers[c.tip].height, hash |-> c.tip]
      /\ LogOK(log[n], Mined)
  BY <1>1 DEF Clean, Synced, Up
<1> HIDE DEF r
<1>6. OnTip(x, c)
  BY <1>3, <1>5 DEF OnTip, Execute
<1>7. HeaderResult(c, x.id, x) = "ok"
  <2>1. x.id \notin KnownBlocks(c)
    <3>1. mined + 1 # GenesisId /\ mined + 1 \notin 1..mined
      BY <1>2, NodeAssumption
    <3>2. \A b \in KnownBlocks(c) \ {GenesisId} : b \in 1..mined
      BY DEF Provenance, HeadersFrom, IdsOK
    <3> QED
      BY <1>3, <3>1, <3>2
  <2>2. c.tip \in KnownBlocks(c)
    BY <1>2 DEF ChainOK, Heaviest
  <2> QED
    BY <1>3, <1>4, <1>6, <2>1, <2>2, ResultOk DEF OnTip
<1>8. Mined' = Mined \cup {x}
  BY <1>2, <1>3, <1>4, MinedGrows
<1>9. Rooted(Mined')
  <2>1. \/ x.prev = GenesisId /\ x.root = Execute(GenesisBank, x)
        \/ \E y \in Mined : y.id = x.prev /\ x.root = Execute(y.root, x)
    <3>1. CASE c.tip = GenesisId
      BY <1>6, <3>1 DEF OnTip, RootOf
    <3>2. CASE c.tip # GenesisId
      <4>1. c.headers[c.tip] \in Mined /\ c.headers[c.tip].id = c.tip
        BY <1>2, <3>2 DEF Provenance, HeadersFrom, ChainOK, Heaviest
      <4> QED
        BY <1>6, <3>2, <4>1 DEF OnTip, RootOf
    <3> QED
      BY <3>1, <3>2
  <2> QED
    BY <1>8, <2>1 DEF Clean, Rooted
<1>10. \A k \in Node : LogOK(log[k], Mined')
  BY <1>8, CleanMore DEF Clean
<1>11. /\ LogOK(Append(log[n], x), Mined')
       /\ ReplayOf(Append(log[n], x)).chain = AddHeader(c, x.id, x)
       /\ ReplayOf(Append(log[n], x)).bank = x.root
  <2>1. r.bank = RootOf(c, c.tip)
    BY <1>5 DEF LogOK, r
  <2>2. x \in Mined' /\ x.prev = r.chain.tip /\ x.root = Execute(r.bank, x)
    BY <1>5, <1>6, <1>8, <2>1 DEF OnTip
  <2>3. HeaderResult(r.chain, x.id, x) = "ok"
    BY <1>5, <1>7
  <2>4. /\ LogOK(Append(log[n], x), Mined')
        /\ ReplayOf(Append(log[n], x)).chain = AddHeader(r.chain, x.id, x)
        /\ ReplayOf(Append(log[n], x)).bank = x.root
    BY <1>2, <1>3, <1>10, <2>2, <2>3, LogExtends DEF r
  <2> QED
    BY <1>5, <2>4
<1>12. Synced(n)'
  <2>1. phase'[n] = "logged" /\ job'[n] = x /\ log'[n] = Append(log[n], x)
    BY <1>2, <1>4
  <2>2. bank'[n] = bank[n] /\ chain'[n] = c /\ head'[n] = head[n]
    BY <1>4
  <2> HIDE DEF c
  <2> QED
    BY <1>3, <1>5, <1>6, <1>7, <1>11, <2>1, <2>2 DEF Synced, Up
<1>13. ASSUME NEW k \in Node, k # n PROVE Synced(k)' /\ log'[k] = log[k]
  BY <1>2, <1>4, <1>13, SyncedSame DEF Clean
<1>14. \A k \in Node : LogOK(log'[k], Mined')
  <2>1. log'[n] = Append(log[n], x)
    BY <1>2, <1>4
  <2> QED
    BY <1>10, <1>11, <1>13, <2>1
<1> QED
  BY <1>9, <1>12, <1>13, <1>14 DEF Clean

(* ... and added: the chain and the accounts are those of the log.         *)
LEMMA CleanCommit ==
    ASSUME Safe, Clean, NEW n \in Node, MineCommit(n)
    PROVE  Clean'
<1> DEFINE c == chain[n]
           x == job[n]
           d == AddHeader(c, x.id, x)
<1>1. /\ phase[n] = "logged"
      /\ chain' = [chain EXCEPT ![n] = d]
      /\ head' = [head EXCEPT ![n] = [slot |-> x.height, hash |-> d.tip]]
      /\ phase' = [phase EXCEPT ![n] = "idle"]
      /\ job' = [job EXCEPT ![n] = 0]
      /\ UNCHANGED <<bank, log>>
  BY DEF MineCommit, Advance
<1>2. /\ DOMAIN chain = Node /\ DOMAIN head = Node /\ DOMAIN job = Node /\ DOMAIN phase = Node
      /\ x \in Block /\ ChainOK(c)
  BY <1>1 DEF Safe, TypeInv, JobOK, ChainsOK
<1>3. /\ HeaderResult(c, x.id, x) = "ok" /\ x.prev = c.tip
      /\ ReplayOf(log[n]).chain = d /\ ReplayOf(log[n]).bank = bank[n]
  BY <1>1 DEF Clean, Synced, OnTip
<1>4. d.tip = x.id /\ d.headers[x.id] = x
  <2>1. d.tip = x.id
    BY <1>2, <1>3, AddOK
  <2>2. d.headers[x.id] = x
    BY <1>2, <1>3, ResultOk, AddFields DEF ChainOK, Heaviest
  <2> QED
    BY <2>1, <2>2
<1> HIDE DEF d, x, c
<1>5. Synced(n)'
  <2>1. /\ phase'[n] = "idle" /\ chain'[n] = d /\ bank'[n] = bank[n] /\ log'[n] = log[n]
        /\ head'[n] = [slot |-> x.height, hash |-> d.tip]
    BY <1>1, <1>2
  <2> QED
    BY <1>3, <1>4, <2>1 DEF Synced, Up
<1>6. ASSUME NEW k \in Node, k # n PROVE Synced(k)'
  BY <1>1, <1>2, <1>6, SyncedSame DEF Clean
<1>7. Mined' = Mined
  BY <1>1 DEF Mined
<1> QED
  BY <1>1, <1>5, <1>6, <1>7 DEF Clean

(* A block of a peer that is not a side block finds the accounts it was    *)
(* mined on: its root matches and it is logged.                            *)
LEMMA CleanReceive ==
    ASSUME Safe, Provenance, Clean, NEW m \in Node, NEW n \in Node,
           ReceiveBlock(m, n), events' = {}
    PROVE  Clean'
<1> DEFINE c == chain[n]
           x == Head(wire[<<m, n>>]).body
           d == AddHeader(c, x.id, x)
<1>0. /\ DOMAIN chain = Node /\ DOMAIN head = Node /\ DOMAIN bank = Node
      /\ log \in [Node -> Seq(Block)] /\ log[n] \in Seq(Block)
      /\ wire \in [Node \X Node -> Seq(Message)] /\ ChainOK(c)
  BY DEF Safe, TypeInv, ChainsOK
<1>1. /\ phase[n] = "idle"
      /\ wire[<<m, n>>] # <<>> /\ Head(wire[<<m, n>>]).kind = "block"
      /\ UNCHANGED <<phase, job>>
  BY DEF ReceiveBlock
<1>2. x \in Block /\ x \in Mined
  <2>1. /\ 1 \in DOMAIN wire[<<m, n>>] /\ wire[<<m, n>>][1] = Head(wire[<<m, n>>])
        /\ Head(wire[<<m, n>>]) \in Message
    BY <1>0, <1>1, TailType
  <2> QED
    BY <1>1, <2>1, MessageBody DEF Provenance, BlocksFrom
<1>3. CASE HeaderResult(c, x.id, x) # "ok"
  <2>1. UNCHANGED <<chain, bank, log, head>>
    BY <1>3 DEF ReceiveBlock, Executes
  <2>2. Mined' = Mined /\ \A k \in Node : Synced(k)'
    BY <1>1, <2>1, SyncedSame DEF Clean, Mined
  <2> QED
    BY <2>1, <2>2 DEF Clean
<1>4. CASE HeaderResult(c, x.id, x) = "ok"
  <2>1. /\ chain' = [chain EXCEPT ![n] = d]
        /\ bank' = [bank EXCEPT ![n] = Execute(bank[n], x)]
        /\ d # c /\ x.prev # c.tip => "fork" \in events'
        /\ Execute(bank[n], x) = x.root =>
             /\ log' = [log EXCEPT ![n] = Append(@, x)]
             /\ head' = [head EXCEPT ![n] = [slot |-> x.height, hash |-> d.tip]]
    BY <1>4 DEF ReceiveBlock, Executes, LogAppend, Advance
  <2> HIDE DEF x
  <2>2. x.id \notin KnownBlocks(c) /\ x.prev \in KnownBlocks(c)
    BY <1>4, ResultOk
  <2>3. KnownBlocks(d) = KnownBlocks(c) \cup {x.id} /\ d.headers[x.id] = x
    BY <1>0, <2>2, AddFields DEF ChainOK, Heaviest
  <2>4. x.prev = c.tip
    BY <2>1, <2>2, <2>3
  <2>5. d.tip = x.id
    BY <1>0, <1>2, <1>4, <2>4, AddOK
  <2>6. /\ ReplayOf(log[n]).chain = c /\ ReplayOf(log[n]).bank = bank[n]
        /\ LogOK(log[n], Mined) /\ bank[n] = RootOf(c, c.tip)
    <3>1. LogOK(log[n], Mined) /\ Synced(n)
      BY DEF Clean
    <3> QED
      BY <1>1, <3>1 DEF LogOK, Synced
  <2> HIDE DEF d
  <2>7. x.root = Execute(bank[n], x)
    BY <1>2, <2>2, <2>4, <2>6, RootStep DEF Provenance, Clean
  <2>8. /\ log' = [log EXCEPT ![n] = Append(@, x)]
        /\ head' = [head EXCEPT ![n] = [slot |-> x.height, hash |-> d.tip]]
        /\ bank' = [bank EXCEPT ![n] = x.root]
    BY <2>1, <2>7
  <2>9. Mined' = Mined
    <3>1. Mined' = Mined \cup {x}
      BY <1>0, <1>2, <2>8, MinedGrows
    <3> QED
      BY <1>2, <3>1
  <2>10. /\ LogOK(Append(log[n], x), Mined)
         /\ ReplayOf(Append(log[n], x)).chain = d
         /\ ReplayOf(Append(log[n], x)).bank = x.root
    <3>1. /\ HeaderResult(ReplayOf(log[n]).chain, x.id, x) = "ok"
          /\ x.prev = ReplayOf(log[n]).chain.tip
          /\ x.root = Execute(ReplayOf(log[n]).bank, x)
      BY <1>4, <2>4, <2>6, <2>7
    <3> QED
      BY <1>0, <1>2, <2>6, <3>1, LogExtends DEF d
  <2>11. /\ log'[n] = Append(log[n], x) /\ chain'[n] = d /\ bank'[n] = x.root
         /\ head'[n] = [slot |-> x.height, hash |-> d.tip] /\ phase'[n] = "idle"
    BY <1>0, <1>1, <2>1, <2>8
  <2>12. Synced(n)'
    BY <2>3, <2>5, <2>10, <2>11 DEF Synced, Up
  <2>13. ASSUME NEW k \in Node, k # n PROVE Synced(k)' /\ log'[k] = log[k]
    <3>1. /\ log'[k] = log[k] /\ chain'[k] = chain[k] /\ bank'[k] = bank[k]
          /\ head'[k] = head[k] /\ phase'[k] = phase[k] /\ job'[k] = job[k]
      BY <1>0, <1>1, <2>1, <2>8, <2>13
    <3> QED
      BY <3>1, SyncedSame DEF Clean
  <2>14. \A k \in Node : LogOK(log'[k], Mined)
    BY <2>10, <2>11, <2>13 DEF Clean
  <2> QED
    BY <2>9, <2>12, <2>13, <2>14 DEF Clean
<1> QED
  BY <1>3, <1>4

(* A restart replays the log from its first record to its last.            *)
LEMMA CleanReplay ==
    ASSUME Safe, Clean, NEW n \in Node, Restart(n) \/ ReplayRecord(n) \/ Start(n)
    PROVE  Clean'
<1>0. /\ DOMAIN chain = Node /\ DOMAIN head = Node /\ DOMAIN bank = Node
      /\ DOMAIN phase = Node /\ DOMAIN job = Node
      /\ log \in [Node -> Seq(Block)] /\ log[n] \in Seq(Block)
  BY DEF Safe, TypeInv
<1>1. /\ log' = log
      /\ \A k \in Node : k # n =>
           /\ chain'[k] = chain[k] /\ bank'[k] = bank[k] /\ head'[k] = head[k]
           /\ phase'[k] = phase[k] /\ job'[k] = job[k]
  BY <1>0 DEF Restart, ReplayRecord, Start, Advance
<1>2. ASSUME NEW k \in Node, k # n PROVE Synced(k)'
  BY <1>1, <1>2, SyncedSame DEF Clean
<1>3. ASSUME Restart(n) PROVE Synced(n)'
  <2>1. /\ chain'[n] = NewChainState /\ bank'[n] = GenesisBank
        /\ phase'[n] = "replaying" /\ job'[n] = 1 /\ log'[n] = log[n]
    BY <1>0, <1>3 DEF Restart, FreshBank
  <2>2. SubSeq(log[n], 1, 1 - 1) = <<>>
    BY <1>0
  <2> QED
    BY <2>1, <2>2, ReplayAppend DEF Synced, Up
<1>4. ASSUME ReplayRecord(n) PROVE Synced(n)'
  <2> DEFINE i == job[n]
             x == log[n][i]
             s == SubSeq(log[n], 1, i - 1)
             q == [chain |-> chain[n], bank |-> bank[n], ok |-> TRUE]
             r == Replay([chain |-> chain[n], bank |-> bank[n]], x)
  <2>1. /\ phase[n] = "replaying" /\ i \in DOMAIN log[n]
        /\ chain'[n] = r.chain /\ bank'[n] = r.bank /\ job'[n] = i + 1
        /\ phase'[n] = IF r.ok THEN "replaying" ELSE "failed"
        /\ log'[n] = log[n]
    BY <1>0, <1>1, <1>4 DEF ReplayRecord
  <2>2. ReplayOf(s) = q
    BY <2>1 DEF Clean, Synced
  <2>3. r = ReplayNext(q, x) /\ DOMAIN r = {"chain", "bank", "ok"} /\ r.ok \in BOOLEAN
    BY DEF Replay, ReplayNext
  <2>4. /\ s \in Seq(Block) /\ x \in Block
        /\ SubSeq(log[n], 1, (i + 1) - 1) = Append(s, x)
    <3>1. i \in 1..Len(log[n])
      BY <1>0, <2>1
    <3> HIDE DEF i
    <3>2. s \in Seq(Block) /\ x \in Block
      BY <1>0, <3>1
    <3>3. SubSeq(log[n], 1, (i + 1) - 1) = Append(s, x)
      BY <1>0, <3>1
    <3> QED
      BY <3>2, <3>3
  <2>5. ReplayOf(SubSeq(log[n], 1, (i + 1) - 1)) = r
    BY <2>2, <2>3, <2>4, ReplayAppend
  <2>6. r.ok => r = [chain |-> r.chain, bank |-> r.bank, ok |-> TRUE]
    BY DEF Replay
  <2> HIDE DEF r, s, x, q, i
  <2> QED
    BY <2>1, <2>3, <2>5, <2>6 DEF Synced, Up
<1>5. ASSUME Start(n) PROVE Synced(n)'
  <2>1. /\ phase[n] = "replaying" /\ job[n] \notin DOMAIN log[n]
        /\ phase'[n] = "idle" /\ chain'[n] = chain[n] /\ bank'[n] = bank[n]
        /\ log'[n] = log[n]
        /\ head'[n] = [slot |-> chain[n].headers[chain[n].tip].height, hash |-> chain[n].tip]
    BY <1>0, <1>5 DEF Start, Advance
  <2>2. job[n] = Len(log[n]) + 1
    BY <1>0, <2>1 DEF Safe, JobOK
  <2>3. SubSeq(log[n], 1, job[n] - 1) = log[n]
    BY <1>0, <2>2
  <2>4. ReplayOf(log[n]) = [chain |-> chain[n], bank |-> bank[n], ok |-> TRUE]
    BY <2>1, <2>3 DEF Clean, Synced
  <2> QED
    BY <2>1, <2>4 DEF Synced, Up
<1>6. Mined' = Mined
  BY <1>1 DEF Mined
<1> QED
  BY <1>1, <1>2, <1>3, <1>4, <1>5, <1>6 DEF Clean

(* As long as nothing has happened to it.                                  *)
LEMMA NextClean ==
    ASSUME Safe, Provenance, Clean, [Next]_vars, events' = {}
    PROVE  Clean'
<1>1. ASSUME UNCHANGED <<chain, bank, log, head, phase, job>> PROVE Clean'
  BY <1>1, SyncedSame DEF Clean, Mined
<1>2. ASSUME NEW n \in Node, MineRejected(n) \/ Crash(n) PROVE Clean'
  <2>1. /\ UNCHANGED <<chain, bank, log, head>>
        /\ phase' = [phase EXCEPT ![n] = "down"]
        /\ job' = [job EXCEPT ![n] = 0]
        /\ DOMAIN phase = Node /\ DOMAIN job = Node
    BY <1>2 DEF MineRejected, Crash, Exit, Safe, TypeInv
  <2>2. Synced(n)'
    <3>1. phase'[n] = "down"
      BY <2>1
    <3> QED
      BY <3>1 DEF Synced, Up
  <2>3. ASSUME NEW k \in Node, k # n PROVE Synced(k)'
    BY <2>1, <2>3, SyncedSame DEF Clean
  <2>4. Mined' = Mined
    BY <2>1 DEF Mined
  <2> QED
    BY <2>1, <2>2, <2>3, <2>4 DEF Clean
<1>3. ASSUME NEW n \in Node, NEW t \in Tx, SendTransaction(n, t) PROVE Clean'
  BY <1>1, <1>3 DEF SendTransaction
<1>4. ASSUME NEW m \in Node, NEW n \in Node, ReceiveTx(m, n) \/ Lose(m, n) \/ Connect(m, n)
      PROVE  Clean'
  BY <1>1, <1>4 DEF ReceiveTx, Lose, Connect, local
<1>5. ASSUME NEW l \in links, LinkBreaks(l) PROVE Clean'
  BY <1>1, <1>5 DEF LinkBreaks, local
<1>6. CASE UNCHANGED vars
  BY <1>1, <1>6 DEF vars, local
<1> QED
  BY <1>2, <1>3, <1>4, <1>5, <1>6, CleanExecute, CleanAppend, CleanCommit, CleanReceive,
     CleanReplay DEF Next

(* What has happened stays in the history.                                 *)
LEMMA HistoryGrows == [Next]_vars => events \subseteq events'
<1> SUFFICES ASSUME [Next]_vars PROVE events \subseteq events'
  OBVIOUS
<1>1. ASSUME NEW n \in Node, MineAppend(n) PROVE events \subseteq events'
  BY <1>1 DEF MineAppend
<1>2. ASSUME NEW m \in Node, NEW n \in Node, ReceiveBlock(m, n) PROVE events \subseteq events'
  BY <1>2 DEF ReceiveBlock
<1>3. ASSUME NEW n \in Node,
             \/ MineExecute(n) \/ MineCommit(n) \/ MineRejected(n)
             \/ Crash(n) \/ Restart(n) \/ ReplayRecord(n) \/ Start(n)
      PROVE  UNCHANGED events
  BY <1>3 DEF MineExecute, MineCommit, MineRejected, Crash, Restart, ReplayRecord, Start
<1>4. ASSUME NEW m \in Node, NEW n \in Node, ReceiveTx(m, n) \/ Lose(m, n) \/ Connect(m, n)
      PROVE  UNCHANGED events
  BY <1>4 DEF ReceiveTx, Lose, Connect
<1>5. ASSUME NEW n \in Node, NEW t \in Tx, SendTransaction(n, t) PROVE UNCHANGED events
  BY <1>5 DEF SendTransaction
<1>6. ASSUME NEW l \in links, LinkBreaks(l) PROVE UNCHANGED events
  BY <1>6 DEF LinkBreaks
<1>7. CASE UNCHANGED vars
  BY <1>7 DEF vars
<1> QED
  BY <1>1, <1>2, <1>3, <1>4, <1>5, <1>6, <1>7 DEF Next

(* The second invariant holds initially.                                   *)
LEMMA InitFaithful == Init => Faithful
<1> SUFFICES ASSUME Init PROVE Faithful
  OBVIOUS
<1>1. Mined = {}
  BY DEF Init, Mined, ToSet
<1>2. Provenance
  BY <1>1, HeadersNew DEF Init, Provenance, IdsOK, BlocksFrom
<1>3. LogOK(<<>>, Mined)
  <2>1. RootOf(NewChainState, NewChainState.tip) = GenesisBank
    BY DEF RootOf, NewChainState
  <2> QED
    BY <2>1, ReplayAppend, NewChainOK, HeadersNew DEF LogOK
<1>4. ASSUME NEW n \in Node PROVE Synced(n)
  <2>1. /\ phase[n] = "idle" /\ log[n] = <<>> /\ chain[n] = NewChainState
        /\ bank[n] = GenesisBank /\ head[n] = [slot |-> 0, hash |-> GenesisId]
    BY DEF Init
  <2>2. NewChainState.headers[NewChainState.tip].height = 0 /\ NewChainState.tip = GenesisId
    BY DEF NewChainState, GenesisHeader
  <2> QED
    BY <2>1, <2>2, ReplayAppend DEF Synced, Up
<1>5. Clean
  BY <1>1, <1>3, <1>4 DEF Init, Clean, Rooted
<1> QED
  BY <1>2, <1>5 DEF Faithful

(* In every reachable state.                                               *)
LEMMA Faithfulness == Spec => []Faithful
<1>1. Safe /\ Faithful /\ [Next]_vars => Faithful'
  BY NextProvenance, NextClean, HistoryGrows DEF Faithful
<1> QED
  BY <1>1, InitFaithful, Safety, PTL DEF Spec

----------------------------------------------------------------------------
(* What it means for restarts and for the accounts.                        *)

(* Until a fork or a clock running back, a node can restart at any moment, *)
(* and a node between blocks would get back the chain and the accounts     *)
(* that it has.                                                            *)
THEOREM RestartsReproduce == Spec => []RestartReproduces
<1>1. Faithful => RestartReproduces
  <2> SUFFICES ASSUME Faithful, events = {}, NEW n \in Node
               PROVE  /\ Replayed(n).ok
                      /\ phase[n] = "idle" =>
                           Replayed(n).chain = chain[n] /\ Replayed(n).bank = bank[n]
    BY DEF RestartReproduces
  <2>1. Replayed(n) = ReplayOf(log[n])
    BY ReplayedIs
  <2>2. LogOK(log[n], Mined) /\ Synced(n)
    BY DEF Faithful, Clean
  <2> QED
    BY <2>1, <2>2 DEF LogOK, Synced
<1> QED
  BY <1>1, Faithfulness, PTL

(* The headers of the path to b, without the genesis.                      *)
BlocksTo(c, b) == [i \in 1..(Len(PathTo(c, b)) - 1) |-> c.headers[PathTo(c, b)[i + 1]]]

(* One block more for each height.                                         *)
LEMMA BlocksAppend ==
    ASSUME NEW c, IsTree(c), NEW b \in KnownBlocks(c)
    PROVE  /\ BlocksTo(c, b) \in Seq(Block)
           /\ Len(BlocksTo(c, b)) = c.headers[b].height
           /\ b # GenesisId =>
                BlocksTo(c, b) = Append(BlocksTo(c, c.headers[b].prev), c.headers[b])
<1> DEFINE T == {h \in Nat : \A y \in KnownBlocks(c) : c.headers[y].height = h =>
                   /\ BlocksTo(c, y) \in Seq(Block)
                   /\ Len(BlocksTo(c, y)) = h
                   /\ y # GenesisId =>
                        BlocksTo(c, y) = Append(BlocksTo(c, c.headers[y].prev), c.headers[y])}
<1>1. 0 \in T
  <2> SUFFICES ASSUME NEW y \in KnownBlocks(c), c.headers[y].height = 0
               PROVE  BlocksTo(c, y) \in Seq(Block) /\ Len(BlocksTo(c, y)) = 0 /\ y = GenesisId
    OBVIOUS
  <2>1. Len(PathTo(c, y)) - 1 = 0 /\ y = GenesisId
    <3>1. Len(PathTo(c, y)) = 0 + 1
      BY PathShape
    <3>2. y = GenesisId
      BY TreeHeights
    <3> QED
      BY <3>1, <3>2
  <2>2. BlocksTo(c, y) = [i \in 1..0 |-> c.headers[PathTo(c, y)[i + 1]]]
    BY <2>1 DEF BlocksTo
  <2> QED
    BY <2>1, <2>2
<1>2. ASSUME NEW h \in Nat, h \in T PROVE h + 1 \in T
  <2> SUFFICES ASSUME NEW y \in KnownBlocks(c), c.headers[y].height = h + 1
               PROVE  /\ BlocksTo(c, y) \in Seq(Block)
                      /\ Len(BlocksTo(c, y)) = h + 1
                      /\ BlocksTo(c, y) = Append(BlocksTo(c, c.headers[y].prev), c.headers[y])
    OBVIOUS
  <2> DEFINE a == c.headers[y].prev
             p == PathTo(c, a)
             v == c.headers[y]
  <2>1. y # GenesisId
    BY DEF IsTree, GenesisHeader
  <2>2. a \in KnownBlocks(c) /\ c.headers[a].height = h
    BY <2>1, TreeHeights
  <2>3. BlocksTo(c, a) \in Seq(Block) /\ Len(BlocksTo(c, a)) = h
    BY <1>2, <2>2
  <2>4. p \in Seq(KnownBlocks(c)) /\ Len(p) = h + 1
    BY <2>2, PathShape
  <2>5. PathTo(c, y) = Append(p, y)
    BY <2>1, PathAppend
  <2>6. v \in Block
    BY <2>1 DEF IsTree
  <2>7. BlocksTo(c, a) = [i \in 1..h |-> c.headers[p[i + 1]]]
    BY <2>4 DEF BlocksTo
  <2>8. BlocksTo(c, y) = [i \in 1..(h + 1) |-> c.headers[Append(p, y)[i + 1]]]
    <3>1. Len(Append(p, y)) - 1 = h + 1
      BY <2>4
    <3> HIDE DEF p
    <3> QED
      BY <2>5, <3>1 DEF BlocksTo
  <2>9. BlocksTo(c, y) = Append(BlocksTo(c, a), v)
    <3> HIDE DEF p, a, T
    <3>1. /\ \A i \in 1..h : Append(p, y)[i + 1] = p[i + 1]
          /\ Append(p, y)[(h + 1) + 1] = y
      BY <2>4
    <3> DEFINE w == Append(BlocksTo(c, a), v)
    <3>2. /\ DOMAIN w = 1..(h + 1) /\ w \in Seq(Block)
          /\ \A i \in 1..h : w[i] = BlocksTo(c, a)[i]
          /\ w[h + 1] = v
      BY <2>3, <2>6
    <3>3. \A i \in 1..(h + 1) : w[i] = c.headers[Append(p, y)[i + 1]]
      <4> TAKE i \in 1..(h + 1)
      <4>1. i \in 1..h \/ i = h + 1
        OBVIOUS
      <4> HIDE DEF w
      <4> QED
        BY <2>7, <3>1, <3>2, <4>1
    <3>4. w = [i \in DOMAIN w |-> w[i]]
      BY <3>2
    <3> HIDE DEF w
    <3>5. w = [i \in 1..(h + 1) |-> c.headers[Append(p, y)[i + 1]]]
      BY <3>2, <3>3, <3>4
    <3> QED
      BY <2>8, <3>5 DEF w
  <2> HIDE DEF a, v
  <2> QED
    BY <2>3, <2>6, <2>9 DEF a, v
<1> HIDE DEF T
<1>3. \A h \in Nat : h \in T
  BY <1>1, <1>2, Path!NatInSet
<1>4. c.headers[b].height \in Nat
  BY TreeHeights
<1> QED
  BY <1>3, <1>4 DEF T

(* Executing the chain from the genesis gives the accounts of its tip.     *)
LEMMA ChainExecutes ==
    ASSUME NEW c, IsTree(c),
           \A b \in KnownBlocks(c) \ {GenesisId} :
             c.headers[b].root = Execute(RootOf(c, c.headers[b].prev), c.headers[b])
    PROVE  \A b \in KnownBlocks(c) :
             Executions!Fold(0, GenesisBank, BlocksTo(c, b)) = RootOf(c, b)
<1> DEFINE T == {h \in Nat : \A b \in KnownBlocks(c) : c.headers[b].height = h =>
                   Executions!Fold(0, GenesisBank, BlocksTo(c, b)) = RootOf(c, b)}
<1>1. 0 \in T
  <2> SUFFICES ASSUME NEW b \in KnownBlocks(c), c.headers[b].height = 0
               PROVE  Executions!Fold(0, GenesisBank, BlocksTo(c, b)) = RootOf(c, b)
    OBVIOUS
  <2>1. BlocksTo(c, b) \in Seq(Block) /\ Len(BlocksTo(c, b)) = 0 /\ b = GenesisId
    BY BlocksAppend, TreeHeights
  <2>2. BlocksTo(c, b) = <<>>
    BY <2>1
  <2> QED
    BY <2>1, <2>2, Executions!FoldEmpty DEF RootOf
<1>2. ASSUME NEW h \in Nat, h \in T PROVE h + 1 \in T
  <2> SUFFICES ASSUME NEW b \in KnownBlocks(c), c.headers[b].height = h + 1
               PROVE  Executions!Fold(0, GenesisBank, BlocksTo(c, b)) = RootOf(c, b)
    OBVIOUS
  <2> DEFINE a == c.headers[b].prev
             x == c.headers[b]
  <2>1. b # GenesisId
    BY DEF IsTree, GenesisHeader
  <2>2. a \in KnownBlocks(c) /\ c.headers[a].height = h
    BY <2>1, TreeHeights
  <2>3. /\ BlocksTo(c, a) \in Seq(Block) /\ x \in Block
        /\ BlocksTo(c, b) = Append(BlocksTo(c, a), x)
    BY <2>1, <2>2, BlocksAppend DEF IsTree
  <2>4. Executions!Fold(0, GenesisBank, BlocksTo(c, a)) = RootOf(c, a)
    BY <1>2, <2>2
  <2>5. x.root = Execute(RootOf(c, a), x)
    BY <2>1
  <2>6. RootOf(c, b) = x.root
    BY <2>1 DEF RootOf
  <2> HIDE DEF a, x
  <2>7. Executions!Fold(0, GenesisBank, Append(BlocksTo(c, a), x)) =
          Execute(Executions!Fold(0, GenesisBank, BlocksTo(c, a)), x)
    BY <2>3, Executions!FoldAppend DEF ExecuteStep
  <2> QED
    BY <2>3, <2>4, <2>5, <2>6, <2>7
<1> HIDE DEF T
<1>3. \A h \in Nat : h \in T
  BY <1>1, <1>2, Path!NatInSet
<1> QED
  BY <1>3, TreeHeights DEF T

(* Until a fork or a clock running back, the accounts of a node between    *)
(* blocks are those of the blocks up to its tip, executed one after the    *)
(* other from the genesis; the tip commits to them and the RPC reports it. *)
THEOREM BanksFollowChains == Spec => []BankFollowsChain
<1>1. Safe /\ Faithful => BankFollowsChain
  <2> SUFFICES ASSUME Safe, Faithful, events = {}, NEW n \in Node, phase[n] = "idle"
               PROVE  LET path   == PathTo(chain[n], chain[n].tip)
                          blocks == [i \in 1..(Len(path) - 1) |-> chain[n].headers[path[i + 1]]]
                      IN  /\ bank[n] = FoldLeft(Execute, GenesisBank, blocks)
                          /\ blocks # <<>> => bank[n] = Last(blocks).root
                          /\ head[n] = [slot |-> Len(blocks), hash |-> chain[n].tip]
    BY DEF BankFollowsChain
  <2> DEFINE c == chain[n]
             blocks == BlocksTo(c, c.tip)
  <2>1. IsTree(c) /\ c.tip \in KnownBlocks(c)
    BY DEF Safe, ChainsOK, ChainOK, Heaviest
  <2>2. /\ bank[n] = RootOf(c, c.tip)
        /\ head[n] = [slot |-> c.headers[c.tip].height, hash |-> c.tip]
    <3>1. LogOK(log[n], Mined) /\ Synced(n)
      BY DEF Faithful, Clean
    <3> QED
      BY <3>1 DEF LogOK, Synced, Up
  <2>3. ASSUME NEW b \in KnownBlocks(c) \ {GenesisId}
        PROVE  c.headers[b].root = Execute(RootOf(c, c.headers[b].prev), c.headers[b])
    <3>1. c.headers[b] \in Mined /\ c.headers[b].prev \in KnownBlocks(c)
      BY <2>1 DEF Faithful, Provenance, HeadersFrom, IsTree
    <3>2. IdsOK(Mined, mined) /\ Rooted(Mined) /\ HeadersFrom(c, Mined)
      BY DEF Faithful, Provenance, Clean
    <3> HIDE DEF c
    <3> QED
      BY <3>1, <3>2, RootStep
  <2> HIDE DEF c
  <2>4. bank[n] = Executions!Fold(0, GenesisBank, blocks)
    BY <2>1, <2>2, <2>3, ChainExecutes
  <2>5. Executions!Fold(0, GenesisBank, blocks) = FoldLeft(Execute, GenesisBank, blocks)
    BY DEF Executions!Fold, ExecuteStep, FoldLeft, MapThenFoldSet, Executions!FoldLeft, Executions!MapThenFoldSet, Executions!Max, Max
  <2>6. /\ blocks \in Seq(Block) /\ Len(blocks) = c.headers[c.tip].height
        /\ c.tip # GenesisId =>
             blocks = Append(BlocksTo(c, c.headers[c.tip].prev), c.headers[c.tip])
    BY <2>1, BlocksAppend
  <2>7. blocks # <<>> => bank[n] = Last(blocks).root
    <3> SUFFICES ASSUME blocks # <<>> PROVE bank[n] = Last(blocks).root
      OBVIOUS
    <3>1. c.tip # GenesisId
      <4>1. c.headers[c.tip].height # 0
        BY <2>6
      <4> QED
        BY <2>1, <4>1 DEF IsTree, GenesisHeader
    <3> DEFINE s == BlocksTo(c, c.headers[c.tip].prev)
               x == c.headers[c.tip]
    <3>2. s \in Seq(Block) /\ x \in Block
      BY <2>1, <3>1, BlocksAppend DEF IsTree
    <3>3. blocks = Append(s, x)
      BY <2>6, <3>1
    <3> HIDE DEF blocks, s, x
    <3>4. Last(blocks) = x
      BY <3>2, <3>3 DEF Last
    <3> QED
      BY <2>2, <3>1, <3>4 DEF RootOf, x
  <2> QED
    BY <2>2, <2>4, <2>5, <2>6, <2>7 DEF BlocksTo, c
<1> QED
  BY <1>1, Safety, Faithfulness, PTL
=============================================================================
