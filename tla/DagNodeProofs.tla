---------------------------- MODULE DagNodeProofs ----------------------------
(***************************************************************************)
(* Proofs about DagNode: one DagChain of a node that mines, receives       *)
(* blocks late and in any order, answers queries, prunes, drops bodies and *)
(* restarts from its log at any point.                                     *)
(* The invariant NodeInv ties the chain to the network's DAG.  Its parts:  *)
(* ChainOK (headers, tips and engine agree), PastComplete (the engine's    *)
(* past is closed under parents), ReplayOK (the log replays into the       *)
(* chain), AccountsOK (types of the caches), NetOK and Linked (the chain   *)
(* is the network's DAG from its origin on).                               *)
(***************************************************************************)
EXTENDS DagNode, GhostdagProofs

----------------------------------------------------------------------------
(* Chain values.                                                           *)

IsChain(c) ==
    c = [engine         |-> c.engine,
         log            |-> c.log,
         tips           |-> c.tips,
         headers        |-> c.headers,
         block_txs      |-> c.block_txs,
         base_accounts  |-> c.base_accounts,
         state          |-> c.state,
         executed       |-> c.executed,
         checkpoint     |-> c.checkpoint,
         history_pruned |-> c.history_pruned,
         proof          |-> c.proof,
         bootstrapped   |-> c.bootstrapped,
         bootstrap_work |-> c.bootstrap_work,
         poisoned       |-> c.poisoned]

(* Nothing but the fields of b distinguishes it from a.                    *)
SameBut(a, b, fields) ==
    /\ IsChain(b)
    /\ "engine" \in fields \/ b.engine = a.engine
    /\ "log" \in fields \/ b.log = a.log
    /\ "tips" \in fields \/ b.tips = a.tips
    /\ "headers" \in fields \/ b.headers = a.headers
    /\ "block_txs" \in fields \/ b.block_txs = a.block_txs
    /\ "base_accounts" \in fields \/ b.base_accounts = a.base_accounts
    /\ "state" \in fields \/ b.state = a.state
    /\ "executed" \in fields \/ b.executed = a.executed
    /\ "checkpoint" \in fields \/ b.checkpoint = a.checkpoint
    /\ "history_pruned" \in fields \/ b.history_pruned = a.history_pruned
    /\ "proof" \in fields \/ b.proof = a.proof
    /\ "bootstrapped" \in fields \/ b.bootstrapped = a.bootstrapped
    /\ "bootstrap_work" \in fields \/ b.bootstrap_work = a.bootstrap_work
    /\ "poisoned" \in fields \/ b.poisoned = a.poisoned

(* What Apply writes when it does not return early and the engine takes    *)
(* the block.                                                              *)
LEMMA ApplyAdds ==
    ASSUME NEW c, IsChain(c), ~c.poisoned, NEW block, block.id \notin Known(c),
           ~CoveredTwice(c.engine, RemapParents(block.header.parents, Known(c), Origin(c))),
           NEW c2, c2 = Apply(c, block)
    PROVE  /\ SameBut(c, c2, {"engine", "headers", "block_txs", "tips"})
           /\ c2.engine = AddToEngine(c.engine, block.id,
                             RemapParents(block.header.parents, Known(c), Origin(c)))
           /\ c2.headers = Insert(c.headers, block.id, block.header)
           /\ c2.block_txs = IF block.txs THEN c.block_txs \cup {block.id} ELSE c.block_txs
           /\ c2.tips = TipsAfter(c.tips, block)
BY DEF Apply, IsChain, SameBut

(* Instances of Folding.                                                   *)
Skips   == INSTANCE Folding WITH op <- Skip, val <- PeersOf
ReAdds  == INSTANCE Folding WITH op <- ReAdd, val <- PeersOf
Runs    == INSTANCE Folding WITH op <- ReplayBlock, val <- PeersOf

ReplayRecord(p, c, rec) == Replay(c, rec)

Replays == INSTANCE Folding WITH op <- ReplayRecord, val <- PeersOf

(* No element twice.                                                       *)
Distinct(s) == \A i, j \in DOMAIN s : s[i] = s[j] => i = j

(* A new element at the end keeps the elements distinct.                   *)
LEMMA DistinctAppend ==
    ASSUME NEW T, NEW s \in Seq(T), NEW x \in T, Distinct(s), x \notin ToSet(s)
    PROVE  Distinct(Append(s, x))
<1>1. \A i \in DOMAIN s : s[i] # x
  BY DEF ToSet
<1> QED
  BY <1>1 DEF Distinct

(* Taking elements out.                                                    *)
LEMMA WithoutFacts ==
    ASSUME NEW T, NEW s \in Seq(T), NEW S
    PROVE  /\ Without(S, s) \in Seq(T)
           /\ ToSet(Without(S, s)) = ToSet(s) \ S
           /\ Distinct(s) => Distinct(Without(S, s))
<1>1. Without(S, s) = Skips!Fold(S, <<>>, s)
  BY DEF Without, Skips!Fold, FoldLeft, MapThenFoldSet, Skips!FoldLeft,
         Skips!MapThenFoldSet, Skips!Max, Max
<1> DEFINE n == Len(s)
<1>2. n \in Nat /\ DOMAIN s = 1..n /\ \A i \in 1..n : s[i] \in T
  OBVIOUS
<1> HIDE DEF n
<1>3. PICK g : Skips!Runs(S, <<>>, s, n, g) /\ Skips!Fold(S, <<>>, s) = g[n]
  BY <1>2, Skips!FoldRuns
<1> DEFINE Good(m) == /\ g[m] \in Seq(T)
                      /\ ToSet(g[m]) = {s[i] : i \in 1..m} \ S
                      /\ Distinct(s) => Distinct(g[m])
           Z == {m \in Nat : m <= n => Good(m)}
<1>4. 0 \in Z
  <2>1. g[0] = <<>> /\ 1..0 = {}
    BY <1>3 DEF Skips!Runs
  <2>2. ToSet(<<>>) = {}
    BY DEF ToSet
  <2>3. Distinct(<<>>)
    BY DEF Distinct
  <2>4. {s[i] : i \in 1..0} = {}
    BY <2>1
  <2>5. Good(0)
    BY <2>1, <2>2, <2>3, <2>4
  <2> HIDE DEF Good
  <2> QED
    BY <2>5
<1>5. ASSUME NEW m \in Nat, m \in Z PROVE m + 1 \in Z
  <2> SUFFICES ASSUME m + 1 <= n PROVE Good(m + 1)
    OBVIOUS
  <2>1. m + 1 \in 1..n /\ (m + 1) - 1 = m /\ Good(m)
    BY <1>2, <1>5
  <2>2. g[m + 1] = Skip(S, g[m], s[m + 1])
    BY <1>3, <2>1 DEF Skips!Runs
  <2>3. 1..(m + 1) = (1..m) \cup {m + 1}
    OBVIOUS
  <2>4. {s[i] : i \in 1..(m + 1)} = {s[i] : i \in 1..m} \cup {s[m + 1]}
    BY <2>3
  <2>5. CASE s[m + 1] \in S
    BY <2>1, <2>2, <2>4, <2>5 DEF Skip
  <2>6. CASE s[m + 1] \notin S
    <3>1. g[m + 1] = Append(g[m], s[m + 1]) /\ s[m + 1] \in T
      BY <1>2, <2>1, <2>2, <2>6 DEF Skip
    <3>2. ToSet(g[m + 1]) = ToSet(g[m]) \cup {s[m + 1]}
      BY <2>1, <3>1, ToSetAppend
    <3>3. ASSUME Distinct(s) PROVE Distinct(g[m + 1])
      <4>1. \A i \in 1..m : s[i] # s[m + 1]
        BY <1>2, <2>1, <3>3 DEF Distinct
      <4>2. s[m + 1] \notin ToSet(g[m])
        BY <2>1, <4>1
      <4> QED
        BY <2>1, <3>1, <3>3, <4>2, DistinctAppend
    <3> QED
      BY <2>1, <2>4, <2>6, <3>1, <3>2, <3>3
  <2> QED
    BY <2>5, <2>6
<1> HIDE DEF Z
<1>6. \A m \in Nat : m \in Z
  BY <1>4, <1>5, Skips!Iter!NatInSet
<1>7. Good(n)
  <2> HIDE DEF Good
  <2> QED
    BY <1>2, <1>6 DEF Z
<1>8. ToSet(s) = {s[i] : i \in 1..n}
  BY <1>2 DEF ToSet
<1> QED
  BY <1>1, <1>3, <1>7, <1>8

----------------------------------------------------------------------------
(* Chains of honest blocks.                                                *)

(* The tips are the childless blocks, each once.                           *)
TipsOK(c) ==
    /\ c.tips \in Seq(Known(c))
    /\ Distinct(c.tips)
    /\ ToSet(c.tips) = Tips(c)

(* The blocks have the parents in their headers, except for the origin,    *)
(* whose parents are gone.                                                 *)
ChainOK(c) ==
    /\ IsChain(c)
    /\ Honest(c.engine)
    /\ Known(c) = Blocks(c.engine)
    /\ \A b \in Known(c) \ {Origin(c)} : c.headers[b].parents = c.engine.parents[b]
    /\ c.headers[Origin(c)].parents \cap Known(c) = {}
    /\ TipsOK(c)

(* What of an honest engine is used below.                                 *)
LEMMA HonestFacts ==
    ASSUME NEW e, Honest(e)
    PROVE  /\ EngineOK(e) /\ BluesOK(e) /\ Antichains(e)
           /\ Blocks(e) \subseteq Hash /\ IsFiniteSet(Blocks(e))
           /\ e.genesis \in Blocks(e) /\ e.tip \in Blocks(e)
           /\ e.past[e.genesis] = {}
           /\ DOMAIN e.parents = Blocks(e)
           /\ e.past \in [Blocks(e) -> SUBSET Blocks(e)]
           /\ \A b \in Blocks(e) :
                /\ b \notin e.past[b]
                /\ \A a \in e.past[b] : e.past[a] \subseteq e.past[b]
                /\ b # e.genesis =>
                     /\ e.genesis \in e.past[b]
                     /\ e.parents[b] \subseteq e.past[b]
                     /\ e.parents[b] # {}
                     /\ IsAntichain(e, e.parents[b])
BY DEF Honest, EngineOK, TypesOK, Ancestral, BluesOK, Antichains

(* The chain of the genesis alone.                                         *)
LEMMA NewChainOK == ChainOK(NewChain)
<1> DEFINE c == NewChain
<1>1. /\ IsChain(c)
      /\ c.engine = NewEngine(Genesis)
      /\ c.headers = [x \in {Genesis} |-> [parents |-> {}, target |-> <<>>, interlink |-> <<>>]]
      /\ c.tips = <<Genesis>>
  BY DEF NewChain, IsChain
<1> HIDE DEF c
<1>2. /\ Known(c) = {Genesis} /\ Origin(c) = Genesis /\ Blocks(c.engine) = {Genesis}
      /\ c.headers[Genesis].parents = {}
  BY <1>1 DEF Known, Origin, NewEngine, Blocks
<1>3. Honest(c.engine)
  BY <1>1, NewHonest, ChainAssumption
<1>4. Tips(c) = {Genesis}
  BY <1>2 DEF Tips
<1>5. TipsOK(c)
  BY <1>1, <1>2, <1>4 DEF TipsOK, Distinct, ToSet
<1> QED
  BY <1>1, <1>2, <1>3, <1>5 DEF ChainOK, c

(* A new block replaces its parents among the tips.                        *)
LEMMA ApplyTips ==
    ASSUME NEW c, ChainOK(c), NEW c2, NEW block, NEW b, b = block.id, b \notin Known(c),
           NEW ps, ps = block.header.parents, ps \subseteq Known(c),
           b \notin c.headers[Origin(c)].parents,
           c2.headers = Insert(c.headers, b, block.header),
           c2.tips = TipsAfter(c.tips, block)
    PROVE  TipsOK(c2)
<1>1. /\ Known(c2) = Known(c) \cup {b}
      /\ c2.headers[b] = block.header
      /\ \A x \in Known(c) : c2.headers[x] = c.headers[x]
  BY DEF Known, Insert
<1>2. c.tips \in Seq(Known(c)) /\ Distinct(c.tips) /\ ToSet(c.tips) = Tips(c)
  BY DEF ChainOK, TipsOK
<1>3. \A x \in Known(c) : b \notin c.headers[x].parents
  <2>1. \A x \in Known(c) \ {Origin(c)} : c.headers[x].parents \subseteq Known(c)
    BY HonestFacts DEF ChainOK, Origin
  <2> QED
    BY <2>1
<1>4. Tips(c2) = (Tips(c) \ ps) \cup {b}
  BY <1>1, <1>3 DEF Tips
<1> DEFINE w == Without(ps, c.tips)
<1>5. w \in Seq(Known(c)) /\ ToSet(w) = Tips(c) \ ps /\ Distinct(w)
  BY <1>2, WithoutFacts
<1>6. c2.tips = Append(w, b)
  BY DEF TipsAfter
<1> HIDE DEF w
<1>7. w \in Seq(Known(c2)) /\ b \in Known(c2) /\ b \notin ToSet(w)
  <2>1. w \in Seq(Known(c2))
    BY <1>1, <1>5
  <2>2. b \notin Tips(c)
    BY DEF Tips
  <2> QED
    BY <1>1, <1>5, <2>1, <2>2
<1>8. c2.tips \in Seq(Known(c2)) /\ Distinct(c2.tips) /\ ToSet(c2.tips) = ToSet(w) \cup {b}
  BY <1>5, <1>6, <1>7, DistinctAppend, ToSetAppend
<1> QED
  BY <1>4, <1>5, <1>8 DEF TipsOK

(* A block that apply takes as it is, and the chain with it.               *)
Takes(c, block) ==
    /\ ChainOK(c) /\ ~c.poisoned
    /\ block.id \in Hash \ Known(c)
    /\ block.header.parents \in SUBSET Known(c) /\ block.header.parents # {}
    /\ IsAntichain(c.engine, block.header.parents)
    /\ block.id \notin c.headers[Origin(c)].parents

Applied(c, c2, block) ==
    /\ ChainOK(c2)
    /\ SameBut(c, c2, {"engine", "headers", "block_txs", "tips"})
    /\ c2.engine = AddToEngine(c.engine, block.id, block.header.parents)
    /\ c2.headers = Insert(c.headers, block.id, block.header)
    /\ c2.block_txs = IF block.txs THEN c.block_txs \cup {block.id} ELSE c.block_txs
    /\ c2.tips = TipsAfter(c.tips, block)
    /\ Added(c.engine, block.id, block.header.parents, c2.engine)
    /\ Known(c2) = Known(c) \cup {block.id}
    /\ Origin(c2) = Origin(c)

(* A block whose parents are known and an antichain is added without a     *)
(* panic and without remapping.                                            *)
LEMMA ApplyTakes ==
    ASSUME NEW c, NEW block, Takes(c, block), NEW c2, c2 = Apply(c, block)
    PROVE  Applied(c, c2, block)
<1> DEFINE b  == block.id
           ps == block.header.parents
<1>0. /\ ChainOK(c) /\ ~c.poisoned /\ b = block.id /\ b \in Hash \ Known(c)
      /\ ps = block.header.parents /\ ps \in SUBSET Known(c) /\ ps # {}
      /\ IsAntichain(c.engine, ps) /\ b \notin c.headers[Origin(c)].parents
  BY DEF Takes
<1> HIDE DEF b, ps
<1> USE <1>0
<1>1. IsChain(c) /\ Honest(c.engine) /\ Known(c) = Blocks(c.engine)
  BY DEF ChainOK
<1>2. RemapParents(ps, Known(c), Origin(c)) = ps
  <2>1. {IF q \in Known(c) THEN q ELSE Origin(c) : q \in ps} = ps
    OBVIOUS
  <2> QED
    BY <2>1 DEF RemapParents
<1>3. ~CoveredTwice(c.engine, ps) /\ Honest(AddToEngine(c.engine, b, ps))
  BY <1>1, AddKeepsHonest
<1>4. /\ SameBut(c, c2, {"engine", "headers", "block_txs", "tips"})
      /\ c2.engine = AddToEngine(c.engine, b, ps)
      /\ c2.headers = Insert(c.headers, b, block.header)
      /\ c2.block_txs = IF block.txs THEN c.block_txs \cup {b} ELSE c.block_txs
      /\ c2.tips = TipsAfter(c.tips, block)
  BY <1>1, <1>2, <1>3, ApplyAdds
<1>5. Added(c.engine, b, ps, c2.engine)
  BY <1>1, <1>4, HonestFacts, AddBlockFacts DEF EngineOK
<1>6. /\ Known(c2) = Known(c) \cup {b}
      /\ c2.headers[b] = block.header
      /\ \A x \in Known(c) : c2.headers[x] = c.headers[x]
  BY <1>4 DEF Known, Insert
<1>7. /\ Origin(c2) = Origin(c) /\ Origin(c) \in Known(c)
      /\ Blocks(c2.engine) = Known(c2)
      /\ c2.engine.parents[b] = ps
      /\ \A x \in Known(c) : c2.engine.parents[x] = c.engine.parents[x]
  BY <1>1, <1>5, <1>6, HonestFacts DEF Added, Origin
<1>8. TipsOK(c2)
  BY <1>4, ApplyTips
<1>9. /\ \A x \in Known(c2) \ {Origin(c2)} : c2.headers[x].parents = c2.engine.parents[x]
      /\ c2.headers[Origin(c2)].parents \cap Known(c2) = {}
  BY <1>6, <1>7 DEF ChainOK
<1>10. ChainOK(c2)
  BY <1>3, <1>4, <1>7, <1>8, <1>9 DEF ChainOK, SameBut
<1> QED
  BY <1>4, <1>5, <1>6, <1>7, <1>10 DEF Applied, b, ps

----------------------------------------------------------------------------
(* The order and the past in an honest engine.                             *)

(* The past of a block is that of its parents and the parents.             *)
PastComplete(e) ==
    \A b \in Blocks(e) \ {e.genesis} : e.past[b] = PastOf(e, e.parents[b])

(* Where a block has a descendant, it has a child on the way to it.        *)
LEMMA ChildExists ==
    ASSUME NEW e, Honest(e), PastComplete(e)
    PROVE  \A x \in Blocks(e) : \A b \in e.past[x] :
             \E d \in e.past[x] \cup {x} : d # e.genesis /\ b \in e.parents[d]
<1> DEFINE Good(x) == \A b \in e.past[x] :
                        \E d \in e.past[x] \cup {x} : d # e.genesis /\ b \in e.parents[d]
           W(n) == \A x \in Blocks(e) : e.gd[x].blue_work < n => Good(x)
           T == {n \in Nat : W(n)}
<1>1. \A x \in Blocks(e) : e.gd[x].blue_work \in Nat
  BY DEF Honest, EngineOK, TypesOK
<1>2. 0 \in T
  BY <1>1
<1>3. ASSUME NEW n \in Nat, n \in T PROVE n + 1 \in T
  <2> SUFFICES ASSUME NEW x \in Blocks(e), e.gd[x].blue_work < n + 1, NEW b \in e.past[x]
               PROVE  \E d \in e.past[x] \cup {x} : d # e.genesis /\ b \in e.parents[d]
    OBVIOUS
  <2>1. x # e.genesis
    BY HonestFacts
  <2>2. e.past[x] = e.parents[x] \cup UNION {e.past[q] : q \in e.parents[x]}
    BY <2>1 DEF PastComplete, PastOf
  <2>3. CASE b \in e.parents[x]
    BY <2>1, <2>3
  <2>4. ASSUME NEW q \in e.parents[x], b \in e.past[q]
        PROVE  \E d \in e.past[x] \cup {x} : d # e.genesis /\ b \in e.parents[d]
    <3>1. q \in e.past[x] /\ q \in Blocks(e) /\ e.past[q] \subseteq e.past[x]
      BY <2>1, HonestFacts
    <3>2. e.gd[q].blue_work < e.gd[x].blue_work
      BY <3>1 DEF Honest, EngineOK, Climbs
    <3>3. e.gd[q].blue_work < n
      BY <1>1, <3>1, <3>2
    <3>4. Good(q)
      BY <1>3, <3>1, <3>3
    <3> QED
      BY <2>4, <3>1, <3>4
  <2> QED
    BY <2>2, <2>3, <2>4
<1> HIDE DEF T
<1>4. \A n \in Nat : n \in T
  BY <1>2, <1>3, Orders!NatInSet
<1>5. ASSUME NEW x \in Blocks(e) PROVE Good(x)
  <2>1. e.gd[x].blue_work + 1 \in Nat /\ e.gd[x].blue_work < e.gd[x].blue_work + 1
    BY <1>1
  <2>2. W(e.gd[x].blue_work + 1)
    BY <1>4, <2>1 DEF T
  <2> HIDE DEF Good
  <2> QED
    BY <2>1, <2>2
<1> QED
  BY <1>5

(* add_block keeps the past that of the parents.                           *)
LEMMA AddKeepsPast ==
    ASSUME NEW e, Honest(e), PastComplete(e), NEW b, NEW ps \in SUBSET Blocks(e),
           NEW e2, Added(e, b, ps, e2)
    PROVE  PastComplete(e2)
<1>1. ASSUME NEW x \in Blocks(e) \ {e.genesis} PROVE e2.past[x] = PastOf(e2, e2.parents[x])
  <2>1. e.parents[x] \subseteq Blocks(e) /\ e.past[x] = PastOf(e, e.parents[x])
    BY HonestFacts DEF PastComplete
  <2>2. e2.past[x] = e.past[x] /\ e2.parents[x] = e.parents[x]
        /\ \A q \in e.parents[x] : e2.past[q] = e.past[q]
    BY <2>1 DEF Added
  <2> QED
    BY <2>1, <2>2 DEF PastOf
<1>2. e2.past[b] = PastOf(e2, e2.parents[b])
  BY DEF Added, PastOf
<1> QED
  BY <1>1, <1>2 DEF PastComplete, Added

(* The heaviest block has no descendants.                                  *)
LEMMA TipIsLast ==
    ASSUME NEW e, Honest(e) PROVE \A d \in Blocks(e) : e.tip \notin e.past[d]
<1> SUFFICES ASSUME NEW d \in Blocks(e), e.tip \in e.past[d] PROVE FALSE
  OBVIOUS
<1>1. e.gd[e.tip].blue_work < e.gd[d].blue_work
  BY DEF Honest, EngineOK, Climbs
<1>2. d # e.tip
  BY HonestFacts
<1>3. Lighter(e, d, e.tip)
  BY <1>2 DEF Honest, EngineOK, TipIsHeavy
<1>4. e.gd[d].blue_work \in Nat /\ e.gd[e.tip].blue_work \in Nat
  BY DEF Honest, EngineOK, TypesOK
<1> QED
  BY <1>1, <1>3, <1>4 DEF Lighter

(* As many entries as elements means that no element comes twice.          *)
LEMMA DistinctIsCounted ==
    ASSUME NEW S, IsFiniteSet(S), NEW s \in Seq(S), \A x \in S : \E i \in 1..Len(s) : s[i] = x
    PROVE  Distinct(s) <=> Len(s) = Cardinality(S)
<1> DEFINE n == Len(s)
<1>1. n \in Nat /\ DOMAIN s = 1..n /\ s \in [1..n -> S]
  OBVIOUS
<1>2. IsFiniteSet(1..n) /\ Cardinality(1..n) = n
  BY <1>1, FS_Interval
<1>3. s \in Surjection(1..n, S)
  BY <1>1 DEF Surjection
<1> HIDE DEF n
<1>4. Cardinality(S) = n <=> s \in Injection(1..n, S)
  BY <1>2, <1>3, FS_Surjection
<1> QED
  BY <1>1, <1>4 DEF Injection, IsInjective, Distinct, n

(* What a listing is.                                                      *)
LEMMA ListsFacts ==
    ASSUME NEW S, IsFiniteSet(S), NEW past, NEW s, Lists(s, S, past)
    PROVE  /\ s \in Seq(S) /\ Distinct(s) /\ ToSet(s) = S
           /\ Len(s) \in Nat /\ DOMAIN s = 1..Len(s)
           /\ \A i, j \in 1..Len(s) : s[i] \in past[s[j]] => i < j
<1>1. s \in Seq(S) /\ Len(s) = Cardinality(S) /\ \A x \in S : \E i \in 1..Len(s) : s[i] = x
  BY DEF Lists
<1>2. Distinct(s)
  BY <1>1, DistinctIsCounted
<1>3. ToSet(s) = S
  BY <1>1 DEF ToSet
<1> QED
  BY <1>1, <1>2, <1>3 DEF Lists

(* The order up to a block of the selected chain is a beginning of the     *)
(* whole order.                                                            *)
LEMMA OrderBegins ==
    ASSUME NEW e, Honest(e), NEW b \in Blocks(e), NEW p \in ToSet(SelectedChain(e, b))
    PROVE  /\ p \in Blocks(e) /\ (p = b \/ p \in e.past[b])
           /\ Len(OrderUpTo(e, p)) \in 1..Len(OrderUpTo(e, b))
           /\ \A i \in 1..Len(OrderUpTo(e, p)) : OrderUpTo(e, b)[i] = OrderUpTo(e, p)[i]
           /\ OrderUpTo(e, p)[Len(OrderUpTo(e, p))] = p
<1> DEFINE O(x) == OrderUpTo(e, x)
           sp(x) == e.gd[x].selected_parent
           Begins(q, x) == /\ q \in Blocks(e) /\ (q = x \/ q \in e.past[x])
                           /\ Len(O(q)) \in 1..Len(O(x))
                           /\ \A i \in 1..Len(O(q)) : O(x)[i] = O(q)[i]
                           /\ O(q)[Len(O(q))] = q
           Good(x) == /\ \A q \in ToSet(SelectedChain(e, x)) : Begins(q, x)
                      /\ SelectedChain(e, x) \in Seq(Blocks(e))
           S == {x \in Blocks(e) : Good(x)}
<1>1. Climbing(e) /\ EngineOK(e) /\ BluesOK(e) /\ Antichains(e)
  BY SelectedClimbs DEF Honest
<1>2. ASSUME NEW x \in Blocks(e) PROVE O(x) \in Seq(Blocks(e)) /\ Len(O(x)) \in Nat
  <2>1. O(x) \in Seq(e.past[x] \cup {x})
    BY <1>1, OrderLists DEF Lists
  <2>2. e.past[x] \cup {x} \subseteq Blocks(e)
    BY HonestFacts
  <2> HIDE DEF O
  <2> QED
    BY <2>1, <2>2
<1>3. Good(e.genesis)
  <2>1. O(e.genesis) = <<e.genesis>> /\ SelectedChain(e, e.genesis) = <<e.genesis>>
    BY <1>1, OrderEquation, ChainEquation, HonestFacts
  <2>2. ToSet(<<e.genesis>>) = {e.genesis}
    BY DEF ToSet
  <2> HIDE DEF O
  <2> QED
    BY <2>1, <2>2, HonestFacts
<1>4. ASSUME NEW x \in Blocks(e) \ {e.genesis}, sp(x) \in S PROVE x \in S
  <2> DEFINE m == SortBlocks(e, Mergeset(e, x))
             t == Append(m, x)
             y == sp(x)
             n == Len(O(y))
  <2>1. O(x) = O(y) \o t /\ SelectedChain(e, x) = Append(SelectedChain(e, y), x)
    BY <1>1, OrderEquation, ChainEquation
  <2>2. y \in Blocks(e) /\ y \in e.past[x] /\ e.past[y] \subseteq e.past[x] /\ Good(y)
    BY <1>1, <1>4, SelectedClimbs DEF Climbing
  <2>3. \E c \in Nat : DOMAIN m = 1..c
    <3>1. IsFiniteSet(Mergeset(e, x))
      <4>1. Mergeset(e, x) \subseteq e.past[x]
        <5>1. IsAntichain(e, e.parents[x])
          BY HonestFacts
        <5> QED
          BY <1>1, <5>1, MergesetIs
      <4> QED
        BY <4>1, HonestFacts, FS_Subset
    <3>2. Cardinality(Mergeset(e, x)) \in Nat
      BY <3>1, FS_CardinalityType
    <3> QED
      BY <3>2 DEF SortBlocks
  <2>4. t # <<>> /\ Len(t) \in Nat \ {0} /\ t[Len(t)] = x /\ \E U : t \in Seq(U)
    <3>1. PICK c \in Nat : DOMAIN m = 1..c
      BY <2>3
    <3>2. m \in Seq({m[i] : i \in 1..c}) 
      <4>1. m = [i \in DOMAIN m |-> m[i]]
        BY DEF SortBlocks
      <4> HIDE DEF m
      <4> QED
        BY <4>1, <3>1
    <3> DEFINE U == {m[i] : i \in 1..c} \cup {x}
    <3> HIDE DEF m
    <3>3. m \in Seq(U) /\ x \in U
      BY <3>2
    <3> HIDE DEF U
    <3>4. t \in Seq(U) /\ Len(t) = Len(m) + 1 /\ t[Len(m) + 1] = x /\ Len(m) \in Nat
      BY <3>3
    <3> QED
      BY <3>4
  <2>5. O(y) \in Seq(Blocks(e)) /\ n \in Nat
    BY <1>2, <2>2
  <2>6. /\ Len(O(x)) = n + Len(t)
        /\ \A i \in 1..n : O(x)[i] = O(y)[i]
        /\ O(x)[n + Len(t)] = x
    <3>1. PICK U : t \in Seq(U)
      BY <2>4
    <3> HIDE DEF O, t
    <3>2. O(y) \in Seq(Blocks(e) \cup U) /\ t \in Seq(Blocks(e) \cup U)
      BY <2>5, <3>1
    <3> QED
      BY <2>1, <2>4, <3>2
  <2>7. ToSet(SelectedChain(e, x)) = ToSet(SelectedChain(e, y)) \cup {x}
        /\ SelectedChain(e, x) \in Seq(Blocks(e))
    BY <2>1, <2>2, ToSetAppend
  <2> HIDE DEF O, t, n
  <2>8. Begins(x, x)
    BY <1>2, <2>4, <2>5, <2>6
  <2>9. ASSUME NEW q \in ToSet(SelectedChain(e, y)) PROVE Begins(q, x)
    <3>1. Begins(q, y)
      BY <2>2
    <3>2. Len(O(q)) \in 1..n /\ n \in Nat /\ Len(O(x)) = n + Len(t) /\ Len(t) \in Nat
      BY <2>4, <2>5, <2>6, <3>1 DEF n
    <3>3. Len(O(q)) \in 1..Len(O(x))
      BY <3>2
    <3>4. \A i \in 1..Len(O(q)) : O(x)[i] = O(q)[i]
      BY <2>6, <3>1, <3>2
    <3> QED
      BY <2>2, <3>1, <3>3, <3>4
  <2>10. Good(x)
    BY <2>7, <2>8, <2>9
  <2> QED
    BY <2>10
<1> HIDE DEF S
<1>5. b \in S
  <2>1. e.genesis \in S
    BY <1>3, HonestFacts DEF S
  <2> HIDE DEF Good, O
  <2> QED
    BY <1>1, <1>4, <2>1, ChainInduction
<1> QED
  BY <1>5 DEF S

----------------------------------------------------------------------------
(* Where prune cuts.                                                       *)

(* The pruning point and what is kept above it.                            *)
PointOf(c)  == TotalOrder(c.engine)[PruneIndex(c)]
SuffixOf(c) == From(TotalOrder(c.engine), PruneIndex(c) + 1)
Kept(c)     == {PointOf(c)} \cup ToSet(SuffixOf(c))

(* The largest number of a non-empty set of small numbers.                 *)
LEMMA MaxIsIn ==
    ASSUME NEW n \in Nat, NEW t \in SUBSET (1..n)
    PROVE  Max({0} \cup t) \in {0} \cup t
<1>1. \E x \in {0} \cup t : \A y \in {0} \cup t : x >= y
  <2>1. CASE t = {}
    BY <2>1
  <2>2. CASE t # {}
    <3>1. \E x \in t : \A y \in t : x >= y
      BY <2>2, Skips!MaxTop
    <3>2. \A y \in t : y \in Nat
      OBVIOUS
    <3>3. PICK x \in t : \A y \in t : x >= y
      BY <3>1
    <3> QED
      BY <3>2, <3>3
  <2> QED
    BY <2>1, <2>2
<1> QED
  BY <1>1 DEF Max

(* prune finds no point, or a block of the selected chain, not the origin. *)
LEMMA PruneIndexRange ==
    ASSUME NEW c, Len(TotalOrder(c.engine)) \in Nat, PruneIndex(c) # 0
    PROVE  /\ PruneIndex(c) \in 2..Len(TotalOrder(c.engine))
           /\ PointOf(c) \in ToSet(SelectedChain(c.engine, c.engine.tip))
<1> DEFINE order == TotalOrder(c.engine)
           n == Len(order)
           retain == LwmaWindow + FinalityDepth
           t == {i \in 2..(n - retain + 1) : order[i] \in ToSet(SelectedChain(c.engine, c.engine.tip))}
<1>1. retain \in Nat /\ retain >= 1
  BY ChainAssumption
<1>2. n > retain + 1 /\ PruneIndex(c) = Max({0} \cup t)
  BY <1>1 DEF PruneIndex
<1> HIDE DEF retain
<1>3. n - retain + 1 \in Nat /\ t \in SUBSET (1..(n - retain + 1))
  BY <1>1, <1>2
<1>4. PruneIndex(c) \in t
  <2> HIDE DEF t, n
  <2> QED
    BY <1>2, <1>3, MaxIsIn
<1> QED
  BY <1>1, <1>4 DEF PointOf

(* The prefix that prune drops is the order up to the pruning point; what  *)
(* it keeps is the rest of what the tip has in its past.                   *)
LEMMA CutFacts ==
    ASSUME NEW c, Honest(c.engine), PruneIndex(c) # 0,
           NEW e, e = c.engine, NEW order, order = TotalOrder(e),
           NEW i, i = PruneIndex(c), NEW p, p = PointOf(c), NEW suffix, suffix = SuffixOf(c)
    PROVE  /\ order \in Seq(Blocks(e)) /\ Distinct(order) /\ Len(order) \in Nat
           /\ ToSet(order) = e.past[e.tip] \cup {e.tip}
           /\ \A j, k \in 1..Len(order) : order[j] \in e.past[order[k]] => j < k
           /\ i \in 2..Len(order) /\ order[i] = p
           /\ p \in Blocks(e) /\ p # e.genesis /\ p \in e.past[e.tip] \cup {e.tip}
           /\ Upto(order, i) = OrderUpTo(e, p)
           /\ ToSet(Upto(order, i)) = e.past[p] \cup {p}
           /\ suffix \in Seq(Blocks(e)) /\ Len(suffix) = Len(order) - i
           /\ \A j \in 1..Len(suffix) : suffix[j] = order[i + j]
           /\ Distinct(suffix)
           /\ ToSet(suffix) = (e.past[e.tip] \cup {e.tip}) \ (e.past[p] \cup {p})
<1> DEFINE S == e.past[e.tip] \cup {e.tip}
           n == Len(order)
           q == OrderUpTo(e, p)
<1>1. S \subseteq Blocks(e) /\ IsFiniteSet(S) /\ e.tip \in Blocks(e)
  <2>1. S \subseteq Blocks(e) /\ e.tip \in Blocks(e) /\ IsFiniteSet(Blocks(e))
    BY HonestFacts
  <2> QED
    BY <2>1, FS_Subset
<1>2. Lists(order, S, e.past)
  BY <1>1, OrderLists DEF TotalOrder, Honest
<1>3. /\ order \in Seq(S) /\ Distinct(order) /\ ToSet(order) = S
      /\ n \in Nat /\ DOMAIN order = 1..n
      /\ \A j, k \in 1..n : order[j] \in e.past[order[k]] => j < k
  <2> HIDE DEF S
  <2> QED
    BY <1>1, <1>2, ListsFacts
<1>4. i \in 2..n /\ order[i] = p /\ p \in ToSet(SelectedChain(e, e.tip))
  BY <1>3, PruneIndexRange DEF PointOf
<1>5. /\ p \in Blocks(e) /\ p \in S
      /\ Len(q) \in 1..n
      /\ \A j \in 1..Len(q) : order[j] = q[j]
      /\ q[Len(q)] = p
  BY <1>1, <1>4, OrderBegins DEF TotalOrder
<1>6. Len(q) = i
  <2>1. Len(q) \in DOMAIN order /\ i \in DOMAIN order /\ order[Len(q)] = p
    BY <1>3, <1>4, <1>5
  <2> HIDE DEF q, n
  <2> QED
    BY <1>3, <1>4, <2>1 DEF Distinct
<1>7. p # e.genesis
  <2>1. OrderUpTo(e, e.genesis) = <<e.genesis>>
    BY OrderEquation, SelectedClimbs, HonestFacts DEF Honest
  <2>2. Len(<<e.genesis>>) = 1
    OBVIOUS
  <2>3. i # 1
    BY <1>4
  <2> HIDE DEF n
  <2> QED
    BY <1>6, <2>1, <2>2, <2>3
<1>8. Lists(q, e.past[p] \cup {p}, e.past)
  BY <1>5, OrderLists DEF Honest
<1>9. q \in Seq(e.past[p] \cup {p}) /\ ToSet(q) = e.past[p] \cup {p} /\ DOMAIN q = 1..i
  <2>1. IsFiniteSet(e.past[p] \cup {p})
    <3>1. e.past[p] \cup {p} \subseteq Blocks(e) /\ IsFiniteSet(Blocks(e))
      BY <1>5, HonestFacts
    <3> QED
      BY <3>1, FS_Subset
  <2> QED
    BY <1>6, <1>8, <2>1, ListsFacts
<1>10. Upto(order, i) = q
  <2>1. Upto(order, i) = [j \in 1..i |-> order[j]]
    BY <1>3, <1>4 DEF Upto
  <2>2. q = [j \in 1..i |-> q[j]]
    <3> HIDE DEF q
    <3> QED
      BY <1>9
  <2> HIDE DEF q
  <2> QED
    BY <1>5, <1>6, <2>1, <2>2
<1>11. /\ suffix \in Seq(S) /\ Len(suffix) = n - i /\ DOMAIN suffix = 1..(n - i)
       /\ \A j \in 1..(n - i) : suffix[j] = order[i + j]
  <2>1. suffix = SubSeq(order, i + 1, n)
    BY DEF SuffixOf, From
  <2> HIDE DEF S
  <2> QED
    BY <1>3, <1>4, <2>1
<1>12. Distinct(suffix)
  <2>1. \A j \in 1..(n - i) : i + j \in DOMAIN order
    BY <1>3, <1>4
  <2>2. ASSUME NEW j \in DOMAIN suffix, NEW k \in DOMAIN suffix, suffix[j] = suffix[k]
        PROVE  j = k
    <3>1. j \in Nat /\ k \in Nat /\ i \in Nat /\ order[i + j] = order[i + k]
      BY <1>4, <1>11, <2>2
    <3>2. i + j = i + k
      BY <1>3, <1>11, <2>1, <3>1 DEF Distinct
    <3> QED
      BY <3>1, <3>2
  <2> QED
    BY <2>2 DEF Distinct
<1>13. ToSet(suffix) = S \ (e.past[p] \cup {p})
  <2>1. \A x \in e.past[p] \cup {p} : \E j \in 1..i : order[j] = x
    <3>1. ToSet(q) = {q[j] : j \in 1..i}
      BY <1>9 DEF ToSet
    <3> HIDE DEF q
    <3> QED
      BY <1>5, <1>6, <1>9, <3>1
  <2>2. \A j \in 1..i : order[j] \in e.past[p] \cup {p}
    <3>1. ToSet(q) = {q[j] : j \in 1..i}
      BY <1>9 DEF ToSet
    <3> HIDE DEF q
    <3> QED
      BY <1>5, <1>6, <1>9, <3>1
  <2>3. ASSUME NEW x \in ToSet(suffix) PROVE x \in S /\ x \notin e.past[p] \cup {p}
    <3>1. PICK j \in 1..(n - i) : x = order[i + j]
      BY <1>11 DEF ToSet
    <3>2. i + j \in 1..n /\ i + j \notin 1..i
      BY <1>3, <1>4
    <3>3. order[i + j] \in S
      BY <1>3, <3>2
    <3>4. ASSUME NEW k \in 1..i PROVE order[k] # x
      <4>1. k \in DOMAIN order /\ i + j \in DOMAIN order /\ k # i + j
        BY <1>3, <1>4, <3>2
      <4> QED
        BY <1>3, <3>1, <4>1 DEF Distinct
    <3> QED
      BY <2>1, <3>1, <3>3, <3>4
  <2>4. ASSUME NEW x \in S, x \notin e.past[p] \cup {p} PROVE x \in ToSet(suffix)
    <3>1. PICK k \in 1..n : order[k] = x
      BY <1>3 DEF ToSet
    <3>2. k \notin 1..i
      BY <2>2, <2>4, <3>1
    <3>3. k - i \in 1..(n - i) /\ i + (k - i) = k
      BY <1>3, <1>4, <3>2
    <3> QED
      BY <1>11, <3>1, <3>3 DEF ToSet
  <2> QED
    BY <2>3, <2>4
<1>14. order \in Seq(Blocks(e)) /\ suffix \in Seq(Blocks(e))
  BY <1>1, <1>3, <1>11
<1> QED
  BY <1>3, <1>4, <1>5, <1>7, <1>9, <1>10, <1>11, <1>12, <1>13, <1>14

(* When all kept blocks descend from the pruning point, nothing that is    *)
(* kept has a parent that is not.                                          *)
LEMMA KeptFacts ==
    ASSUME NEW c, ChainOK(c), PastComplete(c.engine), PruneIndex(c) # 0, CleanCut(c),
           NEW e, e = c.engine, NEW p, p = PointOf(c)
    PROVE  /\ Kept(c) \subseteq Blocks(e) /\ p \in Kept(c) /\ e.tip \in Kept(c)
           /\ Kept(c) = (e.past[e.tip] \cup {e.tip}) \ e.past[p]
           /\ \A b \in Kept(c) \ {p} : p \in e.past[b] /\ b # e.genesis
           /\ \A b \in Kept(c) \ {p} : e.parents[b] \subseteq Kept(c)
           /\ \A b \in Kept(c) \ {p} : e.past[b] \subseteq Kept(c) \cup e.past[p]
           /\ \A b \in Kept(c) \ {p} :
                KeptParents(c, p, SuffixOf(c))[b] = c.headers[b].parents
           /\ p # e.genesis /\ c.headers[p].parents \cap Kept(c) = {}
<1> DEFINE S == e.past[e.tip] \cup {e.tip}
           suffix == SuffixOf(c)
<1>1. Honest(e) /\ e.genesis = Origin(c)
      /\ \A b \in Blocks(e) \ {e.genesis} : c.headers[b].parents = e.parents[b]
  BY DEF ChainOK, Origin
<1>2. /\ p \in Blocks(e) /\ p # e.genesis /\ p \in S
      /\ ToSet(suffix) = S \ (e.past[p] \cup {p})
  BY <1>1, CutFacts
<1>3. S \subseteq Blocks(e)
  BY <1>1, HonestFacts
<1>4. \A b \in ToSet(suffix) : p \in e.past[b]
  BY DEF CleanCut, PointOf, SuffixOf
<1>5. Kept(c) = {p} \cup ToSet(suffix)
  BY DEF Kept
<1> HIDE DEF S, suffix
<1>6. p \notin e.past[p]
  BY <1>1, <1>2, HonestFacts
<1>7. Kept(c) = S \ e.past[p]
  BY <1>2, <1>5, <1>6
<1>8. e.tip \in Kept(c)
  BY <1>1, <1>2, <1>7, TipIsLast DEF S
<1>9. \A b \in Kept(c) \ {p} : p \in e.past[b] /\ b # e.genesis /\ b \in Blocks(e)
  BY <1>1, <1>2, <1>3, <1>4, <1>5, <1>7, HonestFacts
<1>10. ASSUME NEW b \in Kept(c) \ {p} PROVE e.past[b] \subseteq Kept(c) \cup e.past[p]
  <2>1. e.past[b] \subseteq S
    <3>1. b = e.tip \/ b \in e.past[e.tip]
      BY <1>7 DEF S
    <3>2. e.tip \in Blocks(e)
      BY <1>1, HonestFacts
    <3> QED
      BY <1>1, <3>1, <3>2, HonestFacts DEF S
  <2> QED
    BY <1>7, <2>1
<1>11. ASSUME NEW b \in Kept(c) \ {p} PROVE e.parents[b] \subseteq Kept(c)
  <2>1. /\ b \in Blocks(e) /\ b # e.genesis /\ p \in e.past[b]
        /\ e.parents[b] \subseteq e.past[b] /\ IsAntichain(e, e.parents[b])
        /\ e.past[b] \subseteq Blocks(e)
    BY <1>1, <1>9, HonestFacts
  <2>2. e.past[b] = e.parents[b] \cup UNION {e.past[q] : q \in e.parents[b]}
    BY <2>1 DEF PastComplete, PastOf
  <2>3. PICK q \in e.parents[b] : q = p \/ p \in e.past[q]
    BY <2>1, <2>2
  <2>4. \A x \in e.parents[b] : x \notin e.past[q]
    BY <2>1 DEF IsAntichain
  <2>5. e.past[p] \subseteq e.past[q]
    BY <1>1, <2>1, <2>3, HonestFacts
  <2> QED
    BY <1>10, <2>1, <2>4, <2>5
<1>12. ASSUME NEW b \in Kept(c) \ {p}
       PROVE  KeptParents(c, p, suffix)[b] = c.headers[b].parents
  <2>1. b \in ToSet(suffix)
    BY <1>5
  <2>2. KeptParents(c, p, suffix)[b] = RemapParents(c.headers[b].parents, {p} \cup ToSet(suffix), p)
    BY <2>1 DEF KeptParents
  <2>3. c.headers[b].parents = e.parents[b] /\ e.parents[b] # {}
    BY <1>1, <1>9, HonestFacts
  <2>4. e.parents[b] \subseteq {p} \cup ToSet(suffix)
    BY <1>5, <1>11
  <2>5. {IF q \in {p} \cup ToSet(suffix) THEN q ELSE p : q \in e.parents[b]} = e.parents[b]
    BY <2>4
  <2> QED
    BY <2>2, <2>3, <2>5 DEF RemapParents
<1>13. c.headers[p].parents \cap Kept(c) = {}
  <2>1. c.headers[p].parents \subseteq e.past[p]
    BY <1>1, <1>2, HonestFacts
  <2> QED
    BY <1>7, <2>1
<1> QED
  BY <1>2, <1>3, <1>5, <1>7, <1>8, <1>9, <1>10, <1>11, <1>12, <1>13 DEF S, suffix

(* The chain while prune adds the kept blocks again, and while a replay of *)
(* the compacted log does: the part S of the old chain c above p.          *)
Cutting(c, p, S, r) ==
    /\ ChainOK(r) /\ ~r.poisoned /\ PastComplete(r.engine)
    /\ Origin(r) = p /\ Known(r) = S
    /\ \A b \in S : /\ r.headers[b] = c.headers[b]
                    /\ r.engine.past[b] = c.engine.past[b] \cap Kept(c)
                    /\ b # p => r.engine.parents[b] = c.engine.parents[b]
    /\ r.headers = [b \in S |-> r.headers[b]]

(* One kept block more.                                                    *)
LEMMA CuttingStep ==
    ASSUME NEW c, ChainOK(c), PastComplete(c.engine), PruneIndex(c) # 0, CleanCut(c),
           NEW e, e = c.engine, NEW p, p = PointOf(c),
           NEW J, NEW r, Cutting(c, p, J, r),
           NEW b, b \in Kept(c) \ ({p} \cup J), e.parents[b] \subseteq J,
           NEW block, block.id = b, block.header = c.headers[b],
           NEW r2, r2 = Apply(r, block)
    PROVE  /\ Cutting(c, p, J \cup {b}, r2)
           /\ r2.engine = AddToEngine(r.engine, b, e.parents[b])
           /\ ~CoveredTwice(r.engine, e.parents[b])
           /\ SameBut(r, r2, {"engine", "headers", "block_txs", "tips"})
           /\ r2.block_txs = IF block.txs THEN r.block_txs \cup {b} ELSE r.block_txs
<1> DEFINE ps == e.parents[b]
<1>1. /\ Kept(c) \subseteq Blocks(e)
      /\ b # e.genesis /\ p \in e.past[b] /\ b \in Blocks(e)
      /\ c.headers[b].parents = ps
      /\ c.headers[p].parents \cap Kept(c) = {}
      /\ ps \subseteq Kept(c)
  BY KeptFacts DEF ChainOK, Origin
<1>2. /\ ps # {} /\ ps \subseteq e.past[b] /\ IsAntichain(e, ps) /\ b \in Hash
      /\ e.past[b] = PastOf(e, ps)
  BY <1>1, HonestFacts DEF ChainOK, PastComplete
<1>3. /\ ChainOK(r) /\ ~r.poisoned /\ Origin(r) = p /\ Known(r) = J
      /\ PastComplete(r.engine) /\ Honest(r.engine) /\ Blocks(r.engine) = J
      /\ r.engine.genesis = p /\ p \in J
  <2>1. /\ ChainOK(r) /\ ~r.poisoned /\ Origin(r) = p /\ Known(r) = J
        /\ PastComplete(r.engine) /\ Honest(r.engine) /\ Blocks(r.engine) = J
        /\ r.engine.genesis = p
    BY DEF Cutting, ChainOK, Origin
  <2> QED
    BY <2>1, HonestFacts
<1>4. IsAntichain(r.engine, ps)
  BY <1>2, <1>3 DEF IsAntichain, Cutting
<1>5. r.headers[p].parents = c.headers[p].parents
  BY <1>3 DEF Cutting
<1>6. b \notin r.headers[Origin(r)].parents
  BY <1>1, <1>3, <1>5
<1> HIDE DEF ps
<1>7. /\ ChainOK(r2)
      /\ SameBut(r, r2, {"engine", "headers", "block_txs", "tips"})
      /\ r2.engine = AddToEngine(r.engine, b, ps)
      /\ r2.headers = Insert(r.headers, b, block.header)
      /\ r2.block_txs = IF block.txs THEN r.block_txs \cup {b} ELSE r.block_txs
      /\ Added(r.engine, b, ps, r2.engine)
      /\ Known(r2) = J \cup {b}
      /\ Origin(r2) = p
  <2>1. Takes(r, block)
    BY <1>1, <1>2, <1>3, <1>4, <1>6 DEF ps, Takes
  <2>2. Applied(r, r2, block)
    BY <2>1, ApplyTakes
  <2>3. block.id = b /\ block.header.parents = ps
    BY <1>1 DEF ps
  <2> QED
    BY <1>3, <2>2, <2>3 DEF Applied
<1>8. ~CoveredTwice(r.engine, ps)
  BY <1>2, <1>3, <1>4, AddKeepsHonest DEF ps
<1>9. PastComplete(r2.engine)
  BY <1>3, <1>7, AddKeepsPast DEF ps
<1>10. /\ r2.headers[b] = c.headers[b]
       /\ \A x \in J : r2.headers[x] = r.headers[x]
       /\ r2.headers = [x \in J \cup {b} |-> r2.headers[x]]
  BY <1>3, <1>7 DEF Insert, Known
<1>11. r2.engine.past[b] = e.past[b] \cap Kept(c)
  <2>1. r2.engine.past[b] = ps \cup UNION {r.engine.past[q] : q \in ps}
    BY <1>7 DEF Added
  <2>2. \A q \in ps : r.engine.past[q] = e.past[q] \cap Kept(c)
    BY DEF Cutting, ps
  <2>3. e.past[b] = ps \cup UNION {e.past[q] : q \in ps}
    BY <1>2 DEF PastOf
  <2>4. ps \subseteq Kept(c)
    BY <1>1 DEF ps
  <2> QED
    BY <2>1, <2>2, <2>3, <2>4
<1>12. \A x \in J : r2.engine.past[x] = r.engine.past[x] /\ r2.engine.parents[x] = r.engine.parents[x]
  BY <1>3, <1>7 DEF Added
<1>13. r2.engine.parents[b] = ps
  BY <1>7 DEF Added
<1>14. ~r2.poisoned
  BY <1>3, <1>7 DEF SameBut
<1>15. Cutting(c, p, J \cup {b}, r2)
  <2>1. ASSUME NEW x \in J \cup {b}
        PROVE  /\ r2.headers[x] = c.headers[x]
               /\ r2.engine.past[x] = c.engine.past[x] \cap Kept(c)
               /\ x # p => r2.engine.parents[x] = c.engine.parents[x]
    <3>1. CASE x = b
      BY <1>10, <1>11, <1>13, <3>1 DEF ps
    <3>2. CASE x \in J
      BY <1>10, <1>12, <3>2 DEF Cutting
    <3> QED
      BY <3>1, <3>2
  <2> QED
    BY <1>7, <1>9, <1>10, <1>14, <2>1 DEF Cutting
<1> QED
  BY <1>7, <1>8, <1>15 DEF ps

----------------------------------------------------------------------------
(* Opening the log.                                                        *)

(* The chain that a replay of the log builds, before it gets the log.      *)
Opened(log) == Replays!Fold(0, NewChain, log)

(* Opening is a replay of the records from the chain of the genesis alone. *)
LEMMA OpenIs == \A log : Open(log) = [Opened(log) EXCEPT !.log = log]
BY DEF Open, Opened, Replays!Fold, ReplayRecord, FoldLeft, MapThenFoldSet, Replays!FoldLeft,
       Replays!MapThenFoldSet, Replays!Max, Max

(* The log replays into the chain, with no state yet.                      *)
ReplayOK(c) ==
    LET r == Opened(c.log)
    IN  /\ \E T : c.log \in Seq(T)
        /\ IsChain(r) /\ ~r.poisoned
        /\ Durable(r) = Durable(c)
        /\ r.state = NONE /\ r.executed = <<>> /\ r.checkpoint = NONE
        /\ r.history_pruned = (r.base_accounts # NONE)

(* What depends on nothing but the durable part of a chain.                *)
LEMMA DurableIs ==
    ASSUME NEW c, NEW r, Durable(r) = Durable(c)
    PROVE  /\ r.engine = c.engine /\ r.headers = c.headers /\ r.tips = c.tips
           /\ r.base_accounts = c.base_accounts /\ r.proof = c.proof
           /\ Known(r) = Known(c) /\ Origin(r) = Origin(c) /\ Tips(r) = Tips(c)
           /\ ChainOK(c) /\ IsChain(r) => ChainOK(r)
<1>1. /\ r.engine = c.engine /\ r.headers = c.headers /\ r.tips = c.tips
      /\ r.base_accounts = c.base_accounts /\ r.proof = c.proof
  BY DEF Durable
<1>2. Known(r) = Known(c) /\ Origin(r) = Origin(c) /\ Tips(r) = Tips(c)
  BY <1>1 DEF Known, Origin, Tips
<1>3. ChainOK(c) /\ IsChain(r) => ChainOK(r)
  BY <1>1, <1>2 DEF ChainOK, TipsOK
<1> QED
  BY <1>1, <1>2, <1>3

(* The genesis alone has an empty log.                                     *)
LEMMA NewReplays == ReplayOK(NewChain)
<1>1. NewChain.log = <<>> /\ <<>> \in Seq({0})
  BY DEF NewChain
<1>2. Opened(<<>>) = NewChain
  BY Replays!FoldEmpty DEF Opened
<1>3. /\ IsChain(NewChain) /\ ~NewChain.poisoned
      /\ NewChain.state = NONE /\ NewChain.executed = <<>> /\ NewChain.checkpoint = NONE
      /\ NewChain.history_pruned = (NewChain.base_accounts # NONE)
  BY DEF NewChain, IsChain
<1> QED
  BY <1>1, <1>2, <1>3 DEF ReplayOK

(* A block is logged and stored, with its body where it has one.           *)
Appended(c, c2, block) ==
    /\ c2.log = Append(c.log, BlockRecord(block))
    /\ c2.headers = Insert(c.headers, block.id, block.header)
    /\ Known(c2) = Known(c) \cup {block.id}
    /\ Origin(c2) = Origin(c)
    /\ c2.block_txs = IF block.txs THEN c.block_txs \cup {block.id} ELSE c.block_txs
    /\ Opened(c2.log).block_txs = IF block.txs THEN Opened(c.log).block_txs \cup {block.id}
                                  ELSE Opened(c.log).block_txs

(* A block that is logged and applied is applied again by a replay.        *)
LEMMA AppendKeeps ==
    ASSUME NEW c, ChainOK(c), ~c.poisoned, ReplayOK(c), NEW block, NEW b, b = block.id,
           b \in Hash \ Known(c),
           NEW ps, ps = block.header.parents, ps \in SUBSET Known(c), ps # {},
           IsAntichain(c.engine, ps), b \notin c.headers[Origin(c)].parents,
           NEW c2, c2 = AppendAndApply(c, block)
    PROVE  /\ ChainOK(c2) /\ ReplayOK(c2)
           /\ SameBut(c, c2, {"engine", "headers", "block_txs", "tips", "log"})
           /\ Appended(c, c2, block)
           /\ c2.engine = AddToEngine(c.engine, b, ps)
           /\ Added(c.engine, b, ps, c2.engine)
<1> DEFINE rec == BlockRecord(block)
           c1 == [c EXCEPT !.log = Append(@, rec)]
           r == Opened(c.log)
           r2 == Apply(r, block)
<1>1. IsChain(c)
  BY DEF ChainOK
<1>2. SameBut(c, c1, {"log"}) /\ c1.log = Append(c.log, rec)
  BY <1>1 DEF IsChain, SameBut
<1>3. c2 = Apply(c1, block)
  BY DEF AppendAndApply
<1> HIDE DEF c1, rec, r, r2
<1>4. Durable(c1) = Durable(c) /\ IsChain(c1) /\ ~c1.poisoned
  BY <1>2 DEF Durable, SameBut
<1>5. /\ ChainOK(c1) /\ Known(c1) = Known(c) /\ Origin(c1) = Origin(c)
      /\ c1.engine = c.engine /\ c1.headers = c.headers /\ c1.tips = c.tips
      /\ c1.block_txs = c.block_txs
  BY <1>2, <1>4, DurableIs DEF SameBut
<1>6. /\ ChainOK(c2)
      /\ SameBut(c1, c2, {"engine", "headers", "block_txs", "tips"})
      /\ c2.engine = AddToEngine(c.engine, b, ps)
      /\ c2.headers = Insert(c.headers, b, block.header)
      /\ c2.block_txs = IF block.txs THEN c.block_txs \cup {b} ELSE c.block_txs
      /\ c2.tips = TipsAfter(c.tips, block)
      /\ Added(c.engine, b, ps, c2.engine)
      /\ Known(c2) = Known(c) \cup {b}
      /\ Origin(c2) = Origin(c)
  <2>1. Takes(c1, block)
    BY <1>4, <1>5 DEF Takes
  <2>2. Applied(c1, c2, block)
    BY <1>3, <2>1, ApplyTakes
  <2> QED
    BY <1>5, <2>2 DEF Applied
<1>7. SameBut(c, c2, {"engine", "headers", "block_txs", "tips", "log"})
      /\ c2.log = Append(c.log, rec)
  BY <1>2, <1>6 DEF SameBut
<1>8. /\ IsChain(r) /\ ~r.poisoned /\ Durable(r) = Durable(c)
      /\ r.state = NONE /\ r.executed = <<>> /\ r.checkpoint = NONE
      /\ r.history_pruned = (r.base_accounts # NONE)
  BY DEF ReplayOK, r
<1>9. /\ ChainOK(r) /\ Known(r) = Known(c) /\ Origin(r) = Origin(c)
      /\ r.engine = c.engine /\ r.headers = c.headers /\ r.tips = c.tips
      /\ r.base_accounts = c.base_accounts /\ r.proof = c.proof
  BY <1>8, DurableIs
<1>10. /\ SameBut(r, r2, {"engine", "headers", "block_txs", "tips"})
       /\ r2.engine = AddToEngine(c.engine, b, ps)
       /\ r2.headers = Insert(c.headers, b, block.header)
       /\ r2.tips = TipsAfter(c.tips, block)
       /\ r2.block_txs = IF block.txs THEN r.block_txs \cup {b} ELSE r.block_txs
  <2>1. Takes(r, block)
    BY <1>8, <1>9 DEF Takes
  <2>2. r2 = Apply(r, block)
    BY DEF r2
  <2>3. Applied(r, r2, block)
    BY <2>1, <2>2, ApplyTakes
  <2> QED
    BY <1>9, <2>3 DEF Applied
<1>11. PICK T : c.log \in Seq(T)
  BY DEF ReplayOK
<1>12. Opened(c2.log) = r2 /\ c2.log \in Seq(T \cup {rec})
  <2>1. c.log \in Seq(T \cup {rec}) /\ rec \in T \cup {rec}
    BY <1>11
  <2>2. Opened(c2.log) = ReplayRecord(0, r, rec)
    BY <1>7, <2>1, Replays!FoldAppend DEF Opened, r
  <2>3. ReplayRecord(0, r, rec) = r2
    BY <1>8 DEF ReplayRecord, Replay, rec, BlockRecord, r2
  <2> QED
    BY <1>7, <2>1, <2>2, <2>3
<1>13. Durable(r2) = Durable(c2)
  <2>1. /\ r2.engine = c2.engine /\ r2.headers = c2.headers /\ r2.tips = c2.tips
        /\ r2.base_accounts = c2.base_accounts /\ r2.proof = c2.proof
    BY <1>6, <1>7, <1>9, <1>10 DEF SameBut
  <2> QED
    BY <2>1 DEF Durable
<1>14. ReplayOK(c2)
  <2>1. /\ IsChain(r2) /\ ~r2.poisoned
        /\ r2.state = NONE /\ r2.executed = <<>> /\ r2.checkpoint = NONE
        /\ r2.history_pruned = (r2.base_accounts # NONE)
    BY <1>8, <1>10 DEF SameBut
  <2> QED
    BY <1>12, <1>13, <2>1 DEF ReplayOK
<1>15. Appended(c, c2, block)
  <2>1. Opened(c2.log).block_txs = IF block.txs THEN Opened(c.log).block_txs \cup {b}
                                   ELSE Opened(c.log).block_txs
    BY <1>10, <1>12 DEF r
  <2> QED
    BY <1>6, <1>7, <2>1 DEF rec, Appended
<1> QED
  BY <1>6, <1>7, <1>14, <1>15

----------------------------------------------------------------------------
(* Prune.                                                                  *)

SnapOf(c) == SnapshotRecord(PointOf(c), c.headers[PointOf(c)], NewBase(c),
                            BuildProofFor(c, PointOf(c)))

(* The log that prune leaves behind.                                       *)
Compacted(c) ==
    <<SnapOf(c)>> \o [j \in DOMAIN SuffixOf(c) |-> BlockRecord(GetBlock(c, SuffixOf(c)[j]))]

(* Where prune and a replay of the compacted log start.                    *)
LEMMA CuttingStarts ==
    ASSUME NEW c, ChainOK(c), PastComplete(c.engine), PruneIndex(c) # 0, CleanCut(c),
           NEW p, p = PointOf(c),
           NEW r, r = LoadSnapshot(NewChain, SnapOf(c))
    PROVE  /\ Cutting(c, p, {p}, r)
           /\ r.engine = NewEngine(p)
           /\ r.block_txs = {} /\ r.base_accounts = NewBase(c) /\ r.history_pruned
           /\ r.proof = BuildProofFor(c, p)
           /\ r.state = NONE /\ r.executed = <<>> /\ r.checkpoint = NONE
<1>1. /\ SnapOf(c).origin = p /\ SnapOf(c).header = c.headers[p]
      /\ SnapOf(c).accounts = NewBase(c) /\ SnapOf(c).proof = BuildProofFor(c, p)
  BY DEF SnapOf, SnapshotRecord
<1>2. IsChain(NewChain) /\ ~NewChain.poisoned
  BY DEF NewChain, IsChain
<1>3. /\ IsChain(r) /\ ~r.poisoned
      /\ r.engine = NewEngine(p) /\ r.tips = <<p>>
      /\ r.headers = [x \in {p} |-> c.headers[p]]
      /\ r.block_txs = {} /\ r.base_accounts = NewBase(c) /\ r.history_pruned
      /\ r.proof = BuildProofFor(c, p)
      /\ r.state = NONE /\ r.executed = <<>> /\ r.checkpoint = NONE
  BY <1>1, <1>2 DEF LoadSnapshot, ResetState, OriginHeader, IsChain
<1>4. /\ p \in Blocks(c.engine) /\ p \in Kept(c) /\ c.headers[p].parents \cap Kept(c) = {}
      /\ Blocks(c.engine) \subseteq Hash
      /\ Kept(c) = (c.engine.past[c.engine.tip] \cup {c.engine.tip}) \ c.engine.past[p]
      /\ p \notin c.engine.past[p]
  <2>1. Honest(c.engine)
    BY DEF ChainOK
  <2>2. /\ Kept(c) \subseteq Blocks(c.engine) /\ p \in Kept(c)
        /\ Kept(c) = (c.engine.past[c.engine.tip] \cup {c.engine.tip}) \ c.engine.past[p]
        /\ c.headers[p].parents \cap Kept(c) = {}
    BY KeptFacts
  <2> QED
    BY <2>1, <2>2, HonestFacts
<1>5. /\ Known(r) = {p} /\ Origin(r) = p /\ Blocks(r.engine) = {p}
      /\ r.headers[p] = c.headers[p]
      /\ r.engine.past[p] = {} /\ r.engine.genesis = p
  BY <1>3 DEF Known, Origin, NewEngine, Blocks
<1>6. Honest(r.engine) /\ PastComplete(r.engine)
  <2>1. p \in Hash
    BY <1>4
  <2> QED
    BY <1>3, <1>5, <2>1, NewHonest DEF PastComplete
<1>7. p \notin c.headers[p].parents
  BY <1>4
<1>8. Tips(r) = {p}
  BY <1>5, <1>7 DEF Tips
<1>9. TipsOK(r)
  BY <1>3, <1>5, <1>8 DEF TipsOK, Distinct, ToSet
<1>10. ChainOK(r)
  BY <1>3, <1>5, <1>6, <1>7, <1>9 DEF ChainOK
<1>11. c.engine.past[p] \cap Kept(c) = {}
  BY <1>4
<1>12. r.headers = [x \in {p} |-> r.headers[x]]
  BY <1>3
<1>13. Cutting(c, p, {p}, r)
  BY <1>3, <1>5, <1>6, <1>10, <1>11, <1>12 DEF Cutting
<1> QED
  BY <1>3, <1>13

(* What prune and the replay of the compacted log have after all kept      *)
(* blocks: the same engine, the same headers, and one tip.                 *)
LEMMA CuttingEnds ==
    ASSUME NEW c, ChainOK(c), PastComplete(c.engine), PruneIndex(c) # 0, CleanCut(c),
           NEW p, p = PointOf(c), NEW r, Cutting(c, p, Kept(c), r)
    PROVE  /\ r.engine.tip = c.engine.tip
           /\ r.tips = <<c.engine.tip>>
           /\ r.headers = Restrict(c.headers, Kept(c))
<1> DEFINE e == c.engine
           d == r.engine
           k == Kept(c)
<1>1. /\ Honest(e) /\ k \subseteq Blocks(e) /\ p \in k /\ e.tip \in k
      /\ k = (e.past[e.tip] \cup {e.tip}) \ e.past[p]
      /\ e.genesis = Origin(c)
  BY KeptFacts DEF ChainOK, Origin
<1>2. /\ ChainOK(r) /\ Honest(d) /\ PastComplete(d) /\ Blocks(d) = k /\ d.genesis = p
      /\ Known(r) = k
      /\ \A b \in k : r.headers[b] = c.headers[b] /\ d.past[b] = e.past[b] \cap k
      /\ r.headers = [b \in k |-> r.headers[b]]
      /\ Origin(r) = p
  BY DEF Cutting, ChainOK, Origin
<1> HIDE DEF e, d, k
<1>3. /\ \A b \in k \ {p} : r.headers[b].parents = d.parents[b] /\ d.parents[b] \subseteq d.past[b]
      /\ r.headers[p].parents \cap k = {}
  <2>1. /\ \A b \in Known(r) \ {Origin(r)} : r.headers[b].parents = d.parents[b]
        /\ r.headers[Origin(r)].parents \cap Known(r) = {}
    BY <1>2 DEF ChainOK, d
  <2>2. \A b \in k \ {p} : d.parents[b] \subseteq d.past[b]
    BY <1>2, HonestFacts
  <2> QED
    BY <1>2, <2>1, <2>2
<1>4. ASSUME NEW t \in k, \A b \in k : t \notin d.past[b] PROVE t \in Tips(r)
  BY <1>2, <1>3, <1>4 DEF Tips
<1>5. e.tip \in Tips(r)
  <2>1. \A b \in k : e.tip \notin d.past[b]
    BY <1>1, <1>2, TipIsLast
  <2> QED
    BY <1>1, <1>4, <2>1
<1>6. d.tip \in Tips(r)
  <2>1. d.tip \in k /\ \A b \in k : d.tip \notin d.past[b]
    BY <1>2, HonestFacts, TipIsLast
  <2> QED
    BY <1>4, <2>1
<1>7. ASSUME NEW x \in Tips(r) PROVE x = e.tip
  <2>1. SUFFICES ASSUME x # e.tip PROVE FALSE
    OBVIOUS
  <2>2. x \in k /\ \A b \in k : x \notin r.headers[b].parents
    BY <1>2 DEF Tips
  <2>3. x \in d.past[e.tip]
    BY <1>1, <1>2, <2>1, <2>2
  <2>4. PICK y \in d.past[e.tip] \cup {e.tip} : y # d.genesis /\ x \in d.parents[y]
    BY <1>1, <1>2, <2>3, ChildExists
  <2>5. y \in k
    BY <1>1, <1>2, <2>4
  <2> QED
    BY <1>2, <1>3, <2>2, <2>4, <2>5
<1>8. Tips(r) = {e.tip} /\ d.tip = e.tip
  BY <1>5, <1>6, <1>7
<1>9. r.tips = <<e.tip>>
  <2>1. r.tips \in Seq(k) /\ Distinct(r.tips) /\ ToSet(r.tips) = {e.tip}
    BY <1>2, <1>8 DEF ChainOK, TipsOK
  <2> DEFINE n == Len(r.tips)
  <2>2. DOMAIN r.tips = 1..n /\ n \in Nat
    BY <2>1
  <2>3. {r.tips[i] : i \in 1..n} = {e.tip}
    BY <2>1, <2>2 DEF ToSet
  <2>4. \A i \in 1..n : r.tips[i] = e.tip
    BY <2>3
  <2>5. n # 0
    <3>1. n = 0 => 1..n = {}
      BY <2>2
    <3> QED
      BY <2>3, <3>1
  <2>6. ~(n > 1)
    <3> SUFFICES ASSUME n > 1 PROVE FALSE
      OBVIOUS
    <3>1. 1 \in DOMAIN r.tips /\ 2 \in DOMAIN r.tips /\ r.tips[1] = r.tips[2]
      BY <2>2, <2>4
    <3> QED
      BY <2>1, <3>1 DEF Distinct
  <2>7. n = 1
    <3> HIDE DEF n
    <3> QED
      BY <2>2, <2>5, <2>6
  <2> QED
    BY <2>1, <2>4, <2>7
<1>10. r.headers = Restrict(c.headers, k)
  <2>1. Restrict(c.headers, k) = [b \in k |-> c.headers[b]]
    BY DEF Restrict
  <2> QED
    BY <1>2, <2>1
<1> QED
  BY <1>8, <1>9, <1>10 DEF d, e, k

(* A new block is added to an engine where a block is added to a chain.    *)
LEMMA ReAddsBlock ==
    ASSUME NEW parents, NEW r, Honest(r.engine), NEW b, b \in Hash \ Blocks(r.engine),
           parents[b] \subseteq Blocks(r.engine), ~CoveredTwice(r.engine, parents[b])
    PROVE  ReAdd(parents, [engine |-> r.engine, panics |-> FALSE], b)
             = [engine |-> AddToEngine(r.engine, b, parents[b]), panics |-> FALSE]
BY DEF ReAdd

(* A log of one record.                                                    *)
LEMMA ReplayOne ==
    ASSUME NEW c, NEW rec
    PROVE  Replays!Fold(0, c, <<rec>>) = ReplayRecord(0, c, rec)
<1> DEFINE s == <<rec>>
           n == 1
<1>1. n \in Nat /\ DOMAIN s = 1..n
  OBVIOUS
<1>2. n \in 1..n /\ n - 1 = 0 /\ s[n] = rec
  OBVIOUS
<1> HIDE DEF s, n
<1>3. PICK g : Replays!Runs(0, c, s, n, g) /\ Replays!Fold(0, c, s) = g[n]
  BY <1>1, Replays!FoldRuns
<1>4. g[0] = c /\ g[n] = ReplayRecord(0, g[0], rec)
  BY <1>2, <1>3 DEF Replays!Runs
<1> QED
  BY <1>3, <1>4 DEF s

(* Prune adds every kept block again without a panic, and a replay of the  *)
(* log it leaves behind arrives at the same chain.                         *)
LEMMA PruneFolds ==
    ASSUME NEW c, ChainOK(c), PastComplete(c.engine), PruneIndex(c) # 0, CleanCut(c),
           NEW p, p = PointOf(c), NEW r, r = Opened(Compacted(c))
    PROVE  /\ Cutting(c, p, Kept(c), r)
           /\ Reanchor(c, p, SuffixOf(c)) = [engine |-> r.engine, panics |-> FALSE]
           /\ \E T : Compacted(c) \in Seq(T)
           /\ r.block_txs = (Kept(c) \ {p}) \cap c.block_txs
           /\ r.base_accounts = NewBase(c) /\ r.history_pruned
           /\ r.proof = BuildProofFor(c, p)
           /\ r.state = NONE /\ r.executed = <<>> /\ r.checkpoint = NONE
<1> DEFINE e == c.engine
           suffix == SuffixOf(c)
           n == Len(suffix)
           log == Compacted(c)
           r0 == LoadSnapshot(NewChain, SnapOf(c))
           parents == KeptParents(c, p, suffix)
           h0 == [engine |-> NewEngine(p), panics |-> FALSE]
           order == TotalOrder(e)
           i == PruneIndex(c)
<1>1. /\ Honest(e)
      /\ Distinct(order) /\ Len(order) \in Nat
      /\ \A j, k \in 1..Len(order) : order[j] \in e.past[order[k]] => j < k
      /\ i \in 2..Len(order) /\ order[i] = p
      /\ suffix \in Seq(Blocks(e)) /\ n = Len(order) - i
      /\ \A j \in 1..n : suffix[j] = order[i + j]
      /\ Distinct(suffix)
      /\ ToSet(suffix) = (e.past[e.tip] \cup {e.tip}) \ (e.past[p] \cup {p})
  <2>1. Honest(e)
    BY DEF ChainOK
  <2> QED
    BY <2>1, CutFacts
<1>2. /\ Kept(c) \subseteq Blocks(e) /\ Blocks(e) \subseteq Hash
      /\ \A b \in Kept(c) \ {p} : e.parents[b] \subseteq Kept(c) \cap e.past[b]
      /\ \A b \in Kept(c) \ {p} : parents[b] = e.parents[b]
      /\ Kept(c) = {p} \cup ToSet(suffix)
  <2>1. /\ Kept(c) \subseteq Blocks(e)
        /\ \A b \in Kept(c) \ {p} : e.parents[b] \subseteq Kept(c) /\ b # e.genesis
        /\ \A b \in Kept(c) \ {p} : parents[b] = c.headers[b].parents
    BY KeptFacts
  <2>2. \A b \in Blocks(e) \ {e.genesis} : c.headers[b].parents = e.parents[b]
                                           /\ e.parents[b] \subseteq e.past[b]
    BY <1>1, HonestFacts DEF ChainOK, Origin
  <2>3. Blocks(e) \subseteq Hash
    BY <1>1, HonestFacts
  <2> QED
    BY <2>1, <2>2, <2>3 DEF Kept
<1>3. n \in Nat /\ DOMAIN suffix = 1..n
  BY <1>1
<1>4. ASSUME NEW j \in 1..n PROVE suffix[j] \in Kept(c) \ {p}
  <2>1. suffix[j] \in ToSet(suffix)
    BY <1>3 DEF ToSet
  <2> QED
    BY <1>1, <1>2, <2>1
<1> DEFINE recs == [j \in 1..n |-> BlockRecord(GetBlock(c, suffix[j]))]
           T == {SnapOf(c)} \cup {recs[j] : j \in 1..n}
<1>5. log = <<SnapOf(c)>> \o recs
  BY <1>3 DEF Compacted
<1>6. recs \in Seq(T) /\ Len(recs) = n /\ <<SnapOf(c)>> \in Seq(T)
  <2>1. recs \in [1..n -> T]
    OBVIOUS
  <2>2. SnapOf(c) \in T
    OBVIOUS
  <2> HIDE DEF recs, T
  <2> QED
    BY <1>3, <2>1, <2>2
<1>7. log \in Seq(T)
  <2> HIDE DEF recs, T, log
  <2> QED
    BY <1>5, <1>6
<1>8. Opened(log) = Replays!Fold(0, r0, recs)
  <2>1. Opened(log) = Replays!Fold(0, Replays!Fold(0, NewChain, <<SnapOf(c)>>), recs)
    <3> DEFINE first == <<SnapOf(c)>>
    <3>1. log = first \o recs /\ first \in Seq(T)
      BY <1>5, <1>6
    <3> HIDE DEF recs, T, log, first
    <3>2. Opened(log) = Replays!Fold(0, Replays!Fold(0, NewChain, first), recs)
      BY <1>6, <3>1, Replays!FoldConcat DEF Opened
    <3> QED
      BY <3>2 DEF first
  <2>2. Replays!Fold(0, NewChain, <<SnapOf(c)>>) = ReplayRecord(0, NewChain, SnapOf(c))
    BY ReplayOne
  <2>3. ReplayRecord(0, NewChain, SnapOf(c)) = r0
    <3>1. ~NewChain.poisoned /\ SnapOf(c).kind = "snapshot"
      BY DEF NewChain, SnapOf, SnapshotRecord
    <3> QED
      BY <3>1 DEF ReplayRecord, Replay
  <2> HIDE DEF r0, recs, log
  <2> QED
    BY <2>1, <2>2, <2>3
<1> HIDE DEF T
<1>9. DOMAIN recs = 1..n
  OBVIOUS
<1>10. PICK g : Replays!Runs(0, r0, recs, n, g) /\ Replays!Fold(0, r0, recs) = g[n]
  <2> HIDE DEF r0, recs, n
  <2> QED
    BY <1>3, <1>9, Replays!FoldRuns
<1>11. Reanchor(c, p, suffix) = ReAdds!Fold(parents, h0, suffix)
  BY DEF Reanchor, ReAdds!Fold, FoldLeft, MapThenFoldSet, ReAdds!FoldLeft, ReAdds!MapThenFoldSet,
         ReAdds!Max, Max
<1>12. PICK h : ReAdds!Runs(parents, h0, suffix, n, h) /\ ReAdds!Fold(parents, h0, suffix) = h[n]
  <2> HIDE DEF parents, h0, n, suffix
  <2> QED
    BY <1>3, ReAdds!FoldRuns
<1> DEFINE J(m) == {p} \cup {suffix[j] : j \in 1..m}
           Good(m) == /\ Cutting(c, p, J(m), g[m])
                      /\ h[m] = [engine |-> g[m].engine, panics |-> FALSE]
                      /\ SameBut(r0, g[m], {"engine", "headers", "block_txs", "tips"})
                      /\ g[m].block_txs = (J(m) \ {p}) \cap c.block_txs
           Z == {m \in Nat : m <= n => Good(m)}
<1>13. /\ Cutting(c, p, {p}, r0)
       /\ r0.engine = NewEngine(p)
       /\ r0.block_txs = {} /\ r0.base_accounts = NewBase(c) /\ r0.history_pruned
       /\ r0.proof = BuildProofFor(c, p)
       /\ r0.state = NONE /\ r0.executed = <<>> /\ r0.checkpoint = NONE
  BY CuttingStarts
<1> HIDE DEF r0, suffix, parents, log, n, order, i
<1>14. 0 \in Z
  <2>1. g[0] = r0 /\ h[0] = h0
    BY <1>10, <1>12 DEF Replays!Runs, ReAdds!Runs
  <2>2. 1..0 = {}
    OBVIOUS
  <2>3. J(0) = {p}
    BY <2>2
  <2>4. SameBut(r0, r0, {"engine", "headers", "block_txs", "tips"})
    BY <1>13 DEF SameBut, Cutting, ChainOK
  <2>5. Good(0)
    <3> HIDE DEF J
    <3> QED
      BY <1>13, <2>1, <2>3, <2>4
  <2> QED
    BY <2>5
<1>15. ASSUME NEW m \in Nat, m \in Z PROVE m + 1 \in Z
  <2> SUFFICES ASSUME m + 1 <= n PROVE Good(m + 1)
    OBVIOUS
  <2> DEFINE b == suffix[m + 1]
             block == GetBlock(c, b)
  <2>1. m + 1 \in 1..n /\ (m + 1) - 1 = m /\ Good(m)
    BY <1>3, <1>15
  <2>2. g[m + 1] = ReplayRecord(0, g[m], recs[m + 1])
    BY <1>10, <2>1 DEF Replays!Runs
  <2>3. h[m + 1] = ReAdd(parents, h[m], b)
    BY <1>12, <2>1 DEF ReAdds!Runs
  <2>4. recs[m + 1] = BlockRecord(block)
    BY <2>1
  <2>5. J(m + 1) = J(m) \cup {b}
    <3>1. 1..(m + 1) = (1..m) \cup {m + 1}
      OBVIOUS
    <3> QED
      BY <3>1
  <2>6. b \in Kept(c) \ ({p} \cup J(m))
    <3>1. b \in Kept(c) \ {p}
      BY <1>4, <2>1
    <3>2. \A j \in 1..m : suffix[j] # b
      <4> SUFFICES ASSUME NEW j \in 1..m, suffix[j] = suffix[m + 1] PROVE FALSE
        OBVIOUS
      <4>1. j \in DOMAIN suffix /\ m + 1 \in DOMAIN suffix /\ j # m + 1
        BY <1>3, <2>1
      <4> QED
        BY <1>1, <4>1 DEF Distinct
    <3> QED
      BY <3>1, <3>2
  <2>7. e.parents[b] \subseteq J(m)
    <3> SUFFICES ASSUME NEW x \in e.parents[b], x # p PROVE \E j \in 1..m : x = suffix[j]
      OBVIOUS
    <3>1. x \in Kept(c) /\ x \in e.past[b]
      BY <1>2, <2>6
    <3>2. PICK j \in 1..n : x = suffix[j]
      BY <1>2, <1>3, <3>1 DEF ToSet
    <3>3. i + j \in 1..Len(order) /\ i + (m + 1) \in 1..Len(order)
          /\ order[i + j] = x /\ order[i + (m + 1)] = b
      BY <1>1, <1>3, <2>1, <3>2
    <3>4. i + j < i + (m + 1)
      BY <1>1, <3>1, <3>3
    <3>5. j \in 1..m
      BY <1>1, <3>4
    <3> QED
      BY <3>2, <3>5
  <2>8. block.id = b /\ block.header = c.headers[b] /\ block.txs = (b \in c.block_txs)
    BY DEF GetBlock
  <2>9. g[m + 1] = Apply(g[m], block)
    <3>1. ~g[m].poisoned
      BY <2>1 DEF Cutting
    <3> HIDE DEF block
    <3> QED
      BY <2>2, <2>4, <3>1 DEF ReplayRecord, Replay, BlockRecord
  <2> HIDE DEF J, b, block, recs
  <2>10. /\ Cutting(c, p, J(m) \cup {b}, g[m + 1])
         /\ g[m + 1].engine = AddToEngine(g[m].engine, b, e.parents[b])
         /\ ~CoveredTwice(g[m].engine, e.parents[b])
         /\ SameBut(g[m], g[m + 1], {"engine", "headers", "block_txs", "tips"})
         /\ g[m + 1].block_txs = IF block.txs THEN g[m].block_txs \cup {b} ELSE g[m].block_txs
    <3> DEFINE r1 == g[m]
               r2 == g[m + 1]
    <3>1. Cutting(c, p, J(m), r1) /\ r2 = Apply(r1, block)
      BY <2>1, <2>9
    <3> HIDE DEF r1, r2
    <3>2. /\ Cutting(c, p, J(m) \cup {b}, r2)
          /\ r2.engine = AddToEngine(r1.engine, b, e.parents[b])
          /\ ~CoveredTwice(r1.engine, e.parents[b])
          /\ SameBut(r1, r2, {"engine", "headers", "block_txs", "tips"})
          /\ r2.block_txs = IF block.txs THEN r1.block_txs \cup {b} ELSE r1.block_txs
      BY <2>6, <2>7, <2>8, <3>1, CuttingStep
    <3> QED
      BY <3>2 DEF r1, r2
  <2>11. h[m + 1] = [engine |-> g[m + 1].engine, panics |-> FALSE]
    <3>1. /\ Honest(g[m].engine) /\ Blocks(g[m].engine) = J(m)
          /\ h[m] = [engine |-> g[m].engine, panics |-> FALSE]
      BY <2>1 DEF Cutting, ChainOK
    <3>2. parents[b] = e.parents[b] /\ b \in Hash \ J(m)
      BY <1>2, <2>6
    <3> QED
      BY <2>3, <2>7, <2>10, <3>1, <3>2, ReAddsBlock
  <2>12. SameBut(r0, g[m + 1], {"engine", "headers", "block_txs", "tips"})
    BY <2>1, <2>10 DEF SameBut
  <2>13. g[m + 1].block_txs = (J(m + 1) \ {p}) \cap c.block_txs
    BY <2>1, <2>5, <2>6, <2>8, <2>10
  <2> QED
    BY <2>5, <2>10, <2>11, <2>12, <2>13
<1> HIDE DEF Z
<1>16. \A m \in Nat : m \in Z
  BY <1>14, <1>15, Replays!Iter!NatInSet
<1>17. Good(n)
  <2> HIDE DEF Good
  <2> QED
    BY <1>3, <1>16 DEF Z
<1>18. J(n) = Kept(c)
  BY <1>2, <1>3 DEF ToSet
<1>19. r = g[n]
  BY <1>8, <1>10 DEF log
<1> HIDE DEF J
<1>20. /\ Cutting(c, p, Kept(c), r)
       /\ Reanchor(c, p, SuffixOf(c)) = [engine |-> r.engine, panics |-> FALSE]
       /\ r.block_txs = (Kept(c) \ {p}) \cap c.block_txs
       /\ SameBut(r0, r, {"engine", "headers", "block_txs", "tips"})
  BY <1>11, <1>12, <1>17, <1>18, <1>19 DEF suffix
<1>21. /\ r.base_accounts = NewBase(c) /\ r.history_pruned
       /\ r.proof = BuildProofFor(c, p)
       /\ r.state = NONE /\ r.executed = <<>> /\ r.checkpoint = NONE
  BY <1>13, <1>20 DEF SameBut
<1> QED
  BY <1>7, <1>20, <1>21 DEF log

(* The two outcomes of prune.                                              *)
LEMMA PruneIs ==
    ASSUME NEW c
    PROVE  Prune(c) = IF PruneIndex(c) = 0 \/ PruneFails(c) THEN c
                      ELSE PruneAt(c, PointOf(c), SuffixOf(c))
BY DEF Prune, PointOf, SuffixOf

(* Updates of chain records, field by field.                               *)
LEMMA CacheFields ==
    ASSUME NEW c, IsChain(c), NEW s, NEW o, NEW c2, c2 = [c EXCEPT !.state = s, !.executed = o]
    PROVE  SameBut(c, c2, {"state", "executed"}) /\ c2.state = s /\ c2.executed = o
BY DEF IsChain, SameBut

(* What pruning leaves of headers and bodies before the engine is          *)
(* replaced.                                                               *)
LEMMA RetainFields ==
    ASSUME NEW c, IsChain(c), NEW k, NEW c2, c2 = Retain(ResetState(c), k)
    PROVE  /\ SameBut(c, c2, {"state", "executed", "checkpoint", "headers", "block_txs"})
           /\ c2.headers = Restrict(c.headers, k)
           /\ c2.block_txs = c.block_txs \cap k
           /\ c2.state = NONE /\ c2.executed = <<>> /\ c2.checkpoint = NONE
<1>1. /\ SameBut(c, ResetState(c), {"state", "executed", "checkpoint"})
      /\ ResetState(c).state = NONE /\ ResetState(c).executed = <<>>
      /\ ResetState(c).checkpoint = NONE
  <2>1. ResetState(c) = [c EXCEPT !.state = NONE, !.executed = <<>>, !.checkpoint = NONE]
    BY DEF ResetState
  <2> DEFINE o == <<>>
             d == ResetState(c)
  <2>2. d = [c EXCEPT !.state = NONE, !.executed = o, !.checkpoint = NONE]
    BY <2>1
  <2> HIDE DEF o, d
  <2>3. /\ SameBut(c, d, {"state", "executed", "checkpoint"})
        /\ d.state = NONE /\ d.executed = o /\ d.checkpoint = NONE
    BY <2>2 DEF IsChain, SameBut
  <2> QED
    BY <2>3 DEF o, d
<1> DEFINE d == ResetState(c)
           h == Restrict(d.headers, k)
           t == d.block_txs \cap k
<1>2. c2 = [d EXCEPT !.headers = h, !.block_txs = t] /\ IsChain(d)
  BY <1>1 DEF Retain, SameBut
<1>3. SameBut(c, d, {"state", "executed", "checkpoint"})
      /\ d.state = NONE /\ d.executed = <<>> /\ d.checkpoint = NONE
  BY <1>1
<1>4. h = Restrict(c.headers, k) /\ t = c.block_txs \cap k
  BY <1>3 DEF SameBut
<1> HIDE DEF d, h, t
<1>5. SameBut(d, c2, {"headers", "block_txs"}) /\ c2.headers = h /\ c2.block_txs = t
  BY <1>2 DEF SameBut, IsChain
<1> QED
  BY <1>3, <1>4, <1>5 DEF SameBut

(* What a prune of c at p leaves.                                          *)
PrunedAt(c, p, c2) ==
    /\ Known(c2) = Kept(c) /\ Origin(c2) = p /\ c2.engine.tip = c.engine.tip
    /\ c2.headers = Restrict(c.headers, Kept(c))
    /\ \A b \in Kept(c) : c2.engine.past[b] = c.engine.past[b] \cap Kept(c)
    /\ c2.block_txs = c.block_txs \cap Kept(c)
    /\ c2.base_accounts = NewBase(c) /\ c2.history_pruned
    /\ c2.proof = BuildProofFor(c, p)
    /\ c2.state = NONE /\ c2.executed = <<>> /\ c2.checkpoint = NONE
    /\ Opened(c2.log).block_txs = c2.block_txs \ {p}

(* A prune that re-anchors the chain.                                      *)
LEMMA PruneKeeps ==
    ASSUME NEW c, ChainOK(c), ~c.poisoned, PastComplete(c.engine),
           PruneIndex(c) # 0, ~PruneFails(c), CleanCut(c),
           NewBase(c) # NONE,
           NEW p, p = PointOf(c), NEW c2, c2 = Prune(c)
    PROVE  /\ ChainOK(c2) /\ PastComplete(c2.engine) /\ ReplayOK(c2) /\ ~c2.poisoned
           /\ PrunedAt(c, p, c2)
<1> DEFINE r == Opened(Compacted(c))
           readded == Reanchor(c, p, SuffixOf(c))
<1>1. /\ Cutting(c, p, Kept(c), r)
      /\ readded = [engine |-> r.engine, panics |-> FALSE]
      /\ \E T : Compacted(c) \in Seq(T)
      /\ r.block_txs = (Kept(c) \ {p}) \cap c.block_txs
      /\ r.base_accounts = NewBase(c) /\ r.history_pruned
      /\ r.proof = BuildProofFor(c, p)
      /\ r.state = NONE /\ r.executed = <<>> /\ r.checkpoint = NONE
  BY PruneFolds
<1>2. r.tips = <<c.engine.tip>> /\ r.engine.tip = c.engine.tip
      /\ r.headers = Restrict(c.headers, Kept(c))
  BY <1>1, CuttingEnds
<1> HIDE DEF r
<1>3. /\ ChainOK(r) /\ IsChain(r) /\ ~r.poisoned /\ PastComplete(r.engine)
      /\ Known(r) = Kept(c) /\ Origin(r) = p
      /\ \A b \in Kept(c) : r.engine.past[b] = c.engine.past[b] \cap Kept(c)
  BY <1>1 DEF Cutting, ChainOK
<1>4. c2 = PrunedTo(c, p, SuffixOf(c), readded, NewBase(c), BuildProofFor(c, p))
  BY PruneIs DEF PruneAt
<1> HIDE DEF readded
<1>5. readded.engine = r.engine /\ ~readded.panics
  BY <1>1
<1>6. /\ IsChain(c2) /\ c2.engine = r.engine
      /\ c2.log = Compacted(c)
      /\ c2.base_accounts = NewBase(c) /\ c2.history_pruned
      /\ c2.tips = <<r.engine.tip>>
      /\ c2.proof = BuildProofFor(c, p)
      /\ c2.headers = Restrict(c.headers, Kept(c))
      /\ c2.block_txs = c.block_txs \cap Kept(c)
      /\ c2.state = NONE /\ c2.executed = <<>> /\ c2.checkpoint = NONE
      /\ ~c2.poisoned
  <2> DEFINE c1 == Retain(ResetState(c), {p} \cup ToSet(SuffixOf(c)))
  <2>1. c1 = Retain(ResetState(c), Kept(c))
    BY DEF Kept
  <2>2. /\ SameBut(c, c1, {"state", "executed", "checkpoint", "headers", "block_txs"})
        /\ c1.headers = Restrict(c.headers, Kept(c))
        /\ c1.block_txs = c.block_txs \cap Kept(c)
        /\ c1.state = NONE /\ c1.executed = <<>> /\ c1.checkpoint = NONE
    <3>1. IsChain(c)
      BY DEF ChainOK
    <3> HIDE DEF c1
    <3> QED
      BY <2>1, <3>1, RetainFields
  <2>3. c2 = [c1 EXCEPT
                !.engine         = readded.engine,
                !.log            = Compacted(c),
                !.base_accounts  = NewBase(c),
                !.history_pruned = TRUE,
                !.tips           = <<readded.engine.tip>>,
                !.proof          = BuildProofFor(c, p)]
    BY <1>4, <1>5 DEF PrunedTo, Compacted, SnapOf, PrunedTips
  <2> HIDE DEF c1
  <2>4. IsChain(c1) /\ ~c1.poisoned
    BY <2>2 DEF SameBut
  <2>5. /\ SameBut(c1, c2, {"engine", "log", "base_accounts", "history_pruned", "tips", "proof"})
        /\ c2.engine = readded.engine /\ c2.log = Compacted(c)
        /\ c2.base_accounts = NewBase(c) /\ c2.history_pruned
        /\ c2.tips = <<readded.engine.tip>> /\ c2.proof = BuildProofFor(c, p)
    <3> DEFINE en == readded.engine
               lg == Compacted(c)
               ba == NewBase(c)
               ts == <<readded.engine.tip>>
               pr == BuildProofFor(c, p)
    <3>1. c2 = [c1 EXCEPT !.engine = en, !.log = lg, !.base_accounts = ba,
                          !.history_pruned = TRUE, !.tips = ts, !.proof = pr]
      BY <2>3
    <3> HIDE DEF en, lg, ba, ts, pr
    <3>2. /\ SameBut(c1, c2, {"engine", "log", "base_accounts", "history_pruned", "tips", "proof"})
          /\ c2.engine = en /\ c2.log = lg /\ c2.base_accounts = ba /\ c2.history_pruned
          /\ c2.tips = ts /\ c2.proof = pr
      <4>1. IsChain(c1)
        BY <2>4
      <4> QED
        BY <3>1, <4>1 DEF IsChain, SameBut
    <3> QED
      BY <3>2 DEF en, lg, ba, ts, pr
  <2> QED
    BY <1>5, <2>2, <2>4, <2>5 DEF SameBut
<1>7. Durable(r) = Durable(c2)
  BY <1>1, <1>2, <1>6 DEF Durable
<1>8. ChainOK(c2) /\ Known(c2) = Kept(c) /\ Origin(c2) = p
  BY <1>3, <1>6, <1>7, DurableIs
<1>9. ReplayOK(c2)
  BY <1>1, <1>3, <1>6, <1>7 DEF ReplayOK, r
<1>10. Opened(c2.log).block_txs = c2.block_txs \ {p}
  BY <1>1, <1>6 DEF r
<1>11. \A b \in Kept(c) : c2.engine.past[b] = c.engine.past[b] \cap Kept(c)
  BY <1>3, <1>6
<1>12. PrunedAt(c, p, c2)
  BY <1>2, <1>6, <1>8, <1>10, <1>11 DEF PrunedAt
<1>13. PastComplete(c2.engine)
  BY <1>3, <1>6
<1> QED
  BY <1>6, <1>8, <1>9, <1>12, <1>13

(* Fields that the durable part and its replay do not look at.             *)
LEMMA SameKeeps ==
    ASSUME NEW c, ChainOK(c), ReplayOK(c), NEW c2,
           SameBut(c, c2, {"block_txs", "state", "executed", "checkpoint", "history_pruned", "poisoned"})
    PROVE  ChainOK(c2) /\ ReplayOK(c2) /\ Durable(c2) = Durable(c)
<1>1. Durable(c2) = Durable(c) /\ IsChain(c2) /\ c2.log = c.log
  BY DEF SameBut, Durable
<1>2. ChainOK(c2)
  BY <1>1, DurableIs
<1>3. ReplayOK(c2)
  BY <1>1 DEF ReplayOK
<1> QED
  BY <1>1, <1>2, <1>3

(* A chain that is opened again.                                           *)
LEMMA OpenKeeps ==
    ASSUME NEW c, ChainOK(c), ReplayOK(c), NEW c2, c2 = Open(c.log)
    PROVE  /\ ChainOK(c2) /\ ReplayOK(c2) /\ Durable(c2) = Durable(c) /\ ~c2.poisoned
           /\ SameBut(Opened(c.log), c2, {"log"}) /\ c2.log = c.log
<1> DEFINE r == Opened(c.log)
<1>1. c2 = [r EXCEPT !.log = c.log]
  BY OpenIs
<1>2. IsChain(r) /\ ~r.poisoned /\ Durable(r) = Durable(c)
  BY DEF ReplayOK
<1> HIDE DEF r
<1>3. SameBut(r, c2, {"log"}) /\ c2.log = c.log /\ IsChain(c2)
  BY <1>1, <1>2 DEF IsChain, SameBut
<1>4. Durable(c2) = Durable(c) /\ ~c2.poisoned
  BY <1>2, <1>3 DEF Durable, SameBut
<1>5. ChainOK(c2)
  BY <1>3, <1>4, DurableIs
<1>6. ReplayOK(c2)
  <2>1. Opened(c2.log) = r /\ \E T : c2.log \in Seq(T)
    BY <1>3 DEF ReplayOK, r
  <2>2. /\ IsChain(r) /\ ~r.poisoned
        /\ r.state = NONE /\ r.executed = <<>> /\ r.checkpoint = NONE
        /\ r.history_pruned = (r.base_accounts # NONE)
    BY DEF ReplayOK, r
  <2> QED
    BY <1>2, <1>4, <2>1, <2>2 DEF ReplayOK
<1> QED
  BY <1>3, <1>4, <1>5, <1>6 DEF r

(* Only the checkpoint advances.                                           *)
LEMMA AdvanceIs ==
    ASSUME NEW c, IsChain(c), NEW c2, c2 = MaybeAdvanceCheckpoint(c)
    PROVE  SameBut(c, c2, {"checkpoint"})
<1>1. ASSUME NEW cp, c2 = [c EXCEPT !.checkpoint = cp] PROVE SameBut(c, c2, {"checkpoint"})
  BY <1>1 DEF SameBut, IsChain
<1>2. CASE c2 = c
  BY <1>2 DEF SameBut
<1>3. c2 = c \/ \E cp : c2 = [c EXCEPT !.checkpoint = cp]
  BY DEF MaybeAdvanceCheckpoint
<1> QED
  BY <1>1, <1>2, <1>3

(* virtual_state changes the state, the cached order and the checkpoint.   *)
LEMMA VirtualStateIs ==
    ASSUME NEW c, IsChain(c), NEW c2, c2 = VirtualState(c)
    PROVE  SameBut(c, c2, {"state", "executed", "checkpoint"})
<1> DEFINE s == StateFor(c, TotalOrder(c.engine))
           o == TotalOrder(c.engine)
           c1 == [c EXCEPT !.state = s, !.executed = o]
<1>1. CASE VirtualStateFails(c)
  BY <1>1 DEF VirtualState, SameBut, IsChain
<1>2. CASE ~VirtualStateFails(c)
  <2>1. c2 = MaybeAdvanceCheckpoint(c1)
    BY <1>2 DEF VirtualState
  <2> HIDE DEF s, o
  <2>2. SameBut(c, c1, {"state", "executed"})
    BY CacheFields
  <2> HIDE DEF c1
  <2>3. SameBut(c1, c2, {"checkpoint"})
    BY <2>1, <2>2, AdvanceIs DEF SameBut
  <2> QED
    BY <2>2, <2>3 DEF SameBut
<1> QED
  BY <1>1, <1>2

(* prune_finalized_transactions changes the bodies and drops the state.    *)
LEMMA DropIs ==
    ASSUME NEW c, IsChain(c), NEW c2, c2 = PruneFinalizedTransactions(c)
    PROVE  /\ SameBut(c, c2, {"block_txs", "history_pruned", "state", "executed"})
           /\ c2.block_txs \subseteq c.block_txs
BY DEF PruneFinalizedTransactions, SameBut, IsChain

----------------------------------------------------------------------------
(* Account sets.                                                           *)

(* Account sets, and what the caches of the state hold.                    *)
AccountsOK(c) ==
    /\ c.base_accounts \in AccountSets \cup {NONE}
    /\ c.state \in AccountSets \cup {NONE}
    /\ c.executed \in Seq(Hash)
    /\ c.checkpoint \in Checkpoints \cup {NONE}

(* Executing blocks is the fold of ReplayBlock.                            *)
LEMMA ReplayIsFold ==
    \A c, accounts, blocks : ReplayBlocks(c, accounts, blocks) = Runs!Fold(c, accounts, blocks)
BY DEF ReplayBlocks, Runs!Fold, FoldLeft, MapThenFoldSet, Runs!FoldLeft, Runs!MapThenFoldSet,
       Runs!Max, Max

(* Executing blocks on an account set gives an account set.                *)
LEMMA ReplayTyped ==
    ASSUME NEW c, NEW accounts \in AccountSets, NEW blocks \in Seq(Hash)
    PROVE  ReplayBlocks(c, accounts, blocks) \in AccountSets
<1>1. ASSUME NEW a \in AccountSets, NEW i \in 1..Len(blocks)
      PROVE  ReplayBlock(c, a, blocks[i]) \in AccountSets
  <2>1. blocks[i] \in Hash /\ (blocks[i] \in c.block_txs) \in BOOLEAN
    OBVIOUS
  <2>2. <<blocks[i], blocks[i] \in c.block_txs>> \in Hash \X BOOLEAN
    BY <2>1
  <2> QED
    BY <2>2 DEF ReplayBlock, AccountSets
<1>2. Runs!Fold(c, accounts, blocks) \in AccountSets
  BY <1>1, Runs!FoldInSet
<1> QED
  BY <1>2, ReplayIsFold

(* Slices of a sequence.                                                   *)
LEMMA SliceTyped ==
    ASSUME NEW T, NEW s \in Seq(T), NEW i \in Nat \ {0}, NEW j \in Nat, j <= Len(s)
    PROVE  SubSeq(s, i, j) \in Seq(T) /\ Upto(s, j) \in Seq(T)
BY DEF Upto

(* What is left of a sequence after a prefix.                              *)
LEMMA FromTyped ==
    ASSUME NEW T, NEW s \in Seq(T), NEW i \in Nat \ {0} PROVE From(s, i) \in Seq(T)
BY DEF From

(* The total order of an honest engine.                                    *)
LEMMA OrderFacts ==
    ASSUME NEW e, Honest(e), NEW order, order = TotalOrder(e)
    PROVE  /\ order \in Seq(Blocks(e)) /\ order \in Seq(Hash)
           /\ Distinct(order) /\ Len(order) \in Nat
           /\ ToSet(order) = e.past[e.tip] \cup {e.tip}
           /\ \A j, k \in 1..Len(order) : order[j] \in e.past[order[k]] => j < k
<1> DEFINE S == e.past[e.tip] \cup {e.tip}
<1>1. S \subseteq Blocks(e) /\ IsFiniteSet(S) /\ e.tip \in Blocks(e) /\ Blocks(e) \subseteq Hash
  <2>1. S \subseteq Blocks(e) /\ e.tip \in Blocks(e) /\ IsFiniteSet(Blocks(e)) /\ Blocks(e) \subseteq Hash
    BY HonestFacts
  <2> QED
    BY <2>1, FS_Subset
<1>2. Lists(order, S, e.past)
  BY <1>1, OrderLists DEF TotalOrder, Honest
<1> HIDE DEF S
<1>3. /\ order \in Seq(S) /\ Distinct(order) /\ ToSet(order) = S /\ Len(order) \in Nat
      /\ \A j, k \in 1..Len(order) : order[j] \in e.past[order[k]] => j < k
  BY <1>1, <1>2, ListsFacts
<1>4. order \in Seq(Blocks(e)) /\ order \in Seq(Hash)
  BY <1>1, <1>3
<1> QED
  BY <1>3, <1>4 DEF S

(* A replay starts at an account set: the re-anchor base, or the           *)
(* allocations.                                                            *)
LEMMA SeedTyped ==
    ASSUME NEW c, AccountsOK(c) PROVE SeedAccounts(c) \in AccountSets
<1>1. <<>> \in AccountSets
  BY DEF AccountSets
<1> QED
  BY <1>1 DEF SeedAccounts, AccountsOK

(* What replays of an honest chain give.                                   *)
LEMMA StatesTyped ==
    ASSUME NEW c, Honest(c.engine), AccountsOK(c)
    PROVE  /\ StateFor(c, TotalOrder(c.engine)) \in AccountSets
           /\ PruneIndex(c) # 0 /\ ~PruneFails(c) => NewBase(c) \in AccountSets
<1> DEFINE order == TotalOrder(c.engine)
<1>1. order \in Seq(Hash) /\ Len(order) \in Nat
  BY OrderFacts
<1>2. \A i \in Nat \ {0} : From(order, i) \in Seq(Hash)
  BY <1>1, FromTyped
<1>3. SeedAccounts(c) \in AccountSets
  BY SeedTyped
<1>4. c.checkpoint # NONE => /\ c.checkpoint.accounts \in AccountSets
                             /\ c.checkpoint.len + 1 \in Nat \ {0}
  BY DEF AccountsOK, Checkpoints
<1>5. StateFor(c, order) \in AccountSets
  <2>1. CASE CanExtend(c)
    <3>1. c.state \in AccountSets /\ Len(c.executed) + 1 \in Nat \ {0}
      BY <2>1 DEF CanExtend, AccountsOK
    <3> QED
      BY <1>2, <2>1, <3>1, ReplayTyped DEF StateFor
  <2>2. CASE ~CanExtend(c) /\ CheckpointMatches(c)
    <3>1. c.checkpoint # NONE
      BY <2>2 DEF CheckpointMatches
    <3> QED
      BY <1>2, <1>4, <2>2, <3>1, ReplayTyped DEF StateFor
  <2>3. CASE ~CanExtend(c) /\ ~CheckpointMatches(c)
    BY <1>1, <1>3, <2>3, ReplayTyped DEF StateFor
  <2> QED
    BY <2>1, <2>2, <2>3
<1>6. ASSUME PruneIndex(c) # 0, ~PruneFails(c) PROVE NewBase(c) \in AccountSets
  <2> DEFINE prefix == Upto(order, PruneIndex(c))
  <2>1. PruneIndex(c) \in Nat /\ PruneIndex(c) <= Len(order)
    BY <1>1, <1>6, PruneIndexRange
  <2>2. prefix \in Seq(Hash)
    <3>1. Upto(order, PruneIndex(c)) \in Seq(Hash)
      <4> HIDE DEF order
      <4> QED
        BY <1>1, <2>1, SliceTyped
    <3> QED
      BY <3>1
  <2> HIDE DEF prefix
  <2>3. CASE NoReplayBase(c)
    <3>1. c.checkpoint # NONE
      BY <1>6, <2>3 DEF PruneFails
    <3>2. From(prefix, c.checkpoint.len + 1) \in Seq(Hash)
      <4>1. c.checkpoint.len + 1 \in Nat \ {0}
        BY <1>4, <3>1
      <4> QED
        BY <2>2, <4>1, FromTyped
    <3> QED
      BY <1>4, <2>3, <3>1, <3>2, ReplayTyped DEF NewBase, prefix
  <2>4. CASE ~NoReplayBase(c)
    BY <1>3, <2>2, <2>4, ReplayTyped DEF NewBase, prefix
  <2> QED
    BY <2>3, <2>4
<1> QED
  BY <1>5, <1>6

(* The checkpoint that virtual_state may advance.                          *)
LEMMA AdvanceTyped ==
    ASSUME NEW c, IsChain(c), AccountsOK(c), NEW c2, c2 = MaybeAdvanceCheckpoint(c)
    PROVE  AccountsOK(c2)
<1> DEFINE cp_len == IF c.checkpoint = NONE THEN 0 ELSE c.checkpoint.len
           from == IF c.checkpoint = NONE THEN SeedAccounts(c) ELSE c.checkpoint.accounts
           target == Len(c.executed) - FinalityDepth
           cp == [len |-> target, last_id |-> c.executed[target],
                  accounts |-> ReplayBlocks(c, from, SubSeq(c.executed, cp_len + 1, target))]
<1>1. SameBut(c, c2, {"checkpoint"})
  BY AdvanceIs
<1>2. CASE Len(c.executed) < cp_len + 2 * FinalityDepth
  BY <1>2 DEF MaybeAdvanceCheckpoint
<1>3. CASE ~(Len(c.executed) < cp_len + 2 * FinalityDepth)
  <2>1. c2.checkpoint = cp
    <3>1. c2 = [c EXCEPT !.checkpoint = cp]
      BY <1>3 DEF MaybeAdvanceCheckpoint
    <3> HIDE DEF cp
    <3> QED
      BY <3>1 DEF IsChain
  <2>2. cp_len \in Nat /\ from \in AccountSets
    BY SeedTyped DEF AccountsOK, Checkpoints
  <2>3. c.executed \in Seq(Hash) /\ Len(c.executed) \in Nat /\ FinalityDepth \in Nat \ {0}
    BY ChainAssumption DEF AccountsOK
  <2> HIDE DEF cp_len, from
  <2>4. target \in Nat /\ target \in 1..Len(c.executed)
    BY <1>3, <2>2, <2>3
  <2> HIDE DEF target
  <2>5. c.executed[target] \in Hash
    BY <2>3, <2>4
  <2>6. SubSeq(c.executed, cp_len + 1, target) \in Seq(Hash)
    <3>1. cp_len + 1 \in Nat \ {0} /\ target <= Len(c.executed)
      BY <2>2, <2>3, <2>4
    <3> QED
      BY <2>3, <2>4, <3>1, SliceTyped
  <2>7. ReplayBlocks(c, from, SubSeq(c.executed, cp_len + 1, target)) \in AccountSets
    BY <2>2, <2>6, ReplayTyped
  <2>8. cp \in Checkpoints
    BY <2>4, <2>5, <2>7 DEF Checkpoints
  <2> HIDE DEF cp
  <2> QED
    BY <1>1, <2>1, <2>8 DEF AccountsOK, SameBut
<1> QED
  BY <1>2, <1>3

(* virtual_state caches account sets, whether it extends, rebuilds or      *)
(* fails.                                                                  *)
LEMMA VirtualTyped ==
    ASSUME NEW c, IsChain(c), Honest(c.engine), AccountsOK(c), NEW c2, c2 = VirtualState(c)
    PROVE  AccountsOK(c2)
<1> DEFINE s == StateFor(c, TotalOrder(c.engine))
           o == TotalOrder(c.engine)
           c1 == [c EXCEPT !.state = s, !.executed = o]
<1>1. CASE VirtualStateFails(c)
  BY <1>1 DEF VirtualState, AccountsOK, IsChain
<1>2. CASE ~VirtualStateFails(c)
  <2>1. c2 = MaybeAdvanceCheckpoint(c1)
    BY <1>2 DEF VirtualState
  <2>2. s \in AccountSets /\ o \in Seq(Hash)
    BY StatesTyped, OrderFacts
  <2> HIDE DEF s, o
  <2>3. SameBut(c, c1, {"state", "executed"}) /\ c1.state = s /\ c1.executed = o
    <3>1. c1 = [c EXCEPT !.state = s, !.executed = o]
      OBVIOUS
    <3> HIDE DEF c1
    <3> QED
      BY <3>1 DEF IsChain, SameBut
  <2> HIDE DEF c1
  <2>4. AccountsOK(c1) /\ IsChain(c1)
    BY <2>2, <2>3 DEF AccountsOK, SameBut
  <2> QED
    BY <2>1, <2>4, AdvanceTyped
<1> QED
  BY <1>1, <1>2

----------------------------------------------------------------------------
(* The network, and how the chain lies in it.                              *)

(* A node that never prunes: its engine has all of the past of its blocks. *)
NetOK(n) ==
    /\ n = [engine |-> n.engine, headers |-> n.headers,
            history_pruned |-> n.history_pruned, mined |-> n.mined]
    /\ Honest(n.engine) /\ PastComplete(n.engine)
    /\ Known(n) = Blocks(n.engine) /\ n.engine.genesis = Genesis
    /\ \A b \in Known(n) \ {Genesis} : n.headers[b].parents = n.engine.parents[b]
    /\ n.headers[Genesis].parents = {}
    /\ Known(n) \subseteq n.mined /\ n.mined \subseteq Hash

(* A block that both know has the same header, and in the network also the *)
(* past of the chain's origin, of which the chain holds nothing.           *)
Linked(c, n) ==
    /\ Known(c) \subseteq n.mined
    /\ c.headers[Origin(c)].parents \subseteq n.mined
    /\ \A b \in Known(c) \cap Known(n) :
         /\ Origin(c) \in Known(n)
         /\ c.headers[b] = n.headers[b]
         /\ n.engine.past[b] = c.engine.past[b] \cup n.engine.past[Origin(c)]
    /\ Origin(c) \in Known(n) => Known(c) \cap n.engine.past[Origin(c)] = {}

(* What holds of the chain alone.                                          *)
ChainInv(c) == ChainOK(c) /\ PastComplete(c.engine) /\ ReplayOK(c) /\ AccountsOK(c)

(* Blocks and headers of the network.                                      *)
LEMMA NetFacts ==
    ASSUME NEW n, NetOK(n)
    PROVE  \A b \in Known(n) :
             /\ b \in Hash /\ n.headers[b].parents \subseteq n.engine.past[b]
             /\ n.engine.past[b] \subseteq Known(n) /\ b \notin n.engine.past[b]
             /\ \A a \in n.engine.past[b] : n.engine.past[a] \subseteq n.engine.past[b]
             /\ IsAntichain(n.engine, n.headers[b].parents)
             /\ n.headers[b].parents # {} =>
                  /\ b # Genesis
                  /\ n.engine.past[b] = PastOf(n.engine, n.headers[b].parents)
<1>1. /\ Honest(n.engine) /\ PastComplete(n.engine) /\ Known(n) = Blocks(n.engine)
      /\ n.engine.genesis = Genesis
      /\ \A b \in Known(n) \ {Genesis} : n.headers[b].parents = n.engine.parents[b]
      /\ n.headers[Genesis].parents = {}
  BY DEF NetOK
<1> SUFFICES ASSUME NEW b \in Known(n)
             PROVE  /\ b \in Hash /\ n.headers[b].parents \subseteq n.engine.past[b]
                    /\ n.engine.past[b] \subseteq Known(n) /\ b \notin n.engine.past[b]
                    /\ \A a \in n.engine.past[b] : n.engine.past[a] \subseteq n.engine.past[b]
                    /\ IsAntichain(n.engine, n.headers[b].parents)
                    /\ n.headers[b].parents # {} =>
                         /\ b # Genesis
                         /\ n.engine.past[b] = PastOf(n.engine, n.headers[b].parents)
  OBVIOUS
<1>2. /\ b \in Hash /\ n.engine.past[b] \subseteq Known(n) /\ b \notin n.engine.past[b]
      /\ \A a \in n.engine.past[b] : n.engine.past[a] \subseteq n.engine.past[b]
  BY <1>1, HonestFacts
<1>3. CASE b = Genesis
  BY <1>1, <1>2, <1>3 DEF IsAntichain
<1>4. CASE b # Genesis
  <2>1. n.headers[b].parents = n.engine.parents[b]
    BY <1>1, <1>4
  <2>2. n.engine.parents[b] \subseteq n.engine.past[b] /\ IsAntichain(n.engine, n.engine.parents[b])
    BY <1>1, <1>4, HonestFacts
  <2>3. n.engine.past[b] = PastOf(n.engine, n.engine.parents[b])
    BY <1>1, <1>4 DEF PastComplete
  <2> QED
    BY <1>2, <1>4, <2>1, <2>2, <2>3
<1> QED
  BY <1>3, <1>4

(* What an accepted block has gone through.                                *)
LEMMA AcceptedIs ==
    ASSUME NEW c, NEW block, AcceptResult(c, block) = "ok"
    PROVE  /\ block.id \notin Known(c)
           /\ block.header.parents # {} /\ block.header.parents \subseteq Known(c)
           /\ block.txs
           /\ block.header.interlink =
                InterlinkForParent(c, SelectedParentDag(c, block.header.parents))
BY DEF AcceptResult, IntrinsicallyValid

(* The network has a block more, or has not.                               *)
Grown(n, n2, block) ==
    /\ n2.mined = n.mined \cup {block.id}
    /\ \/ n2.engine = n.engine /\ n2.headers = n.headers
       \/ /\ block.header.parents # {} /\ block.header.parents \subseteq Known(n)
          /\ n2.headers = Insert(n.headers, block.id, block.header)
          /\ Known(n2) = Known(n) \cup {block.id}
          /\ Added(n.engine, block.id, block.header.parents, n2.engine)

(* A node with full history takes a block or leaves it.                    *)
LEMMA NetAccepts ==
    ASSUME NEW n, NetOK(n), NEW block, NEW b, b = block.id, b \in Hash \ n.mined,
           NEW ps, ps = block.header.parents,
           ps # {} /\ ps \subseteq Known(n) => IsAntichain(n.engine, ps),
           NEW n2, n2 = NetworkAccept(n, block)
    PROVE  NetOK(n2) /\ Grown(n, n2, block)
<1>1. /\ n = [engine |-> n.engine, headers |-> n.headers,
              history_pruned |-> n.history_pruned, mined |-> n.mined]
      /\ Honest(n.engine) /\ PastComplete(n.engine)
      /\ Known(n) = Blocks(n.engine) /\ n.engine.genesis = Genesis
      /\ \A x \in Known(n) \ {Genesis} : n.headers[x].parents = n.engine.parents[x]
      /\ n.headers[Genesis].parents = {}
      /\ Known(n) \subseteq n.mined /\ n.mined \subseteq Hash
  BY DEF NetOK
<1>2. CASE AcceptResult(n, block) # "ok"
  <2>1. n2 = [n EXCEPT !.mined = @ \cup {b}]
    BY <1>2 DEF NetworkAccept
  <2>2. /\ n2 = [engine |-> n2.engine, headers |-> n2.headers,
                 history_pruned |-> n2.history_pruned, mined |-> n2.mined]
        /\ n2.engine = n.engine /\ n2.headers = n.headers /\ n2.mined = n.mined \cup {b}
    BY <1>1, <2>1
  <2>3. Known(n2) = Known(n)
    BY <2>2 DEF Known
  <2>4. NetOK(n2)
    BY <1>1, <2>2, <2>3 DEF NetOK
  <2> QED
    BY <2>2, <2>4 DEF Grown
<1>3. CASE AcceptResult(n, block) = "ok"
  <2>1. b \notin Known(n) /\ ps # {} /\ ps \in SUBSET Blocks(n.engine)
    BY <1>1, <1>3, AcceptedIs
  <2> DEFINE e2 == AddToEngine(n.engine, b, ps)
             h2 == Insert(n.headers, b, block.header)
  <2>2. n2 = [[n EXCEPT !.mined = @ \cup {b}] EXCEPT !.engine = e2, !.headers = h2]
    <3>1. [n EXCEPT !.mined = @ \cup {b}].engine = n.engine
          /\ [n EXCEPT !.mined = @ \cup {b}].headers = n.headers
      BY <1>1
    <3>2. n2 = [[n EXCEPT !.mined = @ \cup {b}] EXCEPT
                  !.engine  = AddToEngine(@, b, ps),
                  !.headers = Insert(@, b, block.header)]
      BY <1>3 DEF NetworkAccept
    <3> QED
      BY <3>1, <3>2
  <2>3. ~CoveredTwice(n.engine, ps) /\ Honest(e2)
    BY <1>1, <2>1, AddKeepsHonest
  <2>4. Added(n.engine, b, ps, e2)
    <3>1. EngineOK(n.engine)
      BY <1>1 DEF Honest
    <3> QED
      BY <1>1, <2>1, <3>1, AddBlockFacts DEF EngineOK
  <2>5. PastComplete(e2)
    BY <1>1, <2>1, <2>4, AddKeepsPast
  <2> HIDE DEF e2, h2
  <2>6. /\ n2 = [engine |-> n2.engine, headers |-> n2.headers,
                 history_pruned |-> n2.history_pruned, mined |-> n2.mined]
        /\ n2.engine = e2 /\ n2.headers = h2 /\ n2.mined = n.mined \cup {b}
    BY <1>1, <2>2
  <2>7. /\ Known(n2) = Known(n) \cup {b}
        /\ h2[b] = block.header /\ \A x \in Known(n) : h2[x] = n.headers[x]
    BY <2>1, <2>6 DEF Known, Insert, h2
  <2>8. /\ Blocks(e2) = Blocks(n.engine) \cup {b} /\ e2.genesis = Genesis
        /\ e2.parents[b] = ps /\ \A x \in Blocks(n.engine) : e2.parents[x] = n.engine.parents[x]
    BY <1>1, <2>4 DEF Added
  <2>9. Genesis \in Known(n)
    BY <1>1, HonestFacts
  <2>10. NetOK(n2)
    <3>1. \A x \in Known(n2) \ {Genesis} : n2.headers[x].parents = n2.engine.parents[x]
      BY <1>1, <2>6, <2>7, <2>8
    <3>2. n2.headers[Genesis].parents = {}
      BY <1>1, <2>6, <2>7, <2>9
    <3>3. Known(n2) \subseteq n2.mined /\ n2.mined \subseteq Hash
      BY <1>1, <2>6, <2>7
    <3>4. Known(n2) = Blocks(n2.engine) /\ n2.engine.genesis = Genesis
      BY <1>1, <2>6, <2>7, <2>8
    <3> QED
      BY <2>3, <2>5, <2>6, <3>1, <3>2, <3>3, <3>4 DEF NetOK
  <2> QED
    BY <2>1, <2>4, <2>6, <2>7, <2>10, <1>1 DEF h2, Grown
<1> QED
  BY <1>2, <1>3

(* A chain that is linked stays so when the network grows by a block the   *)
(* chain does not know, or by none.                                        *)
LEMMA LinkedGrows ==
    ASSUME NEW c, ChainOK(c), NEW n, NetOK(n), Linked(c, n),
           NEW n2, NEW block, block.id \notin Known(c), Grown(n, n2, block)
    PROVE  Linked(c, n2)
<1>1. CASE n2.engine = n.engine /\ n2.headers = n.headers
  BY <1>1 DEF Linked, Known, Origin, Grown
<1> DEFINE b == block.id
           h == block.header
           ps == block.header.parents
<1>2. ASSUME n2.headers = Insert(n.headers, b, h), Known(n2) = Known(n) \cup {b},
             Added(n.engine, b, ps, n2.engine)
      PROVE  Linked(c, n2)
  <2>1. \A x \in Known(n) : x # b => n2.headers[x] = n.headers[x]
    BY <1>2 DEF Known, Insert
  <2>2. Known(n) = Blocks(n.engine) /\ \A x \in Known(n) : n2.engine.past[x] = n.engine.past[x]
    BY <1>2 DEF NetOK, Added
  <2>3. Origin(c) \in Known(c)
    BY HonestFacts DEF ChainOK, Origin
  <2>4. n.mined \subseteq n2.mined
    BY DEF Grown
  <2> HIDE DEF b
  <2>5. b \notin Known(c)
    BY DEF b
  <2> QED
    BY <1>2, <2>1, <2>2, <2>3, <2>4, <2>5 DEF Linked
<1> QED
  BY <1>1, <1>2 DEF Grown

(* A block of the network, or a new one, joins the chain.                  *)
LEMMA LinkedAdds ==
    ASSUME NEW c, ChainOK(c), NEW n, NetOK(n), Linked(c, n),
           NEW b, b \notin Known(c), b \in n.mined,
           NEW h, NEW ps, ps = h.parents, ps # {}, ps \subseteq Known(c),
           b \in Known(n) => n.headers[b] = h,
           NEW c2, ChainOK(c2), Origin(c2) = Origin(c), Known(c2) = Known(c) \cup {b},
           c2.headers = Insert(c.headers, b, h),
           Added(c.engine, b, ps, c2.engine)
    PROVE  Linked(c2, n)
<1> DEFINE o == Origin(c)
<1>1. /\ o \in Known(c) /\ Known(c) = Blocks(c.engine)
      /\ c2.headers[b] = h /\ \A x \in Known(c) : c2.headers[x] = c.headers[x]
  BY HonestFacts DEF ChainOK, Origin, Insert, Known
<1>2. /\ \A x \in Known(c) : c2.engine.past[x] = c.engine.past[x]
      /\ c2.engine.past[b] = ps \cup UNION {c.engine.past[q] : q \in ps}
  BY <1>1 DEF Added
<1>3. /\ Known(c) \subseteq n.mined
      /\ c.headers[o].parents \subseteq n.mined
      /\ \A x \in Known(c) \cap Known(n) :
           /\ o \in Known(n)
           /\ c.headers[x] = n.headers[x]
           /\ n.engine.past[x] = c.engine.past[x] \cup n.engine.past[o]
      /\ o \in Known(n) => Known(c) \cap n.engine.past[o] = {}
  BY DEF Linked
<1> HIDE DEF o
<1>4. ASSUME b \in Known(n)
      PROVE  /\ o \in Known(n) /\ c2.headers[b] = n.headers[b]
             /\ n.engine.past[b] = c2.engine.past[b] \cup n.engine.past[o]
             /\ b \notin n.engine.past[o]
  <2>1. /\ ps \subseteq Known(n) /\ ps \subseteq n.engine.past[b]
        /\ n.engine.past[b] = ps \cup UNION {n.engine.past[q] : q \in ps}
    BY <1>4, NetFacts DEF PastOf
  <2>2. \A q \in ps : q \in Known(c) \cap Known(n)
    BY <2>1
  <2>3. o \in Known(n)
    BY <1>3, <2>2
  <2>4. \A q \in ps : n.engine.past[q] = c.engine.past[q] \cup n.engine.past[o]
    BY <1>3, <2>2
  <2>5. n.engine.past[b] = c2.engine.past[b] \cup n.engine.past[o]
    BY <1>2, <2>1, <2>4
  <2>6. b \notin n.engine.past[o]
    <3> SUFFICES ASSUME b \in n.engine.past[o] PROVE FALSE
      OBVIOUS
    <3>1. PICK q \in ps : TRUE
      OBVIOUS
    <3>2. n.engine.past[b] \subseteq n.engine.past[o]
      BY <2>3, NetFacts
    <3>3. q \in n.engine.past[o] /\ q \in Known(c)
      BY <2>1, <3>2
    <3> QED
      BY <1>3, <2>3, <3>3
  <2> QED
    BY <1>1, <1>4, <2>3, <2>5, <2>6
<1>5. Origin(c2) = o /\ c2.headers[o].parents \subseteq n.mined /\ Known(c2) \subseteq n.mined
  BY <1>1, <1>3 DEF o
<1>6. ASSUME NEW x \in Known(c2) \cap Known(n)
      PROVE  /\ o \in Known(n)
             /\ c2.headers[x] = n.headers[x]
             /\ n.engine.past[x] = c2.engine.past[x] \cup n.engine.past[o]
  <2>1. CASE x = b
    BY <1>4, <1>6, <2>1
  <2>2. CASE x \in Known(c)
    BY <1>1, <1>2, <1>3, <1>6, <2>2
  <2> QED
    BY <1>6, <2>1, <2>2
<1>7. o \in Known(n) => Known(c2) \cap n.engine.past[o] = {}
  <2>1. b \in n.engine.past[o] /\ o \in Known(n) => b \in Known(n)
    BY NetFacts
  <2> QED
    BY <1>3, <1>4, <2>1
<1> QED
  BY <1>5, <1>6, <1>7 DEF Linked

----------------------------------------------------------------------------
(* The steps of the node.                                                  *)

(* A block of the network that accept takes.                               *)
LEMMA ReceiveKeeps ==
    ASSUME NEW c, ChainInv(c), ~c.poisoned, NEW n, NetOK(n), Linked(c, n),
           NEW b \in Known(n), NEW block,
           block.id = b, block.header = n.headers[b], block.txs,
           AcceptResult(c, block) = "ok",
           NEW c2, c2 = AppendAndApply(c, block)
    PROVE  /\ ChainOK(c2) /\ PastComplete(c2.engine) /\ ReplayOK(c2) /\ Linked(c2, n)
           /\ b \notin Known(c) /\ n.headers[b].parents # {} /\ n.headers[b].parents \subseteq Known(c)
           /\ SameBut(c, c2, {"engine", "headers", "block_txs", "tips", "log"})
           /\ Appended(c, c2, block)
           /\ Added(c.engine, b, n.headers[b].parents, c2.engine)
<1> DEFINE ps == n.headers[b].parents
           o == Origin(c)
<1>1. block.id = b /\ block.header = n.headers[b] /\ block.txs
  OBVIOUS
<1>2. b \notin Known(c) /\ ps # {} /\ ps \subseteq Known(c)
  BY <1>1, AcceptedIs
<1>3. /\ b \in Hash /\ ps \subseteq n.engine.past[b] /\ n.engine.past[b] \subseteq Known(n)
      /\ IsAntichain(n.engine, ps) /\ b # Genesis /\ b \in n.mined
  BY <1>2, NetFacts DEF NetOK
<1>4. /\ \A x \in Known(c) \cap Known(n) :
           /\ o \in Known(n)
           /\ c.headers[x] = n.headers[x]
           /\ n.engine.past[x] = c.engine.past[x] \cup n.engine.past[o]
      /\ o \in Known(n) => Known(c) \cap n.engine.past[o] = {}
      /\ o \in Known(c)
  BY HonestFacts DEF Linked, ChainInv, ChainOK, Origin
<1>5. IsAntichain(c.engine, ps)
  BY <1>2, <1>3, <1>4 DEF IsAntichain
<1>6. b \notin c.headers[o].parents
  <2> SUFFICES ASSUME b \in c.headers[o].parents PROVE FALSE
    OBVIOUS
  <2>1. PICK q \in ps : TRUE
    BY <1>2
  <2>2. q \in Known(c) \cap Known(n)
    BY <1>2, <1>3, <2>1
  <2>3. o \in Known(n) /\ c.headers[o] = n.headers[o]
    BY <1>4, <2>2
  <2>4. b \in n.engine.past[o]
    BY <2>3, NetFacts
  <2>5. q \in n.engine.past[o]
    BY <1>3, <2>1, <2>3, <2>4, NetFacts
  <2> QED
    BY <1>4, <2>2, <2>3, <2>5
<1> HIDE DEF ps, o
<1>7. /\ ChainOK(c) /\ ReplayOK(c) /\ PastComplete(c.engine) /\ Honest(c.engine)
      /\ Known(c) = Blocks(c.engine)
  BY DEF ChainInv, ChainOK
<1>8. /\ ChainOK(c2) /\ ReplayOK(c2)
      /\ SameBut(c, c2, {"engine", "headers", "block_txs", "tips", "log"})
      /\ Appended(c, c2, block)
      /\ Added(c.engine, b, ps, c2.engine)
  <2>1. b \in Hash \ Known(c) /\ ps = block.header.parents /\ ps \in SUBSET Known(c)
        /\ b \notin c.headers[Origin(c)].parents
    BY <1>1, <1>2, <1>3, <1>6 DEF ps, o
  <2> QED
    <3>1. /\ ChainOK(c) /\ ~c.poisoned /\ ReplayOK(c) /\ b = block.id
          /\ ps # {} /\ IsAntichain(c.engine, ps)
      BY <1>1, <1>2, <1>5, <1>7
    <3> QED
      BY <2>1, <3>1, AppendKeeps
<1>9. PastComplete(c2.engine)
  BY <1>2, <1>7, <1>8, AddKeepsPast
<1>10. Linked(c2, n)
  <2> DEFINE h == n.headers[b]
  <2>1. ps = h.parents /\ c2.headers = Insert(c.headers, b, h) /\ (b \in Known(n) => n.headers[b] = h)
        /\ Known(c2) = Known(c) \cup {b} /\ Origin(c2) = Origin(c)
    BY <1>1, <1>8 DEF ps, Appended
  <2> HIDE DEF h
  <2> QED
    BY <1>2, <1>3, <1>7, <1>8, <2>1, LinkedAdds
<1> QED
  BY <1>1, <1>2, <1>8, <1>9, <1>10 DEF ps

(* A list of distinct elements is as long as the set of them is large.     *)
LEMMA DistinctCounts ==
    ASSUME NEW T, NEW s \in Seq(T), Distinct(s)
    PROVE  IsFiniteSet(ToSet(s)) /\ Cardinality(ToSet(s)) = Len(s)
<1> DEFINE n == Len(s)
           S == ToSet(s)
<1>1. n \in Nat /\ DOMAIN s = 1..n /\ S = {s[i] : i \in 1..n}
  BY DEF ToSet
<1>2. s \in [1..n -> S]
  <2>1. s = [i \in 1..n |-> s[i]]
    OBVIOUS
  <2>2. \A i \in 1..n : s[i] \in S
    BY <1>1
  <2> HIDE DEF n, S
  <2> QED
    BY <2>1, <2>2
<1>3. IsFiniteSet(1..n) /\ Cardinality(1..n) = n
  BY <1>1, FS_Interval
<1> HIDE DEF n, S
<1>4. s \in Surjection(1..n, S) /\ s \in Injection(1..n, S)
  BY <1>1, <1>2 DEF Surjection, Injection, IsInjective, Distinct
<1>5. IsFiniteSet(S) /\ (Cardinality(S) = n <=> s \in Injection(1..n, S))
  BY <1>3, <1>4, FS_Surjection
<1> QED
  BY <1>4, <1>5 DEF n, S

(* Without one element, a list of distinct elements is one shorter.        *)
LEMMA WithoutOne ==
    ASSUME NEW T, NEW s \in Seq(T), Distinct(s), NEW x
    PROVE  Len(Without({x}, s)) >= Len(s) - 1
<1> DEFINE w == Without({x}, s)
           S == ToSet(s)
<1>1. w \in Seq(T) /\ ToSet(w) = S \ {x} /\ Distinct(w)
  BY WithoutFacts
<1>2. IsFiniteSet(S) /\ Cardinality(S) = Len(s)
  BY DistinctCounts
<1>3. IsFiniteSet(ToSet(w)) /\ Cardinality(ToSet(w)) = Len(w)
  <2> HIDE DEF w, S
  <2> QED
    BY <1>1, DistinctCounts
<1>4. Len(s) \in Nat /\ Len(w) \in Nat
  <2> HIDE DEF w
  <2> QED
    BY <1>1
<1> HIDE DEF w, S
<1>5. Cardinality(S \ {x}) = Cardinality(S) \/ Cardinality(S \ {x}) = Cardinality(S) - 1
  <2>1. CASE x \in S
    BY <1>2, <2>1, FS_RemoveElement
  <2>2. CASE x \notin S
    <3>1. S \ {x} = S
      BY <2>2
    <3> QED
      BY <3>1
  <2> QED
    BY <2>1, <2>2
<1>6. Len(w) >= Len(s) - 1
  BY <1>1, <1>2, <1>3, <1>4, <1>5
<1> QED
  BY <1>6 DEF w

(* build_block_at references tips, hence an antichain.                     *)
LEMMA MiningParentsFacts ==
    ASSUME NEW c, ChainOK(c), PastComplete(c.engine), NEW ps, ps = MiningParents(c)
    PROVE  /\ ps # {} /\ ps \subseteq Tips(c) /\ ps \subseteq Known(c)
           /\ c.engine.tip \in Known(c) /\ c.engine.tip \in ps
           /\ IsAntichain(c.engine, ps)
<1>1. /\ Honest(c.engine) /\ PastComplete(c.engine) /\ Known(c) = Blocks(c.engine)
      /\ c.tips \in Seq(Known(c)) /\ ToSet(c.tips) = Tips(c) /\ Distinct(c.tips)
      /\ \A b \in Known(c) \ {Origin(c)} : c.headers[b].parents = c.engine.parents[b]
      /\ c.headers[Origin(c)].parents \cap Known(c) = {}
      /\ Origin(c) = c.engine.genesis
  BY DEF ChainOK, TipsOK, Origin
<1>2. c.engine.tip \in Tips(c)
  <2>1. c.engine.tip \in Known(c) /\ \A b \in Known(c) : c.engine.tip \notin c.engine.past[b]
    BY <1>1, HonestFacts, TipIsLast
  <2>2. \A b \in Known(c) : c.engine.tip \notin c.headers[b].parents
    <3>1. \A b \in Known(c) \ {Origin(c)} : c.engine.parents[b] \subseteq c.engine.past[b]
      BY <1>1, HonestFacts
    <3> QED
      BY <1>1, <2>1, <3>1
  <2> QED
    BY <2>1, <2>2 DEF Tips
<1>3. ps # {} /\ ps \subseteq Tips(c) /\ c.engine.tip \in ps
  <2>1. CASE Len(c.tips) <= MaxParents
    BY <1>1, <1>2, <2>1 DEF MiningParents
  <2>2. CASE ~(Len(c.tips) <= MaxParents)
    <3> DEFINE others == Without({c.engine.tip}, c.tips)
    <3>1. others \in Seq(Known(c)) /\ ToSet(others) = Tips(c) \ {c.engine.tip}
      BY <1>1, WithoutFacts
    <3>2. Cardinality({c.engine.tip}) = 1
      BY FS_Singleton
    <3>3. MaxParents - 1 <= Len(others)
      <4>1. Len(others) >= Len(c.tips) - 1
        BY <1>1, WithoutOne
      <4>2. Len(others) \in Nat /\ Len(c.tips) \in Nat /\ MaxParents \in Nat
        BY <1>1, <3>1, ChainAssumption
      <4> HIDE DEF others
      <4> QED
        BY <2>2, <4>1, <4>2
    <3>4. MaxParents - 1 \in Nat
      BY ChainAssumption
    <3> HIDE DEF others
    <3>5. ToSet(Upto(others, MaxParents - 1)) \subseteq ToSet(others)
      <4>1. Len(others) \in Nat /\ DOMAIN others = 1..Len(others)
        BY <3>1
      <4>2. Upto(others, MaxParents - 1) = [i \in 1..(MaxParents - 1) |-> others[i]]
        BY <3>1, <3>3, <3>4 DEF Upto
      <4>3. \A i \in 1..(MaxParents - 1) : i \in DOMAIN others
        BY <3>3, <3>4, <4>1
      <4> QED
        BY <4>2, <4>3 DEF ToSet
    <3>6. ps = {c.engine.tip} \cup ToSet(Upto(others, MaxParents - 1))
      BY <2>2 DEF MiningParents, others
    <3> QED
      BY <1>2, <3>1, <3>5, <3>6
  <2> QED
    BY <2>1, <2>2
<1>4. Tips(c) \subseteq Known(c)
  BY DEF Tips
<1>5. ASSUME NEW x \in ps, NEW y \in ps, x \in c.engine.past[y] PROVE FALSE
  <2>1. x \in Tips(c) /\ y \in Blocks(c.engine)
    BY <1>1, <1>3, <1>4
  <2>2. PICK d \in c.engine.past[y] \cup {y} : d # c.engine.genesis /\ x \in c.engine.parents[d]
    BY <1>1, <1>5, <2>1, ChildExists
  <2>3. d \in Known(c)
    BY <1>1, <2>1, <2>2, HonestFacts
  <2>4. x \in c.headers[d].parents
    BY <1>1, <2>2, <2>3
  <2> QED
    BY <2>1, <2>3, <2>4 DEF Tips
<1> QED
  BY <1>1, <1>2, <1>3, <1>4, <1>5 DEF IsAntichain

(* A block the node mines, and what the others make of it.                 *)
LEMMA MineKeeps ==
    ASSUME NEW c, ChainInv(c), ~c.poisoned, NEW n, NetOK(n), Linked(c, n),
           NEW b \in Hash \ n.mined, NEW block, block = BuildBlock(c, b),
           NEW c2, c2 = MineBlock(c, b), NEW n2, n2 = NetworkAccept(n, block)
    PROVE  /\ ChainOK(c2) /\ PastComplete(c2.engine) /\ ReplayOK(c2)
           /\ NetOK(n2) /\ Linked(c2, n2) /\ Grown(n, n2, block)
           /\ block.id = b /\ block.header = HeaderOn(c, MiningParents(c), c.engine.tip) /\ block.txs
           /\ b \notin Known(c)
           /\ SameBut(c, c2, {"engine", "headers", "block_txs", "tips", "log"})
           /\ Appended(c, c2, block)
           /\ Added(c.engine, b, MiningParents(c), c2.engine)
<1> DEFINE ps == MiningParents(c)
           h == HeaderOn(c, MiningParents(c), c.engine.tip)
           o == Origin(c)
<1>1. block.id = b /\ block.header = h /\ block.txs /\ h.parents = ps
  BY DEF BuildBlock, HeaderOn
<1>2. c2 = AppendAndApply(c, block)
  BY DEF MineBlock
<1>3. /\ ChainOK(c) /\ PastComplete(c.engine) /\ ReplayOK(c) /\ Honest(c.engine)
      /\ Known(c) = Blocks(c.engine)
  BY DEF ChainInv, ChainOK
<1>4. ps # {} /\ ps \subseteq Known(c) /\ IsAntichain(c.engine, ps)
  BY <1>3, MiningParentsFacts
<1>5. /\ b \notin Known(c) /\ b \notin c.headers[o].parents /\ b \notin Known(n)
      /\ \A x \in Known(c) \cap Known(n) :
           /\ o \in Known(n)
           /\ n.engine.past[x] = c.engine.past[x] \cup n.engine.past[o]
      /\ o \in Known(n) => Known(c) \cap n.engine.past[o] = {}
  BY DEF Linked, NetOK
<1> HIDE DEF ps, h, o
<1>6. /\ ChainOK(c2) /\ ReplayOK(c2)
      /\ SameBut(c, c2, {"engine", "headers", "block_txs", "tips", "log"})
      /\ Appended(c, c2, block)
      /\ Added(c.engine, b, ps, c2.engine)
  <2>1. b \in Hash \ Known(c) /\ ps = block.header.parents /\ ps \in SUBSET Known(c)
        /\ b \notin c.headers[Origin(c)].parents
    BY <1>1, <1>4, <1>5 DEF o
  <2>2. /\ ChainOK(c) /\ ~c.poisoned /\ ReplayOK(c) /\ b = block.id
        /\ ps # {} /\ IsAntichain(c.engine, ps) /\ c2 = AppendAndApply(c, block)
    BY <1>1, <1>2, <1>3, <1>4
  <2> QED
    BY <2>1, <2>2, AppendKeeps
<1>7. PastComplete(c2.engine)
  BY <1>3, <1>4, <1>6, AddKeepsPast
<1>8. ps \subseteq Known(n) => IsAntichain(n.engine, ps)
  BY <1>4, <1>5 DEF IsAntichain
<1>9. NetOK(n2) /\ Grown(n, n2, block)
  <2>1. b = block.id /\ b \in Hash \ n.mined /\ ps = block.header.parents
        /\ (ps # {} /\ ps \subseteq Known(n) => IsAntichain(n.engine, ps))
        /\ n2 = NetworkAccept(n, block)
    BY <1>1, <1>8
  <2> QED
    BY <2>1, NetAccepts
<1>10. Linked(c, n2)
  BY <1>1, <1>3, <1>5, <1>9, LinkedGrows
<1>11. b \in n2.mined /\ (b \in Known(n2) => n2.headers[b] = h)
  <2>1. n2.mined = n.mined \cup {b}
    BY <1>1, <1>9 DEF Grown
  <2>2. CASE n2.headers = n.headers
    BY <1>5, <2>1, <2>2 DEF Known
  <2>3. CASE n2.headers = Insert(n.headers, b, h)
    BY <2>1, <2>3 DEF Insert
  <2> QED
    BY <1>1, <1>9, <2>2, <2>3 DEF Grown
<1>12. Linked(c2, n2)
  <2>1. Known(c2) = Known(c) \cup {b} /\ Origin(c2) = Origin(c) /\ c2.headers = Insert(c.headers, b, h)
    BY <1>1, <1>6 DEF Appended
  <2>2. ps = h.parents
    BY <1>1
  <2> QED
    BY <1>3, <1>4, <1>5, <1>6, <1>9, <1>10, <1>11, <2>1, <2>2, LinkedAdds
<1> QED
  BY <1>1, <1>5, <1>6, <1>7, <1>9, <1>12 DEF ps, h

(* A prune leaves the chain where it lies in the network.                  *)
LEMMA PruneLinked ==
    ASSUME NEW c, ChainInv(c), ~c.poisoned, PruneIndex(c) # 0, CleanCut(c),
           NEW n, NetOK(n), Linked(c, n), NEW p, p = PointOf(c),
           NEW c2, PrunedAt(c, p, c2)
    PROVE  Linked(c2, n)
<1> DEFINE e == c.engine
           k == Kept(c)
           o == Origin(c)
<1>1. /\ ChainOK(c) /\ PastComplete(e) /\ Honest(e) /\ Known(c) = Blocks(e)
      /\ \A b \in Known(c) \ {o} : c.headers[b].parents = e.parents[b]
      /\ o = e.genesis
  BY DEF ChainInv, ChainOK, Origin
<1>2. /\ k \subseteq Known(c) /\ p \in k /\ p # o
      /\ k \cap e.past[p] = {}
      /\ \A b \in k \ {p} : p \in e.past[b] /\ e.past[b] \subseteq k \cup e.past[p]
  <2>1. /\ k \subseteq Blocks(e) /\ p \in k /\ p # e.genesis
        /\ k = (e.past[e.tip] \cup {e.tip}) \ e.past[p]
        /\ \A b \in k \ {p} : p \in e.past[b]
        /\ \A b \in k \ {p} : e.past[b] \subseteq k \cup e.past[p]
    BY <1>1, KeptFacts
  <2> QED
    BY <1>1, <2>1
<1>3. /\ Known(c) \subseteq n.mined
      /\ \A x \in Known(c) \cap Known(n) :
           /\ o \in Known(n)
           /\ c.headers[x] = n.headers[x]
           /\ n.engine.past[x] = e.past[x] \cup n.engine.past[o]
      /\ o \in Known(n) => Known(c) \cap n.engine.past[o] = {}
  BY DEF Linked
<1>4. /\ \A x \in k : c2.headers[x] = c.headers[x] /\ c2.engine.past[x] = e.past[x] \cap k
      /\ Known(c2) = k /\ Origin(c2) = p
  BY DEF Restrict, PrunedAt
<1>5. /\ p \notin e.past[p] /\ e.past[p] \subseteq Known(c)
      /\ \A b \in k : \A a \in e.past[b] : e.past[a] \subseteq e.past[b]
      /\ c.headers[p].parents \subseteq Known(c)
  <2>1. /\ p \in Blocks(e) /\ p # e.genesis
        /\ k \subseteq Blocks(e)
    BY <1>1, <1>2
  <2>2. /\ p \notin e.past[p] /\ e.past[p] \subseteq Blocks(e) /\ e.parents[p] \subseteq e.past[p]
        /\ \A b \in k : \A a \in e.past[b] : e.past[a] \subseteq e.past[b]
    BY <1>1, <2>1, HonestFacts
  <2> QED
    BY <1>1, <1>2, <2>2
<1> HIDE DEF e, k, o
<1>6. ASSUME NEW x \in k \cap Known(n)
      PROVE  /\ p \in Known(n)
             /\ c2.headers[x] = n.headers[x]
             /\ n.engine.past[x] = c2.engine.past[x] \cup n.engine.past[p]
  <2>1. /\ c2.headers[x] = n.headers[x] /\ n.engine.past[x] = e.past[x] \cup n.engine.past[o]
        /\ x \in Known(c)
    BY <1>2, <1>3, <1>4
  <2>2. p \in Known(n)
    <3>1. x = p \/ p \in n.engine.past[x]
      BY <1>2, <2>1
    <3> QED
      BY <3>1, NetFacts
  <2>3. n.engine.past[p] = e.past[p] \cup n.engine.past[o]
    BY <1>2, <1>3, <2>2
  <2>4. c2.engine.past[x] = e.past[x] \cap k
    BY <1>4
  <2>5. CASE x = p
    <3>1. c2.engine.past[x] = {}
      BY <1>2, <2>4, <2>5
    <3> QED
      BY <2>1, <2>2, <2>5, <3>1
  <2>6. CASE x # p
    <3>1. e.past[p] \subseteq e.past[x] /\ e.past[x] \subseteq k \cup e.past[p]
      BY <1>2, <1>5, <2>6
    <3>2. e.past[x] = (e.past[x] \cap k) \cup e.past[p]
      BY <3>1
    <3> QED
      BY <2>1, <2>2, <2>3, <2>4, <3>2
  <2> QED
    BY <2>5, <2>6
<1>7. p \in Known(n) => k \cap n.engine.past[p] = {}
  BY <1>2, <1>3
<1>8. c2.headers[p].parents \subseteq n.mined /\ k \subseteq n.mined
  BY <1>2, <1>3, <1>4, <1>5
<1> QED
  BY <1>4, <1>6, <1>7, <1>8 DEF Linked

----------------------------------------------------------------------------
(* The invariant of the node, while no prune has kept a side block.        *)

(* The chain and the network together.                                     *)
NodeOK(c, n) == NetOK(n) /\ ChainInv(c) /\ Linked(c, n)

(* A prune that keeps a side block gives it a parent its header does not   *)
(* name, and what follows no longer agrees with the network.               *)
NodeInv == "side block" \notin events => NodeOK(chain, network)

(* A node that has just been created shares the genesis with the network.  *)
LEMMA NodeStarts == Init => NodeInv
<1> SUFFICES ASSUME Init PROVE NodeOK(chain, network)
  BY DEF NodeInv
<1> DEFINE c == NewChain
           n == network
<1>1. chain = c /\ n = [engine |-> c.engine, headers |-> c.headers,
                        history_pruned |-> FALSE, mined |-> {Genesis}]
  BY DEF Init
<1>2. ChainOK(c)
  BY NewChainOK
<1>3. /\ c.engine = NewEngine(Genesis) /\ c.base_accounts = NONE /\ c.state = NONE
      /\ c.executed = <<>> /\ c.checkpoint = NONE
      /\ c.headers = [x \in {Genesis} |-> [parents |-> {}, target |-> <<>>, interlink |-> <<>>]]
  BY DEF NewChain
<1>4. ReplayOK(c)
  BY NewReplays
<1> HIDE DEF c
<1>5. AccountsOK(c)
  BY <1>3 DEF AccountsOK
<1>6. /\ Blocks(c.engine) = {Genesis} /\ c.engine.genesis = Genesis /\ Honest(c.engine)
      /\ Known(c) = {Genesis} /\ Origin(c) = Genesis /\ c.headers[Genesis].parents = {}
      /\ c.engine.past[Genesis] = {}
  <2>1. /\ Blocks(c.engine) = {Genesis} /\ c.engine.genesis = Genesis
        /\ c.engine.past[Genesis] = {} /\ Origin(c) = Genesis
    BY <1>3 DEF NewEngine, Blocks, Origin
  <2>2. Known(c) = {Genesis} /\ c.headers[Genesis].parents = {}
    BY <1>3 DEF Known
  <2>3. Honest(c.engine)
    BY <1>3, NewHonest, ChainAssumption
  <2> QED
    BY <2>1, <2>2, <2>3
<1>7. PastComplete(c.engine)
  BY <1>6 DEF PastComplete
<1> HIDE DEF n
<1>8. /\ n = [engine |-> n.engine, headers |-> n.headers,
              history_pruned |-> n.history_pruned, mined |-> n.mined]
      /\ n.engine = c.engine /\ n.headers = c.headers /\ n.mined = {Genesis}
  BY <1>1
<1>9. Known(n) = {Genesis}
  BY <1>6, <1>8 DEF Known
<1>10. NetOK(n)
  BY <1>6, <1>7, <1>8, <1>9, ChainAssumption DEF NetOK
<1>11. Linked(c, n)
  BY <1>6, <1>8, <1>9 DEF Linked
<1> QED
  BY <1>1, <1>2, <1>4, <1>5, <1>7, <1>10, <1>11 DEF NodeOK, ChainInv, n

(* What leaves the durable part of the chain leaves its place.             *)
LEMMA DurableLinked ==
    ASSUME NEW c, NEW n, Linked(c, n), NEW c2, Durable(c2) = Durable(c)
    PROVE  Linked(c2, n)
<1>1. c2.engine = c.engine /\ c2.headers = c.headers /\ Known(c2) = Known(c) /\ Origin(c2) = Origin(c)
  BY DurableIs
<1> QED
  BY <1>1 DEF Linked

(* Account sets are left alone by what writes none of their fields.        *)
LEMMA SameAccounts ==
    ASSUME NEW c, AccountsOK(c), NEW c2,
           c2.base_accounts = c.base_accounts, c2.state = c.state,
           c2.executed = c.executed, c2.checkpoint = c.checkpoint
    PROVE  AccountsOK(c2)
BY DEF AccountsOK

(* A block mined elsewhere: the chain is where it was, in a larger         *)
(* network.                                                                *)
LEMMA PeerMinesKeeps ==
    ASSUME NodeOK(chain, network), NEW b \in Hash, NEW ps \in SUBSET Known(network), ps # {},
           PeerMines(b, ps)
    PROVE  NodeOK(chain', network')
<1> DEFINE n == network
           block == [id     |-> b,
                     header |-> HeaderOn(n, ps, FindSelectedParent(n.engine, ps)),
                     txs    |-> TRUE]
<1>1. b \in Hash \ n.mined /\ IsAntichain(n.engine, ps)
      /\ network' = NetworkAccept(n, block) /\ chain' = chain
  BY DEF PeerMines, Fresh
<1>2. block.id = b /\ block.header.parents = ps
  BY DEF HeaderOn
<1> HIDE DEF n, block
<1>3. NetOK(n) /\ ChainInv(chain) /\ Linked(chain, n) /\ ChainOK(chain)
  BY DEF NodeOK, ChainInv, n
<1>4. NetOK(network') /\ Grown(n, network', block)
  BY <1>1, <1>2, <1>3, NetAccepts
<1>5. b \notin Known(chain)
  BY <1>1, <1>3 DEF Linked
<1>6. Linked(chain, network')
  BY <1>2, <1>3, <1>4, <1>5, LinkedGrows
<1> QED
  BY <1>1, <1>3, <1>4, <1>6 DEF NodeOK

(* A block mined here, appended to the log, applied and broadcast.         *)
LEMMA MineNode ==
    ASSUME NodeOK(chain, network), NEW b \in Hash, Mine(b)
    PROVE  NodeOK(chain', network')
<1> DEFINE block == BuildBlock(chain, b)
<1>1. /\ b \in Hash \ network.mined /\ ~chain.poisoned
      /\ chain' = MineBlock(chain, b) /\ network' = NetworkAccept(network, block)
  BY DEF Mine, Fresh, Alive
<1>2. NetOK(network) /\ ChainInv(chain) /\ Linked(chain, network)
  BY DEF NodeOK
<1> HIDE DEF block
<1>3. block = BuildBlock(chain, b)
  BY DEF block
<1>4. /\ ChainOK(chain') /\ PastComplete(chain'.engine) /\ ReplayOK(chain')
      /\ NetOK(network') /\ Linked(chain', network')
      /\ SameBut(chain, chain', {"engine", "headers", "block_txs", "tips", "log"})
  BY <1>1, <1>2, <1>3, MineKeeps
<1>5. AccountsOK(chain')
  BY <1>2, <1>4, SameAccounts DEF SameBut, ChainInv
<1> QED
  BY <1>4, <1>5 DEF NodeOK, ChainInv

(* A block of the network, refused or appended and applied.                *)
LEMMA ReceiveNode ==
    ASSUME NodeOK(chain, network), NEW b \in Known(network), Receive(b)
    PROVE  NodeOK(chain', network')
<1> DEFINE block == NetworkBlock(b)
<1>1. /\ ~chain.poisoned /\ chain' = Accept(chain, block) /\ network' = network
      /\ block.id = b /\ block.header = network.headers[b] /\ block.txs
  BY DEF Receive, Alive, NetworkBlock
<1>2. NetOK(network) /\ ChainInv(chain) /\ Linked(chain, network)
  BY DEF NodeOK
<1> HIDE DEF block
<1>3. CASE AcceptResult(chain, block) # "ok"
  <2>1. chain' = chain
    BY <1>1, <1>3 DEF Accept
  <2> QED
    BY <1>1, <2>1
<1>4. CASE AcceptResult(chain, block) = "ok"
  <2>1. chain' = AppendAndApply(chain, block)
    BY <1>1, <1>4 DEF Accept
  <2>2. /\ ChainOK(chain') /\ PastComplete(chain'.engine) /\ ReplayOK(chain')
        /\ Linked(chain', network)
        /\ SameBut(chain, chain', {"engine", "headers", "block_txs", "tips", "log"})
    BY <1>1, <1>2, <1>4, <2>1, ReceiveKeeps
  <2>3. AccountsOK(chain')
    BY <1>2, <2>2, SameAccounts DEF SameBut, ChainInv
  <2> QED
    BY <1>1, <1>2, <2>2, <2>3 DEF NodeOK, ChainInv
<1> QED
  BY <1>3, <1>4

(* What changes neither the durable part nor the network.                  *)
LEMMA SameNode ==
    ASSUME NEW c, NEW n, NodeOK(c, n), NEW c2,
           SameBut(c, c2, {"block_txs", "state", "executed", "checkpoint", "history_pruned", "poisoned"}),
           AccountsOK(c2)
    PROVE  NodeOK(c2, n)
<1>1. NetOK(n) /\ ChainOK(c) /\ ReplayOK(c) /\ PastComplete(c.engine) /\ Linked(c, n)
  BY DEF NodeOK, ChainInv
<1>2. ChainOK(c2) /\ ReplayOK(c2) /\ Durable(c2) = Durable(c)
  BY <1>1, SameKeeps
<1>3. Linked(c2, n) /\ c2.engine = c.engine
  BY <1>1, <1>2, DurableLinked, DurableIs
<1> QED
  BY <1>1, <1>2, <1>3 DEF NodeOK, ChainInv

(* virtual_state writes caches only.                                       *)
LEMMA QueryNode ==
    ASSUME NodeOK(chain, network), QueryState
    PROVE  NodeOK(chain', network')
<1>1. chain' = VirtualState(chain) /\ network' = network
  BY DEF QueryState
<1>2. IsChain(chain) /\ Honest(chain.engine) /\ AccountsOK(chain)
  BY DEF NodeOK, ChainInv, ChainOK
<1>3. SameBut(chain, chain', {"state", "executed", "checkpoint"})
  BY <1>1, <1>2, VirtualStateIs
<1>4. AccountsOK(chain')
  BY <1>1, <1>2, VirtualTyped
<1>5. SameBut(chain, chain',
        {"block_txs", "state", "executed", "checkpoint", "history_pruned", "poisoned"})
  BY <1>3 DEF SameBut
<1> QED
  BY <1>1, <1>4, <1>5, SameNode

(* prune_finalized_transactions drops bodies and caches, or panics.        *)
LEMMA DropNode ==
    ASSUME NodeOK(chain, network), DropBodies
    PROVE  NodeOK(chain', network')
<1>1. /\ chain' = IF PruneTxsPanics(chain) THEN [chain EXCEPT !.poisoned = TRUE]
                  ELSE PruneFinalizedTransactions(chain)
      /\ network' = network
  BY DEF DropBodies
<1>2. IsChain(chain) /\ AccountsOK(chain)
  BY DEF NodeOK, ChainInv, ChainOK
<1>3. CASE PruneTxsPanics(chain)
  <2>1. chain' = [chain EXCEPT !.poisoned = TRUE]
    BY <1>1, <1>3
  <2>2. SameBut(chain, chain', {"poisoned"})
    BY <1>2, <2>1 DEF SameBut, IsChain
  <2>3. AccountsOK(chain')
    BY <1>2, <2>2, SameAccounts DEF SameBut
  <2>4. SameBut(chain, chain',
          {"block_txs", "state", "executed", "checkpoint", "history_pruned", "poisoned"})
    BY <2>2 DEF SameBut
  <2> QED
    BY <1>1, <2>3, <2>4, SameNode
<1>4. CASE ~PruneTxsPanics(chain)
  <2>1. chain' = PruneFinalizedTransactions(chain)
    BY <1>1, <1>4
  <2>2. SameBut(chain, chain', {"block_txs", "history_pruned", "state", "executed"})
    BY <1>2, <2>1, DropIs
  <2>3. AccountsOK(chain')
    <3>1. chain'.state \in AccountSets \cup {NONE} /\ chain'.executed \in Seq(Hash)
      BY <1>2, <2>1 DEF PruneFinalizedTransactions, AccountsOK, IsChain
    <3> QED
      BY <1>2, <2>2, <3>1 DEF AccountsOK, SameBut
  <2>4. SameBut(chain, chain',
          {"block_txs", "state", "executed", "checkpoint", "history_pruned", "poisoned"})
    BY <2>2 DEF SameBut
  <2> QED
    BY <1>1, <2>3, <2>4, SameNode
<1> QED
  BY <1>3, <1>4

(* Nothing executed is an order of blocks.                                 *)
LEMMA NoneExecuted == <<>> \in Seq(Hash)
OBVIOUS

(* prune re-roots the chain at the pruning point, its log included, when   *)
(* every kept block descends from that point.                              *)
LEMMA PruneNode ==
    ASSUME NodeOK(chain, network), PruneHistory, "side block" \notin events'
    PROVE  NodeOK(chain', network')
<1>1. /\ chain' = Prune(chain) /\ network' = network /\ ~chain.poisoned /\ CleanCut(chain)
  BY DEF PruneHistory, Alive, Event
<1>2. /\ NetOK(network) /\ ChainInv(chain) /\ Linked(chain, network)
      /\ ChainOK(chain) /\ PastComplete(chain.engine) /\ AccountsOK(chain) /\ Honest(chain.engine)
  BY DEF NodeOK, ChainInv, ChainOK
<1>3. CASE PruneIndex(chain) = 0 \/ PruneFails(chain)
  <2>1. chain' = chain
    BY <1>1, <1>3, PruneIs
  <2> QED
    BY <1>1, <2>1
<1>4. CASE PruneIndex(chain) # 0 /\ ~PruneFails(chain)
  <2>1. NewBase(chain) \in AccountSets
    BY <1>2, <1>4, StatesTyped
  <2>2. NewBase(chain) # NONE
    BY <2>1, NoneAssumption
  <2>3. /\ ChainOK(chain') /\ PastComplete(chain'.engine) /\ ReplayOK(chain')
        /\ PrunedAt(chain, PointOf(chain), chain')
    BY <1>1, <1>2, <1>4, <2>2, PruneKeeps
  <2>4. Linked(chain', network)
    BY <1>1, <1>2, <1>4, <2>3, PruneLinked
  <2>5. AccountsOK(chain')
    <3>1. <<>> \in Seq(Hash)
      BY NoneExecuted
    <3> QED
      BY <2>1, <2>3, <3>1 DEF AccountsOK, PrunedAt
  <2> QED
    BY <1>1, <1>2, <2>3, <2>4, <2>5 DEF NodeOK, ChainInv
<1> QED
  BY <1>3, <1>4

(* A restart replays the log into the same blocks, without the caches.     *)
LEMMA RestartNode ==
    ASSUME NodeOK(chain, network), Restart
    PROVE  NodeOK(chain', network')
<1>1. chain' = Open(chain.log) /\ network' = network
  BY DEF Restart
<1>2. NetOK(network) /\ ChainOK(chain) /\ ReplayOK(chain) /\ PastComplete(chain.engine)
      /\ Linked(chain, network) /\ AccountsOK(chain)
  BY DEF NodeOK, ChainInv
<1>3. /\ ChainOK(chain') /\ ReplayOK(chain') /\ Durable(chain') = Durable(chain)
      /\ SameBut(Opened(chain.log), chain', {"log"})
  BY <1>1, <1>2, OpenKeeps
<1>4. Linked(chain', network) /\ PastComplete(chain'.engine)
      /\ chain'.base_accounts = chain.base_accounts
  BY <1>2, <1>3, DurableLinked, DurableIs
<1>5. chain'.state = NONE /\ chain'.executed = <<>> /\ chain'.checkpoint = NONE
  BY <1>2, <1>3 DEF SameBut, ReplayOK
<1>6. AccountsOK(chain')
  BY <1>2, <1>4, <1>5 DEF AccountsOK
<1> QED
  BY <1>1, <1>2, <1>3, <1>4, <1>6 DEF NodeOK, ChainInv

(* Every step, a crash and a restart included, keeps the invariant.        *)
LEMMA NodeSteps == NodeInv /\ [Next]_vars => NodeInv'
<1> SUFFICES ASSUME NodeInv, [Next]_vars, "side block" \notin events'
             PROVE  NodeOK(chain', network')
  BY DEF NodeInv
<1>1. CASE UNCHANGED vars
  BY <1>1 DEF NodeInv, vars
<1>2. ASSUME Next PROVE "side block" \notin events
  BY <1>2 DEF Next, PeerMines, Mine, Receive, QueryState, PruneHistory, DropBodies, Restart, Event
<1>3. ASSUME Next PROVE NodeOK(chain, network)
  BY <1>2, <1>3 DEF NodeInv
<1>4. ASSUME NEW b \in Hash, NEW ps \in (SUBSET Known(network)) \ {{}}, PeerMines(b, ps), Next
      PROVE  NodeOK(chain', network')
  BY <1>3, <1>4, PeerMinesKeeps
<1>5. ASSUME NEW b \in Hash, Mine(b), Next PROVE NodeOK(chain', network')
  BY <1>3, <1>5, MineNode
<1>6. ASSUME NEW b \in Known(network), Receive(b), Next PROVE NodeOK(chain', network')
  BY <1>3, <1>6, ReceiveNode
<1>7. CASE QueryState /\ Next
  BY <1>3, <1>7, QueryNode
<1>8. CASE PruneHistory /\ Next
  BY <1>3, <1>8, PruneNode
<1>9. CASE DropBodies /\ Next
  BY <1>3, <1>9, DropNode
<1>10. CASE Restart /\ Next
  BY <1>3, <1>10, RestartNode
<1> QED
  BY <1>1, <1>4, <1>5, <1>6, <1>7, <1>8, <1>9, <1>10 DEF Next

(* While no prune has kept a block that does not descend from its pruning  *)
(* point: the chain is a part of the network's DAG, closed under the       *)
(* parents from its origin on, its tips and headers agree with its engine, *)
(* and its log replays into it.                                            *)
THEOREM NodeAlways == Spec => []NodeInv
BY NodeStarts, NodeSteps, PTL DEF Spec

(* The tips kept by apply and reset by prune are the childless blocks, for *)
(* any DAG, any order of arrival, any prune and any restart, while no      *)
(* prune has kept a block that does not descend from its pruning point.    *)
THEOREM TipsAlways == Spec => []("side block" \notin events => TipsChildless)
<1>1. NodeInv => ("side block" \notin events => TipsChildless)
  BY DEF NodeInv, NodeOK, ChainInv, ChainOK, TipsOK, TipsChildless
<1> QED
  BY <1>1, NodeAlways, PTL

(* After any step the log replays into the chain in memory, be it a log of *)
(* blocks or a snapshot and the suffix that a prune wrote, while no prune  *)
(* has kept a block that does not descend from its pruning point.          *)
THEOREM ReopenAlways == Spec => []("side block" \notin events => ReopenReproduces)
<1>1. NodeInv => ("side block" \notin events => ReopenReproduces)
  <2> SUFFICES ASSUME NodeInv, "side block" \notin events
               PROVE  Durable(Open(chain.log)) = Durable(chain)
    BY DEF ReopenReproduces
  <2>1. ChainOK(chain) /\ ReplayOK(chain)
    BY DEF NodeInv, NodeOK, ChainInv
  <2> QED
    BY <2>1, OpenKeeps
<1> QED
  BY <1>1, NodeAlways, PTL

----------------------------------------------------------------------------
(* The same order everywhere.                                              *)

(* What the lemmas on mirrors need of an honest engine.                    *)
LEMMA HonestSound == ASSUME NEW e, Honest(e) PROVE Sound(e) /\ FromDag(e)
BY DEF Honest, Sound

(* A prune keeps the data of what it keeps, the work counted anew.         *)
LEMMA PruneMirrors ==
    ASSUME NEW c, ChainOK(c), PastComplete(c.engine), PruneIndex(c) # 0, CleanCut(c),
           NEW p, p = PointOf(c), NEW c2, ChainOK(c2), PrunedAt(c, p, c2)
    PROVE  Mirrors(c2.engine, c.engine, Kept(c))
<1> DEFINE e == c.engine
           d == c2.engine
           k == Kept(c)
<1>1. /\ Honest(e) /\ Honest(d) /\ Blocks(d) = k /\ d.genesis = p
      /\ \A b \in k : d.past[b] = e.past[b] \cap k
      /\ \A b \in k \ {p} : c2.headers[b].parents = d.parents[b]
      /\ \A b \in k : c2.headers[b] = c.headers[b]
      /\ \A b \in Blocks(e) \ {e.genesis} : c.headers[b].parents = e.parents[b]
  BY DEF ChainOK, PrunedAt, Origin, Restrict
<1>2. /\ k \subseteq Blocks(e) /\ p \in k
      /\ k = (e.past[e.tip] \cup {e.tip}) \ e.past[p]
      /\ \A b \in k \ {p} : p \in e.past[b] /\ b # e.genesis /\ e.past[b] \subseteq k \cup e.past[p]
  BY KeptFacts
<1> HIDE DEF e, d, k
<1>3. \A b \in k \ {p} : e.parents[b] = d.parents[b]
  BY <1>1, <1>2
<1>4. ASSUME NEW b \in k PROVE e.past[b] = d.past[b] \cup e.past[p]
  <2>1. CASE b = p
    BY <1>1, <2>1
  <2>2. CASE b # p
    <3>1. e.past[p] \subseteq e.past[b]
      BY <1>1, <1>2, <2>2, HonestFacts
    <3> QED
      BY <1>1, <1>2, <2>2, <3>1
  <2> QED
    BY <2>1, <2>2
<1>5. k \cap e.past[p] = {} /\ \A b \in k : d.past[b] \subseteq k
  BY <1>1, <1>2
<1>6. Above(d, e, k)
  BY <1>1, <1>2, <1>4, <1>5 DEF Above
<1>7. Mirrors(d, e, k)
  BY <1>1, <1>3, <1>6, HonestSound, SameDagMirrors
<1> QED
  BY <1>7 DEF d, e, k

(* The chain and the network have the same data for the blocks of both.    *)
LEMMA NetMirrors ==
    ASSUME NEW c, NEW n, NodeOK(c, n), Origin(c) \in Known(n)
    PROVE  Mirrors(c.engine, n.engine, Known(c) \cap Known(n))
<1> DEFINE d == c.engine
           e == n.engine
           o == Origin(c)
           S == Known(c) \cap Known(n)
<1>1. /\ ChainOK(c) /\ NetOK(n) /\ Linked(c, n)
      /\ Honest(d) /\ Honest(e) /\ Known(c) = Blocks(d) /\ Known(n) = Blocks(e)
      /\ o = d.genesis /\ e.genesis = Genesis
      /\ \A b \in Known(c) \ {o} : c.headers[b].parents = d.parents[b]
      /\ \A b \in Known(n) \ {Genesis} : n.headers[b].parents = e.parents[b]
      /\ \A b \in S : /\ c.headers[b] = n.headers[b]
                      /\ e.past[b] = d.past[b] \cup e.past[o]
      /\ Known(c) \cap e.past[o] = {}
  BY DEF NodeOK, ChainInv, ChainOK, NetOK, Linked, Origin
<1>2. o \in S
  BY <1>1, HonestFacts
<1>3. \A b \in S : d.past[b] \subseteq Known(c) /\ e.past[b] \subseteq Known(n)
  BY <1>1, HonestFacts
<1>4. \A b \in S : b # o => o \in d.past[b]
  BY <1>1, HonestFacts
<1>5. e.past[Genesis] = {}
  BY <1>1, HonestFacts
<1> HIDE DEF d, e, o
<1>6. Above(d, e, S)
  BY <1>1, <1>2, <1>3 DEF Above
<1>7. ASSUME NEW b \in S \ {o} PROVE e.parents[b] = d.parents[b]
  <2>1. b # Genesis
    BY <1>1, <1>4, <1>5
  <2> QED
    BY <1>1, <2>1
<1>8. Mirrors(d, e, S)
  BY <1>1, <1>6, <1>7, HonestSound, SameDagMirrors
<1> QED
  BY <1>8 DEF d, e

(* The orders of mirrors are the same from the first block of one on.      *)
LEMMA MirrorSuffix ==
    ASSUME NEW d, NEW e, Honest(d), Honest(e), NEW S, Mirrors(d, e, S), NEW b \in S
    PROVE  IsSuffix(OrderUpTo(d, b), OrderUpTo(e, b))
<1>1. Sound(d) /\ Sound(e)
  BY HonestSound
<1>2. PICK u \in Seq(Hash) : Continues(d, e, S, u)
  BY <1>1, MirrorOrder
<1>3. OrderUpTo(d, b) \in Seq(Hash)
  <2>1. b \in Blocks(d)
    BY DEF Mirrors, Above
  <2>2. Lists(OrderUpTo(d, b), d.past[b] \cup {b}, d.past)
    BY <2>1, OrderLists DEF Honest
  <2>3. d.past[b] \cup {b} \subseteq Hash
    BY <2>1, HonestFacts
  <2> QED
    BY <2>2, <2>3 DEF Lists
<1>4. OrderUpTo(e, b) = u \o OrderUpTo(d, b)
  BY <1>2 DEF Continues
<1> QED
  BY <1>2, <1>3, <1>4, SuffixOfJoined

(* A prune whose kept blocks descend from the pruning point keeps the      *)
(* order from that point on.                                               *)
LEMMA PruneOrder ==
    ASSUME NEW c, ChainInv(c), ~c.poisoned, CleanCut(c), NEW c2, c2 = Prune(c)
    PROVE  IsSuffix(TotalOrder(c2.engine), TotalOrder(c.engine))
<1> DEFINE d == c2.engine
           e == c.engine
<1>1. ChainOK(c) /\ PastComplete(e) /\ AccountsOK(c) /\ Honest(e)
  BY DEF ChainInv, ChainOK
<1>2. TotalOrder(d) = OrderUpTo(d, d.tip) /\ TotalOrder(e) = OrderUpTo(e, e.tip)
  BY DEF TotalOrder
<1>3. e.tip \in Blocks(e)
  BY <1>1, HonestFacts
<1>4. CASE PruneIndex(c) = 0 \/ PruneFails(c)
  <2>1. c2 = c
    BY <1>1, <1>4, PruneIs
  <2>2. Mirrors(e, e, Blocks(e))
    BY <1>1, HonestSound, GrownMirrors
  <2> HIDE DEF d, e
  <2>3. IsSuffix(OrderUpTo(e, e.tip), OrderUpTo(e, e.tip))
    BY <1>1, <1>3, <2>2, MirrorSuffix
  <2> QED
    BY <1>2, <2>1, <2>3 DEF d, e
<1>5. CASE PruneIndex(c) # 0 /\ ~PruneFails(c)
  <2>1. NewBase(c) # NONE
    BY <1>1, <1>5, StatesTyped, NoneAssumption
  <2>2. ChainOK(c2) /\ PrunedAt(c, PointOf(c), c2)
    BY <1>1, <1>5, <2>1, PruneKeeps
  <2>3. Mirrors(d, e, Kept(c))
    BY <1>1, <1>5, <2>2, PruneMirrors
  <2>4. e.tip \in Kept(c) /\ d.tip = e.tip
    BY <1>1, <1>5, <2>2, KeptFacts DEF PrunedAt
  <2>5. Honest(d)
    BY <2>2 DEF ChainOK
  <2> HIDE DEF d, e
  <2>6. IsSuffix(OrderUpTo(d, d.tip), OrderUpTo(e, e.tip))
    BY <1>1, <2>3, <2>4, <2>5, MirrorSuffix
  <2> QED
    BY <1>2, <2>6 DEF d, e
<1> QED
  BY <1>4, <1>5

(* The order of the chain is the end of what the network has up to the     *)
(* chain's tip.                                                            *)
LEMMA NetOrder ==
    ASSUME NEW c, NEW n, NodeOK(c, n), c.engine.tip \in Known(n)
    PROVE  IsSuffix(TotalOrder(c.engine), OrderUpTo(n.engine, c.engine.tip))
<1>1. /\ Honest(c.engine) /\ Honest(n.engine)
      /\ Known(c) = Blocks(c.engine) /\ Linked(c, n)
  BY DEF NodeOK, ChainInv, ChainOK, NetOK
<1>2. c.engine.tip \in Known(c) \cap Known(n)
  BY <1>1, HonestFacts
<1>3. Origin(c) \in Known(n)
  BY <1>1, <1>2 DEF Linked
<1>4. Mirrors(c.engine, n.engine, Known(c) \cap Known(n))
  BY <1>3, NetMirrors
<1> QED
  BY <1>1, <1>2, <1>4, MirrorSuffix DEF TotalOrder

(* With the same blocks above the chain's origin they have the same tip:   *)
(* blocks below that origin have less work than it.                        *)
LEMMA NetTip ==
    ASSUME NEW c, NEW n, NodeOK(c, n), Known(c) \subseteq Known(n),
           Known(n) \subseteq Known(c) \cup n.engine.past[Origin(c)]
    PROVE  c.engine.tip = n.engine.tip
<1> DEFINE d == c.engine
           e == n.engine
           o == Origin(c)
           S == Known(c) \cap Known(n)
<1>1. /\ Honest(d) /\ Honest(e) /\ Known(c) = Blocks(d) /\ Known(n) = Blocks(e) /\ o = d.genesis
  BY DEF NodeOK, ChainInv, ChainOK, NetOK, Origin
<1>2. o \in Known(c) /\ d.tip \in Known(c) /\ e.tip \in Known(n)
  BY <1>1, HonestFacts
<1>3. Mirrors(d, e, S)
  BY <1>2, NetMirrors
<1>4. Known(n) \subseteq Known(c) \cup e.past[o]
  OBVIOUS
<1> HIDE DEF d, e, o
<1>5. /\ Sound(d) /\ Sound(e) /\ TipIsHeavy(d) /\ TipIsHeavy(e) /\ Climbs(e)
  BY <1>1, HonestSound DEF Honest, EngineOK
<1>6. Weighed(e, Blocks(e))
  BY <1>5, SoundFacts
<1>7. e.tip \notin e.past[o]
  <2> SUFFICES ASSUME e.tip \in e.past[o] PROVE FALSE
    OBVIOUS
  <2>1. o \in Blocks(e) /\ e.tip \in Blocks(e)
    BY <1>1, <1>2
  <2>2. o # e.tip
    BY <1>5, <2>1, SoundFacts
  <2>3. e.gd[e.tip].blue_work < e.gd[o].blue_work
    BY <1>5, <2>1 DEF Climbs
  <2>4. Lighter(e, o, e.tip)
    BY <1>5, <2>1, <2>2 DEF TipIsHeavy
  <2>5. e.gd[e.tip].blue_work \in Nat /\ e.gd[o].blue_work \in Nat
    BY <1>6, <2>1 DEF Weighed
  <2> QED
    BY <2>3, <2>4, <2>5 DEF Lighter
<1>8. d.tip \in S /\ e.tip \in S
  BY <1>2, <1>4, <1>7
<1>9. ASSUME d.tip # e.tip PROVE FALSE
  <2>1. Lighter(e, d.tip, e.tip) /\ Lighter(d, e.tip, d.tip)
    BY <1>1, <1>5, <1>8, <1>9 DEF TipIsHeavy
  <2>2. Lighter(e, e.tip, d.tip)
    BY <1>3, <1>5, <1>8, <2>1, MirrorLighter
  <2>3. d.tip \in Blocks(e) /\ e.tip \in Blocks(e)
    BY <1>1, <1>8
  <2>4. Lighter(e, d.tip, d.tip)
    BY <1>6, <2>1, <2>2, <2>3, LighterOrder
  <2> QED
    BY <1>6, <2>3, <2>4, LighterOrder
<1> QED
  BY <1>9 DEF d, e

(* prune keeps the total order from the pruning point onward while every   *)
(* prune keeps only descendants of its pruning point.                      *)
THEOREM OrderAlwaysKept == Spec => CleanOrderSuffix
<1>1. PruneHistory /\ "side block" \notin events' =>
        /\ chain' = Prune(chain) /\ ~chain.poisoned /\ CleanCut(chain)
        /\ "side block" \notin events
  BY DEF PruneHistory, Alive, Event
<1>2. NodeInv /\ "side block" \notin events => ChainInv(chain)
  BY DEF NodeInv, NodeOK
<1>3. NodeInv /\ PruneHistory /\ "side block" \notin events' =>
        IsSuffix(TotalOrder(chain'.engine), TotalOrder(chain.engine))
  BY <1>1, <1>2, PruneOrder
<1> QED
  BY <1>3, NodeAlways, PTL DEF Spec, CleanOrderSuffix

(* Nodes that agree on a tip agree on the order up to it, and those that   *)
(* know the same blocks agree on the tip.                                  *)
THEOREM OrderAlwaysAgrees == Spec => []AgreedOrder
<1>1. NodeInv => AgreedOrder
  BY NetOrder, NetTip DEF NodeInv, AgreedOrder, InSync
<1> QED
  BY <1>1, NodeAlways, PTL

----------------------------------------------------------------------------
(* The same demands everywhere: what a node and its peers accept.          *)

(* A sequence has at most as many elements as places.                      *)
LEMMA CountedAtMost ==
    ASSUME NEW T, NEW s \in Seq(T)
    PROVE  IsFiniteSet(ToSet(s)) /\ Cardinality(ToSet(s)) <= Len(s)
<1> DEFINE n == Len(s)
           S == ToSet(s)
<1>1. n \in Nat /\ DOMAIN s = 1..n /\ S = {s[i] : i \in 1..n}
  BY DEF ToSet
<1>2. s \in [1..n -> S]
  <2>1. s = [i \in 1..n |-> s[i]]
    OBVIOUS
  <2>2. \A i \in 1..n : s[i] \in S
    BY <1>1
  <2> HIDE DEF n, S
  <2> QED
    BY <2>1, <2>2
<1>3. IsFiniteSet(1..n) /\ Cardinality(1..n) = n
  BY <1>1, FS_Interval
<1> HIDE DEF n, S
<1>4. s \in Surjection(1..n, S)
  BY <1>1, <1>2 DEF Surjection
<1> QED
  BY <1>3, <1>4, FS_Surjection DEF n, S

(* build_block_at references at most MAX_PARENTS tips.                     *)
LEMMA MiningParentsCount ==
    ASSUME NEW c, ChainOK(c)
    PROVE  Cardinality(MiningParents(c)) <= MaxParents
<1> DEFINE others == Without({c.engine.tip}, c.tips)
<1>1. c.tips \in Seq(Known(c)) /\ Distinct(c.tips) /\ MaxParents \in Nat \ {0}
  BY ChainAssumption DEF ChainOK, TipsOK
<1>2. CASE Len(c.tips) <= MaxParents
  <2>1. IsFiniteSet(ToSet(c.tips)) /\ Cardinality(ToSet(c.tips)) = Len(c.tips)
    BY <1>1, DistinctCounts
  <2> QED
    BY <1>2, <2>1 DEF MiningParents
<1>3. CASE ~(Len(c.tips) <= MaxParents)
  <2> DEFINE s == Upto(others, MaxParents - 1)
  <2>1. others \in Seq(Known(c))
    BY <1>1, WithoutFacts
  <2>2. MaxParents - 1 <= Len(others) /\ MaxParents - 1 \in Nat /\ Len(others) \in Nat
    <3>1. Len(others) >= Len(c.tips) - 1
      BY <1>1, WithoutOne
    <3>2. Len(others) \in Nat /\ Len(c.tips) \in Nat
      BY <1>1, <2>1
    <3> HIDE DEF others
    <3> QED
      BY <1>1, <1>3, <3>1, <3>2
  <2> HIDE DEF others
  <2>3. s \in Seq(Known(c)) /\ Len(s) = MaxParents - 1
    BY <2>1, <2>2 DEF Upto
  <2> DEFINE S == ToSet(s)
  <2>4. IsFiniteSet(S) /\ Cardinality(S) <= MaxParents - 1
    BY <2>3, CountedAtMost
  <2>5. MiningParents(c) = S \cup {c.engine.tip}
    BY <1>3 DEF MiningParents, others
  <2> HIDE DEF S
  <2>6. Cardinality(S) \in Nat
    BY <2>4, FS_CardinalityType
  <2>7. Cardinality(S \cup {c.engine.tip})
          = IF c.engine.tip \in S THEN Cardinality(S) ELSE Cardinality(S) + 1
    BY <2>4, FS_AddElement
  <2>8. Cardinality(S \cup {c.engine.tip}) <= Cardinality(S) + 1
    BY <2>6, <2>7
  <2>9. Cardinality(S \cup {c.engine.tip}) \in Nat
    BY <2>6, <2>7
  <2> QED
    BY <1>1, <2>4, <2>5, <2>6, <2>8, <2>9
<1> QED
  BY <1>2, <1>3

(* The tip is the selected parent of every set of blocks it is among.      *)
LEMMA TipSelected ==
    ASSUME NEW e, Sound(e), NEW ps \in SUBSET Blocks(e), e.tip \in ps
    PROVE  FindSelectedParent(e, ps) = e.tip
<1> DEFINE p == FindSelectedParent(e, ps)
<1>1. Weighed(e, ps) /\ IsFiniteSet(ps) /\ Weighed(e, Blocks(e))
  BY SoundFacts, FS_Subset DEF Weighed
<1>2. p \in ps /\ \A x \in ps \ {p} : Lighter(e, x, p)
  BY <1>1, SelectedParent
<1>3. \A x \in Blocks(e) \ {e.tip} : Lighter(e, x, e.tip)
  BY DEF Sound, EngineOK, TipIsHeavy
<1> HIDE DEF p
<1>4. ASSUME p # e.tip PROVE FALSE
  <2>1. Lighter(e, e.tip, p) /\ Lighter(e, p, e.tip)
    BY <1>2, <1>3, <1>4
  <2>2. Lighter(e, p, p)
    BY <1>1, <1>2, <2>1, LighterOrder
  <2> QED
    BY <1>1, <1>2, <2>2, LighterOrder
<1> QED
  BY <1>4 DEF p

(* Two that start at the same block compute the same target and interlink  *)
(* for the children of a block.                                            *)
LEMMA MirrorHeader ==
    ASSUME NEW c, NEW n, Sound(c.engine), Sound(n.engine),
           NEW S, Mirrors(c.engine, n.engine, S), c.engine.genesis = n.engine.genesis,
           NEW sp \in S, c.headers[sp] = n.headers[sp]
    PROVE  /\ SelectedChainTarget(c, sp) = SelectedChainTarget(n, sp)
           /\ InterlinkForParent(c, sp) = InterlinkForParent(n, sp)
<1>1. Window(c, sp) = Window(n, sp)
  BY MirrorChain DEF Window
<1> QED
  BY <1>1 DEF SelectedChainTarget, InterlinkForParent


(* Every header of the network is what its parents demand: not too many of *)
(* them, and the target and interlink that follow from the heaviest.       *)
Derived(n) ==
    \A b \in Known(n) \ {Genesis} :
      LET h  == n.headers[b]
          sp == FindSelectedParent(n.engine, h.parents)
      IN  /\ h.parents # {} /\ Cardinality(h.parents) <= MaxParents
          /\ h.target = SelectedChainTarget(n, sp)
          /\ h.interlink = InterlinkForParent(n, sp)

(* The network stays so until a prune cuts off blocks that a node kept.     *)
PeersInv == "side block" \notin events => Derived(network)

(* What accept demands.                                                    *)
LEMMA AcceptedWhen ==
    ASSUME NEW c, NEW block
    PROVE  AcceptResult(c, block) = "ok" <=>
             LET h  == block.header
                 sp == FindSelectedParent(c.engine, h.parents)
             IN  /\ block.id \notin Known(c) /\ block.txs
                 /\ h.parents # {} /\ h.parents \subseteq Known(c)
                 /\ Cardinality(h.parents) <= MaxParents
                 /\ h.target = SelectedChainTarget(c, sp)
                 /\ h.interlink = InterlinkForParent(c, sp)
BY DEF AcceptResult, IntrinsicallyValid, SelectedParentDag

(* The same from the engine of another with the same blocks below.         *)
LEMMA MirrorDemands ==
    ASSUME NEW c, NEW n, Sound(c.engine), Sound(n.engine),
           NEW S, Mirrors(c.engine, n.engine, S), c.engine.genesis = n.engine.genesis,
           \A x \in S : c.headers[x] = n.headers[x],
           NEW ps \in SUBSET S, ps # {}
    PROVE  LET sp == FindSelectedParent(c.engine, ps)
           IN  /\ FindSelectedParent(n.engine, ps) = sp
               /\ SelectedChainTarget(c, sp) = SelectedChainTarget(n, sp)
               /\ InterlinkForParent(c, sp) = InterlinkForParent(n, sp)
<1> DEFINE sp == FindSelectedParent(c.engine, ps)
<1>1. FindSelectedParent(n.engine, ps) = sp
  BY MirrorParent
<1>2. sp \in S
  <2>1. S \subseteq Blocks(c.engine)
    BY DEF Mirrors, Above
  <2>2. Weighed(c.engine, ps) /\ IsFiniteSet(ps)
    BY <2>1, SoundFacts, FS_Subset DEF Weighed
  <2> QED
    BY <2>2, SelectedParent
<1> HIDE DEF sp
<1>3. /\ SelectedChainTarget(c, sp) = SelectedChainTarget(n, sp)
      /\ InterlinkForParent(c, sp) = InterlinkForParent(n, sp)
  BY <1>2, MirrorHeader
<1> QED
  BY <1>1, <1>3 DEF sp

(* Before the first prune the node and the others demand the same.         *)
LEMMA SameDemands ==
    ASSUME NEW c, NEW n, NodeOK(c, n), Origin(c) = Genesis,
           NEW ps \in SUBSET (Known(c) \cap Known(n)), ps # {}
    PROVE  LET sp == FindSelectedParent(c.engine, ps)
           IN  /\ FindSelectedParent(n.engine, ps) = sp
               /\ SelectedChainTarget(c, sp) = SelectedChainTarget(n, sp)
               /\ InterlinkForParent(c, sp) = InterlinkForParent(n, sp)
<1>1. /\ ChainOK(c) /\ Honest(c.engine)
      /\ Honest(n.engine) /\ Known(n) = Blocks(n.engine) /\ n.engine.genesis = Genesis
      /\ \A x \in Known(c) \cap Known(n) : c.headers[x] = n.headers[x]
  BY DEF NodeOK, ChainInv, ChainOK, NetOK, Linked
<1>2. Origin(c) \in Known(n) /\ c.engine.genesis = n.engine.genesis
  BY <1>1, HonestFacts DEF Origin
<1>3. Mirrors(c.engine, n.engine, Known(c) \cap Known(n))
  BY <1>2, NetMirrors
<1> QED
  BY <1>1, <1>2, <1>3, HonestSound, MirrorDemands

(* A block that the node builds then passes accept at the others.          *)
LEMMA BuiltAccepted ==
    ASSUME NEW c, NEW n, NodeOK(c, n), Origin(c) = Genesis, MiningParents(c) \subseteq Known(n),
           NEW b \in Hash \ n.mined
    PROVE  AcceptResult(n, BuildBlock(c, b)) = "ok"
<1> DEFINE ps == MiningParents(c)
           block == BuildBlock(c, b)
           tip == c.engine.tip
<1>1. /\ ChainOK(c) /\ PastComplete(c.engine) /\ Honest(c.engine) /\ Known(c) = Blocks(c.engine)
      /\ Known(n) \subseteq n.mined
  BY DEF NodeOK, ChainInv, ChainOK, NetOK
<1>2. ps # {} /\ ps \subseteq Known(c) \cap Known(n) /\ tip \in ps
  BY <1>1, MiningParentsFacts
<1>3. Cardinality(ps) <= MaxParents
  BY <1>1, MiningParentsCount
<1>4. /\ block.id = b /\ block.txs
      /\ block.header.parents = ps
      /\ block.header.target = SelectedChainTarget(c, tip)
      /\ block.header.interlink = InterlinkForParent(c, tip)
  BY DEF BuildBlock, HeaderOn
<1> HIDE DEF ps, block
<1>5. FindSelectedParent(c.engine, ps) = tip
  BY <1>1, <1>2, HonestSound, TipSelected
<1>6. /\ FindSelectedParent(n.engine, ps) = tip
      /\ SelectedChainTarget(c, tip) = SelectedChainTarget(n, tip)
      /\ InterlinkForParent(c, tip) = InterlinkForParent(n, tip)
  BY <1>2, <1>5, SameDemands
<1>7. AcceptResult(n, block) = "ok"
  BY <1>1, <1>2, <1>3, <1>4, <1>6, AcceptedWhen
<1> QED
  BY <1>7 DEF block

(* And theirs pass accept at the node, once it has the parents.            *)
LEMMA TheirsAccepted ==
    ASSUME NEW c, NEW n, NodeOK(c, n), Origin(c) = Genesis, Derived(n),
           NEW b \in Known(n) \ (Known(c) \cup {Genesis}),
           n.headers[b].parents \subseteq Known(c),
           NEW block, block.id = b, block.header = n.headers[b], block.txs
    PROVE  AcceptResult(c, block) = "ok"
<1> DEFINE h == n.headers[b]
           sp == FindSelectedParent(n.engine, h.parents)
<1>1. /\ h.parents # {} /\ Cardinality(h.parents) <= MaxParents
      /\ h.target = SelectedChainTarget(n, sp)
      /\ h.interlink = InterlinkForParent(n, sp)
  BY DEF Derived
<1>2. h.parents \subseteq Known(n)
  BY NetFacts DEF NodeOK
<1>3. /\ FindSelectedParent(c.engine, h.parents) = sp
      /\ SelectedChainTarget(c, sp) = SelectedChainTarget(n, sp)
      /\ InterlinkForParent(c, sp) = InterlinkForParent(n, sp)
  BY <1>1, <1>2, SameDemands
<1> HIDE DEF sp
<1> QED
  BY <1>1, <1>3, AcceptedWhen

(* The network stays as its rules derive it.                               *)
LEMMA DerivedGrows ==
    ASSUME NEW n, NetOK(n), Derived(n), NEW block, block.id \notin Known(n),
           NEW n2, n2 = NetworkAccept(n, block), NetOK(n2), Grown(n, n2, block)
    PROVE  Derived(n2)
<1> DEFINE b == block.id
           e == n.engine
           f == n2.engine
<1>1. CASE n2.engine = n.engine /\ n2.headers = n.headers
  <2>1. Known(n2) = Known(n)
    BY <1>1 DEF Known
  <2>2. ASSUME NEW sp
        PROVE  /\ SelectedChainTarget(n2, sp) = SelectedChainTarget(n, sp)
               /\ InterlinkForParent(n2, sp) = InterlinkForParent(n, sp)
    BY <1>1 DEF SelectedChainTarget, Window, InterlinkForParent
  <2> QED
    BY <1>1, <2>1, <2>2 DEF Derived
<1>2. CASE ~(n2.engine = n.engine /\ n2.headers = n.headers)
  <2>1. /\ n2.headers = Insert(n.headers, b, block.header) /\ Known(n2) = Known(n) \cup {b}
        /\ Added(e, b, block.header.parents, f)
    BY <1>2 DEF Grown
  <2>2. AcceptResult(n, block) = "ok"
    <3> SUFFICES ASSUME AcceptResult(n, block) # "ok" PROVE FALSE
      OBVIOUS
    <3>1. n2 = [n EXCEPT !.mined = @ \cup {b}]
      BY DEF NetworkAccept
    <3>2. n2.headers = n.headers
      BY <3>1 DEF NetOK
    <3>3. Known(n2) = Known(n)
      BY <3>2 DEF Known
    <3> QED
      BY <2>1, <3>3
  <2>3. n2.headers[b] = block.header /\ \A x \in Known(n) : n2.headers[x] = n.headers[x]
    BY <2>1 DEF Insert, Known
  <2>4. /\ Honest(e) /\ Honest(f) /\ Known(n) = Blocks(e) /\ e.genesis = Genesis /\ f.genesis = Genesis
        /\ Blocks(f) = Blocks(e) \cup {b}
        /\ \A x \in Blocks(e) : f.gd[x] = e.gd[x] /\ f.past[x] = e.past[x]
    BY <2>1 DEF NetOK, Added
  <2> HIDE DEF b, e, f
  <2>5. Mirrors(e, f, Known(n))
    BY <2>4, HonestSound, GrownMirrors
  <2>6. ASSUME NEW x \in Known(n2) \ {Genesis}
        PROVE  LET h  == n2.headers[x]
                   sp == FindSelectedParent(e, h.parents)
               IN  /\ h.parents # {} /\ Cardinality(h.parents) <= MaxParents
                   /\ h.parents \subseteq Known(n)
                   /\ h.target = SelectedChainTarget(n, sp)
                   /\ h.interlink = InterlinkForParent(n, sp)
    <3>1. CASE x = b
      BY <2>2, <2>3, <3>1, AcceptedWhen DEF b, e
    <3>2. CASE x \in Known(n)
      BY <2>3, <3>2, NetFacts DEF Derived, e
    <3> QED
      BY <2>1, <3>1, <3>2
  <2>7. ASSUME NEW x \in Known(n2) \ {Genesis}
        PROVE  LET h  == n2.headers[x]
                   sp == FindSelectedParent(f, h.parents)
               IN  /\ h.parents # {} /\ Cardinality(h.parents) <= MaxParents
                   /\ h.target = SelectedChainTarget(n2, sp)
                   /\ h.interlink = InterlinkForParent(n2, sp)
    <3> DEFINE h == n2.headers[x]
               sp == FindSelectedParent(e, h.parents)
    <3>1. /\ FindSelectedParent(f, h.parents) = sp
          /\ SelectedChainTarget(n, sp) = SelectedChainTarget(n2, sp)
          /\ InterlinkForParent(n, sp) = InterlinkForParent(n2, sp)
      <4>1. /\ Sound(n.engine) /\ Sound(n2.engine) /\ Mirrors(n.engine, n2.engine, Known(n))
            /\ n.engine.genesis = n2.engine.genesis
            /\ \A y \in Known(n) : n.headers[y] = n2.headers[y]
        BY <2>3, <2>4, <2>5, HonestSound DEF e, f
      <4>2. h.parents \in SUBSET Known(n) /\ h.parents # {}
        BY <2>6
      <4> HIDE DEF h
      <4> QED
        BY <4>1, <4>2, MirrorDemands DEF e, f
    <3> QED
      BY <2>6, <3>1
  <2> QED
    BY <2>7 DEF Derived, f
<1> QED
  BY <1>1, <1>2

(* The genesis has nothing to demand.                                      *)
LEMMA PeersStart == Init => PeersInv
<1> SUFFICES ASSUME Init PROVE Derived(network)
  BY DEF PeersInv
<1>1. Known(network) = {Genesis}
  BY DEF Init, NewChain, Known
<1> QED
  BY <1>1 DEF Derived

(* A block mined here reaches the network.                                 *)
LEMMA MineGrows ==
    ASSUME NodeOK(chain, network), NEW b \in Hash, Mine(b),
           NEW block, block = BuildBlock(chain, b)
    PROVE  /\ b \in Hash \ network.mined /\ block.id = b
           /\ network' = NetworkAccept(network, block) /\ Grown(network, network', block)
<1>1. /\ b \in Hash \ network.mined /\ ~chain.poisoned
      /\ chain' = MineBlock(chain, b) /\ network' = NetworkAccept(network, block)
  BY DEF Mine, Fresh, Alive
<1>2. NetOK(network) /\ ChainInv(chain) /\ Linked(chain, network)
  BY DEF NodeOK
<1>3. block.id = b
  BY DEF BuildBlock
<1>4. /\ Grown(network, network', block)
      /\ SameBut(chain, chain', {"engine", "headers", "block_txs", "tips", "log"})
  BY <1>1, <1>2, MineKeeps
<1> QED
  BY <1>1, <1>3, <1>4

(* Only mined blocks change what the network knows.                        *)
LEMMA PeersStep ==
    ASSUME NodeOK(chain, network), NodeOK(chain', network'), Derived(network),
           Next, "side block" \notin events'
    PROVE  Derived(network')
<1>1. /\ NetOK(network) /\ NetOK(network') /\ Known(network) \subseteq network.mined
  BY DEF NodeOK, NetOK
<1>2. CASE network' = network
  BY <1>2
<1>3. ASSUME NEW b \in Hash, NEW ps \in (SUBSET Known(network)) \ {{}}, PeerMines(b, ps)
      PROVE  Derived(network')
  <2> DEFINE block == [id     |-> b,
                       header |-> HeaderOn(network, ps, FindSelectedParent(network.engine, ps)),
                       txs    |-> TRUE]
  <2>1. /\ b \in Hash \ network.mined /\ IsAntichain(network.engine, ps)
        /\ network' = NetworkAccept(network, block)
    BY <1>3 DEF PeerMines, Fresh
  <2>2. block.id = b /\ block.header.parents = ps
    BY DEF HeaderOn
  <2> HIDE DEF block
  <2>3. Grown(network, network', block)
    BY <1>1, <2>1, <2>2, NetAccepts
  <2> QED
    BY <1>1, <2>1, <2>2, <2>3, DerivedGrows
<1>4. ASSUME NEW b \in Hash, Mine(b) PROVE Derived(network')
  <2> DEFINE block == BuildBlock(chain, b)
  <2>1. /\ b \in Hash \ network.mined /\ block.id = b
        /\ network' = NetworkAccept(network, block) /\ Grown(network, network', block)
    BY <1>4, MineGrows
  <2> HIDE DEF block
  <2> QED
    BY <1>1, <2>1, DerivedGrows
<1>5. CASE \/ \E b \in Known(network) : Receive(b)
           \/ QueryState \/ PruneHistory \/ DropBodies \/ Restart
  BY <1>2, <1>5 DEF Receive, QueryState, PruneHistory, DropBodies, Restart
<1> QED
  BY <1>3, <1>4, <1>5 DEF Next

(* Every block the network took carries what its parents demand: the       *)
(* invariant under what a node and its peers accept of each other.         *)
THEOREM PeersAlways == Spec => []PeersInv
<1>1. NodeInv /\ NodeInv' /\ PeersInv /\ [Next]_vars => PeersInv'
  <2> SUFFICES ASSUME NodeInv, NodeInv', PeersInv, [Next]_vars, "side block" \notin events'
               PROVE  Derived(network')
    BY DEF PeersInv
  <2>1. CASE UNCHANGED vars
    BY <2>1 DEF PeersInv, vars
  <2>2. CASE Next
    <3>1. "side block" \notin events
      BY <2>2 DEF Next, PeerMines, Mine, Receive, QueryState, PruneHistory, DropBodies, Restart, Event
    <3> QED
      BY <2>2, <3>1, PeersStep DEF NodeInv, PeersInv
  <2> QED
    BY <2>1, <2>2
<1> QED
  BY <1>1, PeersStart, NodeAlways, PTL DEF Spec

(* What a node mines before its first prune, every node that has the       *)
(* parents accepts (build_block_at derives from the tip, accept from the   *)
(* selected parent of the parents written into the header).                *)
THEOREM MinedAlwaysAccepted == Spec => [](Origin(chain) = Genesis => PeersAccept)
<1>1. NodeInv /\ Origin(chain) = Genesis => PeersAccept
  <2> SUFFICES ASSUME NodeInv, Origin(chain) = Genesis, "side block" \notin events,
                      MiningParents(chain) \subseteq Known(network),
                      NEW b \in Hash \ network.mined
               PROVE  AcceptResult(network, BuildBlock(chain, b)) = "ok"
    BY DEF PeersAccept, Agreed
  <2> QED
    BY BuiltAccepted DEF NodeInv
<1> QED
  BY <1>1, NodeAlways, PTL

(* What the others mined, a node accepts before its first prune, as soon   *)
(* as it has the parents: in whatever order blocks came and across         *)
(* restarts, it derives the same target and interlink (accept).            *)
THEOREM TheirsAlwaysAccepted == Spec => [](Origin(chain) = Genesis => AcceptsPeers)
<1>1. NodeInv /\ PeersInv /\ Origin(chain) = Genesis => AcceptsPeers
  <2> SUFFICES ASSUME NodeInv, PeersInv, Origin(chain) = Genesis, "side block" \notin events,
                      NEW b \in Known(network) \ (Known(chain) \cup {Genesis}),
                      network.headers[b].parents \subseteq Known(chain)
               PROVE  AcceptResult(chain, NetworkBlock(b)) = "ok"
    BY DEF AcceptsPeers, AcceptsNetwork, Agreed
  <2> DEFINE block == NetworkBlock(b)
  <2>1. block.id = b /\ block.header = network.headers[b] /\ block.txs
    BY DEF NetworkBlock
  <2> HIDE DEF block
  <2>2. AcceptResult(chain, block) = "ok"
    BY <2>1, TheirsAccepted DEF NodeInv, PeersInv
  <2> QED
    BY <2>2 DEF block
<1> QED
  BY <1>1, NodeAlways, PeersAlways, PTL

----------------------------------------------------------------------------
(* Accounts.                                                               *)

(* The blocks, but for the origin, whose bodies were dropped.              *)
Missing(c) == (Known(c) \ {Origin(c)}) \ c.block_txs

(* The accounts after executing exactly the blocks S, each once, with      *)
(* their transactions.                                                     *)
Covers(a, S) ==
    /\ a \in AccountSets
    /\ ToSet(a) = S \X {TRUE}
    /\ Distinct(a)

(* The caches are executions of the orders they stand for, bodies are      *)
(* missing only where the checkpoint has their effects, and none is        *)
(* missing from the log.                                                   *)
CachesOK(c) ==
    /\ c.executed \in Seq(Known(c)) /\ Distinct(c.executed)
    /\ c.state # NONE => c.executed # <<>> /\ c.state = Executions(c, c.executed)
    /\ c.checkpoint # NONE /\ c.executed # <<>> =>
         /\ c.checkpoint.len <= Len(c.executed)
         /\ c.checkpoint.accounts = Executions(c, Upto(c.executed, c.checkpoint.len))
    /\ Missing(c) # {} =>
         /\ NoReplayBase(c) /\ c.checkpoint # NONE
         /\ Missing(c) \X {TRUE} \subseteq ToSet(c.checkpoint.accounts)
    /\ Known(c) \ {Origin(c)} \subseteq Opened(c.log).block_txs

(* The base holds the past of the origin.                                  *)
BaseOK(c, n) ==
    /\ c.base_accounts = NONE => Origin(c) = Genesis
    /\ c.base_accounts # NONE /\ Origin(c) \in Known(n) =>
         Covers(c.base_accounts,
                (n.engine.past[Origin(c)] \cup {Origin(c)}) \ {Genesis})

(* After a reorg below the checkpoint, a prune that kept a side block or a *)
(* loss of bodies after a prune, the caches need not agree with the order. *)
AccountsInv == events = {} => CachesOK(chain) /\ BaseOK(chain, network)

(* Every body is at hand.                                                  *)
Full(c) == [c EXCEPT !.block_txs = Known(c)]

(* A prefix and the rest.                                                  *)
LEMMA Rejoined ==
    ASSUME NEW T, NEW s \in Seq(T), NEW m \in 0..Len(s)
    PROVE  /\ Upto(s, m) \in Seq(T) /\ From(s, m + 1) \in Seq(T)
           /\ s = Upto(s, m) \o From(s, m + 1)
           /\ Len(Upto(s, m)) = m
           /\ \A i \in 1..m : Upto(s, m)[i] = s[i]
           /\ Len(From(s, m + 1)) = Len(s) - m
           /\ \A i \in 1..(Len(s) - m) : From(s, m + 1)[i] = s[m + i]
<1>1. Len(s) \in Nat /\ m \in Nat /\ m <= Len(s)
  OBVIOUS
<1>2. /\ Upto(s, m) \in Seq(T) /\ From(s, m + 1) \in Seq(T)
      /\ Len(Upto(s, m)) = m
      /\ \A i \in 1..m : Upto(s, m)[i] = s[i]
      /\ Len(From(s, m + 1)) = Len(s) - m
      /\ \A i \in 1..(Len(s) - m) : From(s, m + 1)[i] = s[m + i]
  BY <1>1 DEF Upto, From
<1> DEFINE t == Upto(s, m) \o From(s, m + 1)
<1>3. t \in Seq(T) /\ Len(t) = Len(s)
  BY <1>1, <1>2
<1>4. ASSUME NEW i \in 1..Len(s) PROVE t[i] = s[i]
  <2>1. CASE i <= m
    <3>1. i \in 1..m /\ t[i] = Upto(s, m)[i]
      BY <1>1, <1>2, <2>1
    <3> QED
      BY <1>2, <3>1
  <2>2. CASE i > m
    <3>1. i - m \in 1..(Len(s) - m) /\ m + (i - m) = i /\ t[i] = From(s, m + 1)[i - m]
      BY <1>1, <1>2, <2>2
    <3> QED
      BY <1>2, <3>1
  <2>3. i <= m \/ i > m
    BY <1>1
  <2> HIDE DEF t
  <2> QED
    BY <2>1, <2>2, <2>3
<1>5. s = t
  <2> HIDE DEF t
  <2> QED
    BY <1>3, <1>4
<1> QED
  BY <1>2, <1>5

(* Which elements are on either side.                                      *)
LEMMA RejoinedSets ==
    ASSUME NEW T, NEW s \in Seq(T), NEW m \in 0..Len(s)
    PROVE  /\ ToSet(s) = ToSet(Upto(s, m)) \cup ToSet(From(s, m + 1))
           /\ Distinct(s) => /\ Distinct(Upto(s, m)) /\ Distinct(From(s, m + 1))
                             /\ ToSet(Upto(s, m)) \cap ToSet(From(s, m + 1)) = {}
<1> DEFINE u == Upto(s, m)
           f == From(s, m + 1)
           n == Len(s)
<1>0. n \in Nat /\ m \in Nat /\ m <= n
  OBVIOUS
<1>1. /\ u \in Seq(T) /\ f \in Seq(T) /\ Len(u) = m /\ Len(f) = n - m
      /\ \A i \in 1..m : u[i] = s[i]
      /\ \A i \in 1..(n - m) : f[i] = s[m + i]
      /\ n \in Nat /\ m \in Nat /\ m <= n
  <2>1. /\ u \in Seq(T) /\ f \in Seq(T) /\ Len(u) = m /\ Len(f) = n - m
        /\ \A i \in 1..m : u[i] = s[i]
        /\ \A i \in 1..(n - m) : f[i] = s[m + i]
    BY Rejoined
  <2> QED
    BY <1>0, <2>1
<1>2. DOMAIN u = 1..m /\ DOMAIN f = 1..(n - m) /\ DOMAIN s = 1..n
  BY <1>1
<1>3. /\ \A x : x \in ToSet(u) <=> \E i \in 1..m : x = s[i]
      /\ \A x : x \in ToSet(f) <=> \E i \in 1..(n - m) : x = s[m + i]
      /\ \A x : x \in ToSet(s) <=> \E i \in 1..n : x = s[i]
  BY <1>1, <1>2 DEF ToSet
<1> HIDE DEF u, f, n
<1>4. /\ \A i \in 1..m : i \in 1..n
      /\ \A i \in 1..(n - m) : m + i \in 1..n
      /\ \A i \in 1..n : i \in 1..m \/ (i - m \in 1..(n - m) /\ m + (i - m) = i)
  BY <1>1
<1>5. ToSet(s) = ToSet(u) \cup ToSet(f)
  BY <1>3, <1>4
<1>6. ASSUME Distinct(s)
      PROVE  Distinct(u) /\ Distinct(f) /\ ToSet(u) \cap ToSet(f) = {}
  <2>1. \A i, j \in 1..n : s[i] = s[j] => i = j
    BY <1>2, <1>6 DEF Distinct
  <2>2. Distinct(u)
    BY <1>1, <1>2, <1>4, <2>1 DEF Distinct
  <2>3. Distinct(f)
    <3> SUFFICES ASSUME NEW i \in 1..(n - m), NEW j \in 1..(n - m), f[i] = f[j] PROVE i = j
      BY <1>2 DEF Distinct
    <3>1. m + i = m + j
      BY <1>1, <1>4, <2>1
    <3> QED
      BY <1>1, <3>1
  <2>4. \A i \in 1..m : \A j \in 1..(n - m) : i # m + j
    BY <1>1
  <2> QED
    BY <1>3, <1>4, <2>1, <2>2, <2>3, <2>4
<1> QED
  BY <1>5, <1>6 DEF u, f

(* Blocks are executed alike where the same bodies are at hand.            *)
LEMMA ReplaySame ==
    ASSUME NEW c, NEW d, Origin(d) = Origin(c), NEW T, NEW s \in Seq(T), NEW a,
           \A x \in ToSet(s) \ {Origin(c)} : (x \in d.block_txs) = (x \in c.block_txs)
    PROVE  ReplayBlocks(d, a, s) = ReplayBlocks(c, a, s)
<1>1. \A acc : \A i \in 1..Len(s) : ReplayBlock(d, acc, s[i]) = ReplayBlock(c, acc, s[i])
  <2> SUFFICES ASSUME NEW acc, NEW i \in 1..Len(s)
               PROVE  ReplayBlock(d, acc, s[i]) = ReplayBlock(c, acc, s[i])
    OBVIOUS
  <2>1. s[i] \in ToSet(s)
    BY DEF ToSet
  <2> DEFINE x == s[i]
  <2>2. x = Origin(c) \/ (x \in d.block_txs) = (x \in c.block_txs)
    BY <2>1
  <2> HIDE DEF x
  <2>3. ReplayBlock(d, acc, x) = ReplayBlock(c, acc, x)
    BY <2>2 DEF ReplayBlock
  <2> QED
    BY <2>3 DEF x
<1>2. Runs!Fold(d, a, s) = Runs!Fold(c, a, s)
  BY <1>1, Runs!FoldSame
<1> QED
  BY <1>2, ReplayIsFold

(* Executing a prefix and then the rest.                                   *)
LEMMA ReplaySplit ==
    ASSUME NEW c, NEW a, NEW T, NEW s \in Seq(T), NEW m \in 0..Len(s)
    PROVE  ReplayBlocks(c, ReplayBlocks(c, a, Upto(s, m)), From(s, m + 1))
             = ReplayBlocks(c, a, s)
<1>1. /\ Upto(s, m) \in Seq(T) /\ From(s, m + 1) \in Seq(T)
      /\ s = Upto(s, m) \o From(s, m + 1)
  BY Rejoined
<1>2. Runs!Fold(c, a, Upto(s, m) \o From(s, m + 1))
        = Runs!Fold(c, Runs!Fold(c, a, Upto(s, m)), From(s, m + 1))
  BY <1>1, Runs!FoldConcat
<1> QED
  BY <1>1, <1>2, ReplayIsFold

(* Executing a prefix and then what a longer one has more.                 *)
LEMMA ReplayLonger ==
    ASSUME NEW c, NEW a, NEW T, NEW s \in Seq(T), NEW n \in 0..Len(s), NEW m \in 0..n
    PROVE  /\ ReplayBlocks(c, ReplayBlocks(c, a, Upto(s, m)), From(Upto(s, n), m + 1))
                = ReplayBlocks(c, a, Upto(s, n))
           /\ From(Upto(s, n), m + 1) = SubSeq(s, m + 1, n)
           /\ Upto(Upto(s, n), m) = Upto(s, m)
<1> DEFINE u == Upto(s, n)
<1>1. u \in Seq(T) /\ Len(u) = n /\ (\A i \in 1..n : u[i] = s[i]) /\ n \in Nat /\ m \in Nat /\ m <= n
  <2>1. n \in Nat /\ m \in Nat /\ m <= n
    OBVIOUS
  <2>2. u \in Seq(T) /\ Len(u) = n /\ (\A i \in 1..n : u[i] = s[i])
    BY Rejoined
  <2> QED
    BY <2>1, <2>2
<1>2. Upto(u, m) = Upto(s, m) /\ From(u, m + 1) = SubSeq(s, m + 1, n)
  <2> HIDE DEF u
  <2>1. SubSeq(u, 1, m) = SubSeq(s, 1, m)
    BY <1>1
  <2>2. SubSeq(u, m + 1, n) = SubSeq(s, m + 1, n)
    BY <1>1
  <2> QED
    BY <1>1, <2>1, <2>2 DEF Upto, From
<1> HIDE DEF u
<1>3. ReplayBlocks(c, ReplayBlocks(c, a, Upto(u, m)), From(u, m + 1)) = ReplayBlocks(c, a, u)
  BY <1>1, ReplaySplit
<1> QED
  BY <1>2, <1>3 DEF u

(* Executions of blocks with their transactions.                           *)
LEMMA Pairs ==
    ASSUME NEW t
    PROVE  /\ \A R, y : y \in R \X {t} <=> \E z \in R : y = <<z, t>>
           /\ \A R, z : <<z, t>> \in R \X {t} <=> z \in R
OBVIOUS

(* One more of them.                                                       *)
LEMMA PairsMore ==
    ASSUME NEW t, NEW S, NEW x
    PROVE  /\ (S \cup {x}) \X {t} = (S \X {t}) \cup {<<x, t>>}
           /\ x \notin S => <<x, t>> \notin S \X {t}
<1>1. \A y : y \in (S \cup {x}) \X {t} <=> y \in S \X {t} \/ y = <<x, t>>
  BY Pairs
<1> QED
  BY <1>1, Pairs

(* One execution more.                                                     *)
LEMMA CoversMore ==
    ASSUME NEW a, NEW S, Covers(a, S), NEW x \in Hash, x \notin S
    PROVE  Covers(Append(a, <<x, TRUE>>), S \cup {x})
<1> DEFINE t == <<x, TRUE>>
<1>1. a \in Seq(Hash \X BOOLEAN) /\ t \in Hash \X BOOLEAN /\ ToSet(a) = S \X {TRUE} /\ Distinct(a)
  BY DEF Covers, AccountSets
<1> DEFINE P == Hash \X BOOLEAN
<1>2. t \notin S \X {TRUE} /\ (S \cup {x}) \X {TRUE} = (S \X {TRUE}) \cup {t}
  BY PairsMore
<1>6. a \in Seq(P) /\ t \in P
  BY <1>1
<1> HIDE DEF t, P
<1>3. Append(a, t) \in Seq(Hash \X BOOLEAN)
  BY <1>1
<1>4. ToSet(Append(a, t)) = ToSet(a) \cup {t}
  BY <1>6, ToSetAppend
<1>5. Distinct(Append(a, t))
  BY <1>1, <1>2, <1>6, DistinctAppend
<1> QED
  BY <1>1, <1>2, <1>3, <1>4, <1>5 DEF Covers, AccountSets, t

(* Executing blocks that are not in the account set yet, with their        *)
(* bodies, adds exactly them.                                              *)
LEMMA ReplayCovers ==
    ASSUME NEW c, NEW a, NEW S, Covers(a, S), NEW s \in Seq(Hash), Distinct(s),
           NEW O, O = Origin(c), S \cap (ToSet(s) \ {O}) = {}, ToSet(s) \ {O} \subseteq c.block_txs
    PROVE  Covers(ReplayBlocks(c, a, s), S \cup (ToSet(s) \ {O}))
<1> DEFINE n == Len(s)
<1>1. n \in Nat /\ DOMAIN s = 1..n /\ \A i \in 1..n : s[i] \in Hash
  OBVIOUS
<1>2. ToSet(s) = {s[i] : i \in 1..n}
  BY <1>1 DEF ToSet
<1> HIDE DEF n
<1>3. PICK g : Runs!Runs(c, a, s, n, g) /\ Runs!Fold(c, a, s) = g[n]
  BY <1>1, Runs!FoldRuns
<1> DEFINE Seen(m) == {s[i] : i \in 1..m} \ {O}
           Good(m) == Covers(g[m], S \cup Seen(m))
           Z == {m \in Nat : m <= n => Good(m)}
<1>4. 0 \in Z
  <2>1. g[0] = a
    BY <1>3 DEF Runs!Runs
  <2>2. Seen(0) = {}
    OBVIOUS
  <2>3. S \cup Seen(0) = S
    BY <2>2
  <2> HIDE DEF Seen
  <2> QED
    BY <2>1, <2>3
<1>5. ASSUME NEW m \in Nat, m \in Z PROVE m + 1 \in Z
  <2> SUFFICES ASSUME m + 1 <= n PROVE Good(m + 1)
    OBVIOUS
  <2>1. m + 1 \in 1..n /\ (m + 1) - 1 = m /\ Good(m)
    BY <1>1, <1>5
  <2>2. g[m + 1] = ReplayBlock(c, g[m], s[m + 1])
    BY <1>3, <2>1 DEF Runs!Runs
  <2> DEFINE x == s[m + 1]
  <2>3. 1..(m + 1) = (1..m) \cup {m + 1}
    OBVIOUS
  <2>4. {s[i] : i \in 1..(m + 1)} = {s[i] : i \in 1..m} \cup {x}
    BY <2>3
  <2>5. x \in Hash /\ x \in ToSet(s)
    BY <1>1, <1>2, <2>1
  <2>6. x \notin {s[i] : i \in 1..m}
    <3>1. \A i \in 1..m : i \in 1..n /\ i # m + 1
      BY <1>1, <2>1
    <3> QED
      BY <1>1, <2>1, <3>1 DEF Distinct
  <2> HIDE DEF x
  <2>7. CASE x = O
    <3>1. g[m + 1] = g[m]
      BY <2>2, <2>7 DEF ReplayBlock, x
    <3>2. Seen(m + 1) = Seen(m)
      BY <2>4, <2>7
    <3> HIDE DEF Seen
    <3> QED
      BY <2>1, <3>1, <3>2
  <2>8. CASE x # O
    <3>1. (x \in c.block_txs) = TRUE
      BY <2>5, <2>8
    <3>2. g[m + 1] = Append(g[m], <<x, TRUE>>)
      BY <2>2, <2>8, <3>1 DEF ReplayBlock, x
    <3>3. Seen(m + 1) = Seen(m) \cup {x} /\ x \notin Seen(m)
      BY <2>4, <2>6, <2>8
    <3>4. x \notin S
      BY <2>5, <2>8
    <3> HIDE DEF Seen
    <3>5. x \notin S \cup Seen(m) /\ (S \cup Seen(m)) \cup {x} = S \cup Seen(m + 1)
      BY <3>3, <3>4
    <3>6. Covers(Append(g[m], <<x, TRUE>>), (S \cup Seen(m)) \cup {x})
      BY <2>1, <2>5, <3>5, CoversMore
    <3> QED
      BY <3>2, <3>5, <3>6
  <2> QED
    BY <2>7, <2>8
<1>6. \A m \in Nat : m \in Z
  <2> HIDE DEF Z
  <2> QED
    BY <1>4, <1>5, Orders!NatInSet
<1>7. Good(n)
  <2>1. n \in Z
    BY <1>1, <1>6
  <2> HIDE DEF Good
  <2> QED
    BY <1>1, <2>1
<1>8. S \cup Seen(n) = S \cup (ToSet(s) \ {O})
  BY <1>2
<1> HIDE DEF Seen
<1> QED
  BY <1>3, <1>7, <1>8, ReplayIsFold

(* Full changes nothing else.                                              *)
LEMMA FullIs ==
    ASSUME NEW c, IsChain(c)
    PROVE  /\ Origin(Full(c)) = Origin(c) /\ Full(c).block_txs = Known(c)
           /\ \A s : Executions(c, s) = ReplayBlocks(Full(c), SeedAccounts(c), s)
<1>1. Full(c).engine = c.engine /\ Full(c).block_txs = Known(c)
  BY DEF IsChain, Full
<1>2. Origin(Full(c)) = Origin(c)
  BY <1>1 DEF Origin
<1>3. \A s : Executions(c, s) = ReplayBlocks(Full(c), SeedAccounts(c), s)
  BY DEF Executions, Full
<1> QED
  BY <1>1, <1>2, <1>3

(* The effects of known blocks, one after the other.                       *)
LEMMA ExecutionsCover ==
    ASSUME NEW c, IsChain(c), Known(c) \subseteq Hash, NEW s \in Seq(Known(c)), Distinct(s),
           NEW S, Covers(SeedAccounts(c), S), NEW O, O = Origin(c), S \cap (Known(c) \ {O}) = {}
    PROVE  Covers(Executions(c, s), S \cup (ToSet(s) \ {O}))
<1>1. s \in Seq(Hash) /\ ToSet(s) \subseteq Known(c)
  BY DEF ToSet
<1>2. Origin(Full(c)) = O /\ Full(c).block_txs = Known(c)
      /\ Executions(c, s) = ReplayBlocks(Full(c), SeedAccounts(c), s)
  BY FullIs
<1>3. S \cap (ToSet(s) \ {O}) = {} /\ ToSet(s) \ {O} \subseteq Known(c)
  BY <1>1
<1>4. Covers(ReplayBlocks(Full(c), SeedAccounts(c), s), S \cup (ToSet(s) \ {O}))
  BY <1>1, <1>2, <1>3, ReplayCovers
<1> QED
  BY <1>2, <1>4

(* Nothing executed covers nothing.                                        *)
LEMMA CoversNone == Covers(<<>>, {})
<1>1. <<>> \in AccountSets
  BY DEF AccountSets
<1>2. ToSet(<<>>) = {} \X {TRUE}
  BY DEF ToSet
<1>3. Distinct(<<>>)
  BY DEF Distinct
<1> QED
  BY <1>1, <1>2, <1>3 DEF Covers

(* The code's replay is the full one where no body is missing.             *)
LEMMA ReplayIsFull ==
    ASSUME NEW c, IsChain(c), NEW s \in Seq(Known(c)), NEW a, ToSet(s) \cap Missing(c) = {}
    PROVE  ReplayBlocks(c, a, s) = ReplayBlocks(Full(c), a, s)
<1>1. ToSet(s) \subseteq Known(c)
  BY DEF ToSet
<1>2. Origin(Full(c)) = Origin(c) /\ Full(c).block_txs = Known(c)
  BY FullIs
<1>3. \A x \in ToSet(s) \ {Origin(c)} : (x \in Full(c).block_txs) = (x \in c.block_txs)
  BY <1>1, <1>2 DEF Missing
<1> QED
  BY <1>2, <1>3, ReplaySame

(* Executions of blocks that are kept stay the same when more are known.   *)
LEMMA ExecutionsStay ==
    ASSUME NEW c, IsChain(c), NEW d, IsChain(d), Origin(d) = Origin(c),
           d.base_accounts = c.base_accounts, Known(c) \subseteq Known(d), NEW s \in Seq(Known(c))
    PROVE  Executions(d, s) = Executions(c, s)
<1>1. ToSet(s) \subseteq Known(c)
  BY DEF ToSet
<1>2. /\ Origin(Full(d)) = Origin(Full(c))
      /\ Full(c).block_txs = Known(c) /\ Full(d).block_txs = Known(d)
      /\ Executions(c, s) = ReplayBlocks(Full(c), SeedAccounts(c), s)
      /\ Executions(d, s) = ReplayBlocks(Full(d), SeedAccounts(d), s)
  BY FullIs
<1>3. SeedAccounts(d) = SeedAccounts(c)
  BY DEF SeedAccounts
<1>4. \A x \in ToSet(s) \ {Origin(Full(c))} :
         (x \in Full(d).block_txs) = (x \in Full(c).block_txs)
  BY <1>1, <1>2
<1>5. ReplayBlocks(Full(d), SeedAccounts(c), s) = ReplayBlocks(Full(c), SeedAccounts(c), s)
  BY <1>2, <1>4, ReplaySame
<1> QED
  BY <1>2, <1>3, <1>5

(* What holds of the blocks of a chain.                                    *)
LEMMA ChainFacts ==
    ASSUME NEW c, ChainOK(c), NEW order, order = TotalOrder(c.engine)
    PROVE  /\ IsChain(c) /\ Known(c) \subseteq Hash /\ Origin(c) \in Known(c)
           /\ order \in Seq(Known(c)) /\ Distinct(order) /\ Len(order) \in Nat \ {0}
           /\ order # <<>>
<1>1. Honest(c.engine) /\ IsChain(c) /\ Known(c) = Blocks(c.engine)
  BY DEF ChainOK
<1>2. /\ order \in Seq(Known(c)) /\ Distinct(order)
      /\ ToSet(order) = c.engine.past[c.engine.tip] \cup {c.engine.tip}
  BY <1>1, OrderFacts
<1>3. ToSet(order) # {}
  BY <1>2
<1>4. \E i \in DOMAIN order : TRUE
  BY <1>3 DEF ToSet
<1>5. Len(order) \in Nat \ {0} /\ order # <<>>
  BY <1>2, <1>4
<1> QED
  BY <1>1, <1>2, <1>5, HonestFacts DEF Origin

(* The bodies that are missing belong to blocks executed into the          *)
(* checkpoint.                                                             *)
LEMMA MissingExecuted ==
    ASSUME NEW c, IsChain(c), Known(c) \subseteq Hash, CachesOK(c), Missing(c) # {},
           NEW s \in Seq(Known(c)), Distinct(s), c.checkpoint.accounts = Executions(c, s)
    PROVE  Missing(c) \subseteq ToSet(s)
<1> DEFINE O == Origin(c)
<1>1. /\ c.base_accounts = NONE
      /\ Missing(c) \X {TRUE} \subseteq ToSet(c.checkpoint.accounts)
  BY DEF CachesOK, NoReplayBase
<1>2. Covers(SeedAccounts(c), {})
  BY <1>1, CoversNone DEF SeedAccounts
<1>3. {} \cap (Known(c) \ {O}) = {}
  OBVIOUS
<1>4. Covers(Executions(c, s), {} \cup (ToSet(s) \ {O}))
  BY <1>2, <1>3, ExecutionsCover
<1>5. ToSet(c.checkpoint.accounts) = ({} \cup (ToSet(s) \ {O})) \X {TRUE}
  BY <1>4 DEF Covers
<1>6. ASSUME NEW x \in Missing(c) PROVE x \in ToSet(s)
  <2>1. <<x, TRUE>> \in Missing(c) \X {TRUE}
    BY Pairs
  <2>2. <<x, TRUE>> \in ({} \cup (ToSet(s) \ {O})) \X {TRUE}
    BY <1>1, <1>5, <2>1
  <2>3. x \in {} \cup (ToSet(s) \ {O})
    BY <2>2, Pairs
  <2> QED
    BY <2>3
<1> QED
  BY <1>6

(* The checkpoint holds those blocks, if any.                              *)
LEMMA MissingCovered ==
    ASSUME NEW c, IsChain(c), Known(c) \subseteq Hash, c.base_accounts = NONE,
           NEW s \in Seq(Known(c)), Distinct(s), Missing(c) \subseteq ToSet(s)
    PROVE  Missing(c) \X {TRUE} \subseteq ToSet(Executions(c, s))
<1> DEFINE O == Origin(c)
<1>1. Covers(SeedAccounts(c), {})
  BY CoversNone DEF SeedAccounts
<1>2. {} \cap (Known(c) \ {O}) = {}
  OBVIOUS
<1>3. Covers(Executions(c, s), {} \cup (ToSet(s) \ {O}))
  BY <1>1, <1>2, ExecutionsCover
<1>4. ToSet(Executions(c, s)) = ({} \cup (ToSet(s) \ {O})) \X {TRUE}
  BY <1>3 DEF Covers
<1>5. Missing(c) \subseteq {} \cup (ToSet(s) \ {O})
  BY DEF Missing
<1> QED
  BY <1>4, <1>5, Pairs

(* Executing the rest of an order after a prefix that has the effects of   *)
(* all missing bodies.                                                     *)
LEMMA ReplayRest ==
    ASSUME NEW c, IsChain(c), NEW s \in Seq(Known(c)), Distinct(s),
           NEW m \in 0..Len(s), Missing(c) \subseteq ToSet(Upto(s, m))
    PROVE  ReplayBlocks(c, Executions(c, Upto(s, m)), From(s, m + 1)) = Executions(c, s)
<1> DEFINE f == From(s, m + 1)
           a == Executions(c, Upto(s, m))
           F == Full(c)
           base == SeedAccounts(c)
<1>1. f \in Seq(Known(c))
  BY Rejoined
<1>2. ToSet(f) \cap Missing(c) = {}
  BY RejoinedSets
<1>3. a = ReplayBlocks(F, base, Upto(s, m)) /\ Executions(c, s) = ReplayBlocks(F, base, s)
  BY FullIs
<1> HIDE DEF f, a, F
<1>4. ReplayBlocks(c, a, f) = ReplayBlocks(Full(c), a, f)
  BY <1>1, <1>2, ReplayIsFull
<1>5. ReplayBlocks(F, ReplayBlocks(F, base, Upto(s, m)), f) = ReplayBlocks(F, base, s)
  BY ReplaySplit DEF f
<1> QED
  BY <1>3, <1>4, <1>5 DEF f, a, F

(* Nothing executed yet.                                                   *)
LEMMA ExecutionsNone ==
    ASSUME NEW c, IsChain(c), NEW T, NEW s \in Seq(T)
    PROVE  Executions(c, Upto(s, 0)) = SeedAccounts(c)
<1>1. Upto(s, 0) = <<>>
  BY DEF Upto
<1>2. ReplayBlocks(Full(c), SeedAccounts(c), <<>>) = SeedAccounts(c)
  BY ReplayIsFold, Runs!FoldEmpty
<1> QED
  BY <1>1, <1>2, FullIs

(* A checkpoint that virtual_state advances holds what the longer prefix   *)
(* of the executed order gives.                                            *)
LEMMA AdvanceCaches ==
    ASSUME NEW c, IsChain(c), Known(c) \subseteq Hash, AccountsOK(c), CachesOK(c),
           c.executed # <<>>, NEW c2, c2 = MaybeAdvanceCheckpoint(c)
    PROVE  CachesOK(c2)
<1> DEFINE s == c.executed
           cp_len == IF c.checkpoint = NONE THEN 0 ELSE c.checkpoint.len
           from == IF c.checkpoint = NONE THEN SeedAccounts(c) ELSE c.checkpoint.accounts
           target == Len(c.executed) - FinalityDepth
           middle == SubSeq(c.executed, cp_len + 1, target)
           cp == [len |-> target, last_id |-> c.executed[target],
                  accounts |-> ReplayBlocks(c, from, middle)]
<1>1. SameBut(c, c2, {"checkpoint"})
  BY AdvanceIs
<1>2. CASE Len(c.executed) < cp_len + 2 * FinalityDepth
  BY <1>2 DEF MaybeAdvanceCheckpoint
<1>3. CASE ~(Len(c.executed) < cp_len + 2 * FinalityDepth)
  <2>1. c2.checkpoint = cp
    <3>1. c2 = [c EXCEPT !.checkpoint = cp]
      BY <1>3 DEF MaybeAdvanceCheckpoint
    <3> HIDE DEF cp
    <3> QED
      BY <3>1 DEF IsChain
  <2>2. /\ cp.len = target /\ cp.accounts = ReplayBlocks(c, from, middle)
    OBVIOUS
  <2>3. s \in Seq(Known(c)) /\ Distinct(s)
    BY DEF CachesOK
  <2>4. cp_len \in Nat /\ Len(s) \in Nat /\ FinalityDepth \in Nat \ {0}
    BY <2>3, ChainAssumption DEF AccountsOK, Checkpoints
  <2>5. target \in 0..Len(s) /\ cp_len \in 0..target /\ target # 0
    BY <1>3, <2>4
  <2>6. from = Executions(c, Upto(s, cp_len))
    <3>1. CASE c.checkpoint = NONE
      BY <2>3, <3>1, ExecutionsNone
    <3>2. CASE c.checkpoint # NONE
      BY <3>2 DEF CachesOK
    <3> QED
      BY <3>1, <3>2
  <2> HIDE DEF cp
  <2> DEFINE u == Upto(s, target)
  <2>7. u \in Seq(Known(c)) /\ Distinct(u) /\ Len(u) = target
    BY <2>3, <2>5, Rejoined, RejoinedSets
  <2>8. middle = From(u, cp_len + 1) /\ Upto(u, cp_len) = Upto(s, cp_len)
    <3> HIDE DEF s, cp_len, target
    <3>1. From(Upto(s, target), cp_len + 1) = SubSeq(s, cp_len + 1, target)
          /\ Upto(Upto(s, target), cp_len) = Upto(s, cp_len)
      BY <2>3, <2>5, ReplayLonger
    <3> QED
      BY <3>1 DEF s
  <2>9. Missing(c) \subseteq ToSet(Upto(u, cp_len))
    <3>1. CASE Missing(c) = {}
      BY <3>1
    <3>2. CASE Missing(c) # {}
      <4>1. c.checkpoint # NONE
        BY <3>2 DEF CachesOK
      <4>2. c.checkpoint.accounts = Executions(c, Upto(u, cp_len))
        BY <2>6, <2>8, <4>1
      <4>3. Upto(u, cp_len) \in Seq(Known(c)) /\ Distinct(Upto(u, cp_len))
        <5> HIDE DEF u, cp_len, target
        <5> QED
          BY <2>5, <2>7, Rejoined, RejoinedSets
      <4> QED
        BY <3>2, <4>2, <4>3, MissingExecuted
    <3> QED
      BY <3>1, <3>2
  <2> HIDE DEF s, cp_len, target, middle, from
  <2>10. cp.accounts = Executions(c, u)
    <3> HIDE DEF u
    <3>1. cp_len \in 0..Len(u)
      BY <2>5, <2>7
    <3>2. ReplayBlocks(c, Executions(c, Upto(u, cp_len)), From(u, cp_len + 1)) = Executions(c, u)
      BY <2>7, <2>9, <3>1, ReplayRest
    <3> QED
      BY <2>2, <2>6, <2>8, <3>2
  <2>11. /\ Known(c2) = Known(c) /\ Origin(c2) = Origin(c) /\ Missing(c2) = Missing(c)
         /\ c2.base_accounts = c.base_accounts /\ c2.executed = s /\ c2.state = c.state
         /\ c2.log = c.log /\ NoReplayBase(c2) = NoReplayBase(c) /\ IsChain(c2)
    BY <1>1 DEF SameBut, Origin, Known, Missing, NoReplayBase, s
  <2>12. \A t \in Seq(Known(c)) : Executions(c2, t) = Executions(c, t)
    BY <2>11, ExecutionsStay
  <2>13. cp # NONE
    <3>1. target \in Nat /\ c.executed[target] \in Hash
      BY <2>3, <2>4, <2>5 DEF s
    <3>2. cp.accounts \in AccountSets
      <4>1. from \in AccountSets
        BY SeedTyped DEF from, AccountsOK, Checkpoints
      <4>2. middle \in Seq(Hash)
        <5>1. cp_len + 1 \in Nat \ {0} /\ s \in Seq(Hash) /\ target \in Nat /\ target <= Len(s)
          BY <2>3, <2>4, <2>5
        <5> QED
          BY <5>1, SliceTyped DEF middle, s
      <4> QED
        BY <2>2, <4>1, <4>2, ReplayTyped
    <3>3. cp \in Checkpoints
      BY <3>1, <3>2 DEF cp, Checkpoints
    <3> QED
      BY <3>3, NoneAssumption
  <2>14. /\ c2.executed \in Seq(Known(c2)) /\ Distinct(c2.executed)
         /\ c2.state # NONE => c2.executed # <<>> /\ c2.state = Executions(c2, c2.executed)
    BY <2>3, <2>11, <2>12 DEF CachesOK, s
  <2>15. /\ c2.checkpoint.len <= Len(c2.executed)
         /\ c2.checkpoint.accounts = Executions(c2, Upto(c2.executed, c2.checkpoint.len))
    BY <2>1, <2>2, <2>5, <2>7, <2>10, <2>11, <2>12
  <2>16. ASSUME Missing(c2) # {}
         PROVE  /\ NoReplayBase(c2) /\ c2.checkpoint # NONE
                /\ Missing(c2) \X {TRUE} \subseteq ToSet(c2.checkpoint.accounts)
    <3>1. NoReplayBase(c) /\ c.base_accounts = NONE
      BY <2>11, <2>16 DEF CachesOK, NoReplayBase
    <3>2. ToSet(Upto(u, cp_len)) \subseteq ToSet(u)
      <4>1. cp_len \in 0..Len(u)
        BY <2>5, <2>7
      <4> QED
        BY <2>7, <4>1, RejoinedSets
    <3>3. Missing(c) \subseteq ToSet(u)
      BY <2>9, <3>2
    <3>4. Missing(c) \X {TRUE} \subseteq ToSet(Executions(c, u))
      BY <2>7, <3>1, <3>3, MissingCovered
    <3> QED
      BY <2>1, <2>10, <2>11, <2>13, <3>1, <3>4
  <2>17. Known(c2) \ {Origin(c2)} \subseteq Opened(c2.log).block_txs
    BY <2>11 DEF CachesOK
  <2> QED
    BY <2>14, <2>15, <2>16, <2>17 DEF CachesOK
<1> QED
  BY <1>2, <1>3

(* What a checkpoint and a cached state say about the order, when no       *)
(* reorg reached below the checkpoint.                                     *)
LEMMA FreshFacts ==
    ASSUME NEW c, ChainOK(c), AccountsOK(c), CachesOK(c), ~CheckpointStale(c),
           NEW order, order = TotalOrder(c.engine), c.checkpoint # NONE
    PROVE  /\ c.checkpoint.len \in 0..Len(order)
           /\ c.checkpoint.accounts = Executions(c, Upto(order, c.checkpoint.len))
           /\ Missing(c) \subseteq ToSet(Upto(order, c.checkpoint.len))
<1> DEFINE m == c.checkpoint.len
<1>1. /\ order \in Seq(Known(c)) /\ Distinct(order) /\ Len(order) \in Nat
      /\ IsChain(c) /\ Known(c) \subseteq Hash
  BY ChainFacts
<1>2. m \in Nat /\ ~(Len(order) < m) /\ c.checkpoint.accounts = Executions(c, Upto(order, m))
  BY DEF CheckpointStale, AccountsOK, Checkpoints
<1>3. m \in 0..Len(order)
  BY <1>1, <1>2
<1> HIDE DEF m
<1>4. Upto(order, m) \in Seq(Known(c)) /\ Distinct(Upto(order, m))
  BY <1>1, <1>3, Rejoined, RejoinedSets
<1>5. Missing(c) # {} => Missing(c) \subseteq ToSet(Upto(order, m))
  BY <1>1, <1>2, <1>4, MissingExecuted
<1>6. Missing(c) \subseteq ToSet(Upto(order, m))
  BY <1>5
<1> QED
  BY <1>2, <1>3, <1>6 DEF m

(* However virtual_state comes by the state, it is that of the order.      *)
LEMMA StateForIs ==
    ASSUME NEW c, ChainOK(c), AccountsOK(c), CachesOK(c), ~CheckpointStale(c),
           NEW order, order = TotalOrder(c.engine), ~VirtualStateFails(c)
    PROVE  StateFor(c, order) = Executions(c, order)
<1>1. /\ order \in Seq(Known(c)) /\ Distinct(order) /\ Len(order) \in Nat
      /\ IsChain(c) /\ Known(c) \subseteq Hash
  BY ChainFacts
<1>2. CASE CanExtend(c)
  <2> DEFINE s == c.executed
             m == Len(s)
  <2>1. /\ c.state # NONE /\ IsPrefix(s, order)
        /\ s \in Seq(Known(c)) /\ Distinct(s)
        /\ s # <<>> /\ c.state = Executions(c, s)
    BY <1>2 DEF CanExtend, CachesOK
  <2>2. m \in 0..Len(order) /\ s = Upto(order, m)
    BY <1>1, <2>1 DEF IsPrefix, Upto
  <2>3. Missing(c) \subseteq ToSet(s)
    <3>1. CASE Missing(c) = {}
      BY <3>1
    <3>2. CASE Missing(c) # {}
      <4>1. /\ c.checkpoint # NONE /\ c.checkpoint.len <= m
            /\ c.checkpoint.accounts = Executions(c, Upto(s, c.checkpoint.len))
        BY <2>1, <3>2 DEF CachesOK
      <4>2. c.checkpoint.len \in 0..Len(s)
        BY <2>1, <4>1 DEF AccountsOK, Checkpoints
      <4> DEFINE k == c.checkpoint.len
      <4> HIDE DEF s, m, k
      <4>3. k \in 0..Len(s) /\ s \in Seq(Known(c)) /\ Distinct(s)
        BY <2>1, <4>2 DEF k
      <4>4. Upto(s, k) \in Seq(Known(c))
        BY <4>3, Rejoined
      <4>5. Distinct(Upto(s, k)) /\ ToSet(Upto(s, k)) \subseteq ToSet(s)
        BY <4>3, RejoinedSets
      <4>6. c.checkpoint.accounts = Executions(c, Upto(s, k))
        BY <4>1 DEF k
      <4>7. Missing(c) \subseteq ToSet(Upto(s, k))
        BY <1>1, <3>2, <4>4, <4>5, <4>6, MissingExecuted
      <4> QED
        BY <4>5, <4>7
    <3> QED
      BY <3>1, <3>2
  <2>4. StateFor(c, order) = ReplayBlocks(c, c.state, From(order, m + 1))
    BY <1>2 DEF StateFor
  <2> HIDE DEF s, m
  <2>5. ReplayBlocks(c, Executions(c, Upto(order, m)), From(order, m + 1)) = Executions(c, order)
    BY <1>1, <2>2, <2>3, ReplayRest
  <2> QED
    BY <2>1, <2>2, <2>4, <2>5
<1>3. CASE ~CanExtend(c) /\ CheckpointMatches(c)
  <2> DEFINE m == c.checkpoint.len
  <2>1. c.checkpoint # NONE
    BY <1>3 DEF CheckpointMatches
  <2>2. /\ m \in 0..Len(order)
        /\ c.checkpoint.accounts = Executions(c, Upto(order, m))
        /\ Missing(c) \subseteq ToSet(Upto(order, m))
    BY <2>1, FreshFacts
  <2>3. StateFor(c, order) = ReplayBlocks(c, c.checkpoint.accounts, From(order, m + 1))
    BY <1>3 DEF StateFor
  <2> HIDE DEF m
  <2>4. ReplayBlocks(c, Executions(c, Upto(order, m)), From(order, m + 1)) = Executions(c, order)
    BY <1>1, <2>2, ReplayRest
  <2> QED
    BY <2>2, <2>3, <2>4
<1>4. CASE ~CanExtend(c) /\ ~CheckpointMatches(c)
  <2>1. StateFor(c, order) = ReplayBlocks(c, SeedAccounts(c), order)
    BY <1>4 DEF StateFor
  <2>2. ~NoReplayBase(c)
    BY <1>4 DEF VirtualStateFails
  <2>3. Missing(c) = {}
    BY <2>2 DEF CachesOK
  <2>4. ReplayBlocks(c, SeedAccounts(c), order) = ReplayBlocks(Full(c), SeedAccounts(c), order)
    BY <1>1, <2>3, ReplayIsFull
  <2> QED
    BY <1>1, <2>1, <2>4, FullIs
<1> QED
  BY <1>2, <1>3, <1>4

(* A query leaves caches that agree with the order.                        *)
LEMMA QueryCaches ==
    ASSUME NEW c, ChainOK(c), AccountsOK(c), CachesOK(c), ~CheckpointStale(c),
           NEW c2, c2 = VirtualState(c)
    PROVE  CachesOK(c2)
<1> DEFINE order == TotalOrder(c.engine)
           new == StateFor(c, order)
           c1 == [c EXCEPT !.state = new, !.executed = order]
<1>1. /\ order \in Seq(Known(c)) /\ Distinct(order) /\ Len(order) \in Nat /\ order # <<>>
      /\ IsChain(c) /\ Known(c) \subseteq Hash
  BY ChainFacts
<1>2. CASE VirtualStateFails(c)
  <2>1. c2 = [c EXCEPT !.state = NONE]
    BY <1>2 DEF VirtualState
  <2>2. SameBut(c, c2, {"state"}) /\ c2.state = NONE
    BY <1>1, <2>1 DEF IsChain, SameBut
  <2>3. /\ Known(c2) = Known(c) /\ Origin(c2) = Origin(c) /\ Missing(c2) = Missing(c)
        /\ c2.base_accounts = c.base_accounts /\ c2.executed = c.executed
        /\ c2.checkpoint = c.checkpoint
        /\ c2.log = c.log /\ NoReplayBase(c2) = NoReplayBase(c) /\ IsChain(c2)
    BY <2>2 DEF SameBut, Origin, Known, Missing, NoReplayBase
  <2>4. \A t \in Seq(Known(c)) : Executions(c2, t) = Executions(c, t)
    BY <1>1, <2>3, ExecutionsStay
  <2>5. ASSUME c.checkpoint # NONE, c.executed # <<>>
        PROVE  /\ c.checkpoint.len <= Len(c.executed)
               /\ c.checkpoint.accounts = Executions(c2, Upto(c.executed, c.checkpoint.len))
    <3>1. c.checkpoint.len \in Nat /\ c.executed \in Seq(Known(c))
          /\ c.checkpoint.len <= Len(c.executed)
          /\ c.checkpoint.accounts = Executions(c, Upto(c.executed, c.checkpoint.len))
      BY <2>5 DEF CachesOK, AccountsOK, Checkpoints
    <3>2. Upto(c.executed, c.checkpoint.len) \in Seq(Known(c))
      BY <3>1, SliceTyped
    <3> QED
      BY <2>4, <3>1, <3>2
  <2> QED
    BY <2>2, <2>3, <2>5 DEF CachesOK
<1>3. CASE ~VirtualStateFails(c)
  <2>1. c2 = MaybeAdvanceCheckpoint(c1)
    BY <1>3 DEF VirtualState
  <2>2. StateFor(c, order) = Executions(c, order)
    BY <1>3, StateForIs
  <2>3. SameBut(c, c1, {"state", "executed"}) /\ c1.state = StateFor(c, order) /\ c1.executed = order
    <3> HIDE DEF new, order
    <3>1. c1 = [c EXCEPT !.state = new, !.executed = order]
      OBVIOUS
    <3>2. IsChain(c)
      BY <1>1
    <3> HIDE DEF c1
    <3>3. SameBut(c, c1, {"state", "executed"}) /\ c1.state = new /\ c1.executed = order
      BY <3>1, <3>2 DEF IsChain, SameBut
    <3> QED
      BY <3>3 DEF new
  <2> HIDE DEF c1, order, new
  <2>4. /\ Known(c1) = Known(c) /\ Origin(c1) = Origin(c) /\ Missing(c1) = Missing(c)
        /\ c1.base_accounts = c.base_accounts
        /\ c1.checkpoint = c.checkpoint
        /\ c1.log = c.log /\ NoReplayBase(c1) = NoReplayBase(c) /\ IsChain(c1)
    BY <2>3 DEF SameBut, Origin, Known, Missing, NoReplayBase
  <2>5. \A t \in Seq(Known(c)) : Executions(c1, t) = Executions(c, t)
    BY <1>1, <2>4, ExecutionsStay
  <2>6. ASSUME c.checkpoint # NONE
        PROVE  /\ c.checkpoint.len <= Len(order)
               /\ c.checkpoint.accounts = Executions(c1, Upto(order, c.checkpoint.len))
    <3>1. /\ c.checkpoint.len \in 0..Len(order)
          /\ c.checkpoint.accounts = Executions(c, Upto(order, c.checkpoint.len))
      BY <2>6, FreshFacts DEF order
    <3>2. Upto(order, c.checkpoint.len) \in Seq(Known(c))
      BY <1>1, <3>1, Rejoined
    <3> QED
      BY <1>1, <2>5, <3>1, <3>2
  <2>7. CachesOK(c1)
    <3>1. /\ c1.executed \in Seq(Known(c1)) /\ Distinct(c1.executed)
          /\ c1.executed # <<>> /\ c1.state = Executions(c1, c1.executed)
      BY <1>1, <2>2, <2>3, <2>4, <2>5
    <3>2. c1.checkpoint # NONE =>
            /\ c1.checkpoint.len <= Len(c1.executed)
            /\ c1.checkpoint.accounts = Executions(c1, Upto(c1.executed, c1.checkpoint.len))
      BY <2>3, <2>4, <2>6
    <3>3. Missing(c1) # {} =>
            /\ NoReplayBase(c1) /\ c1.checkpoint # NONE
            /\ Missing(c1) \X {TRUE} \subseteq ToSet(c1.checkpoint.accounts)
      BY <2>4 DEF CachesOK
    <3>4. Known(c1) \ {Origin(c1)} \subseteq Opened(c1.log).block_txs
      BY <2>4 DEF CachesOK
    <3> QED
      BY <3>1, <3>2, <3>3, <3>4 DEF CachesOK
  <2>8. AccountsOK(c1)
    <3>1. StateFor(c, order) \in AccountSets /\ order \in Seq(Hash)
      BY <1>1, StatesTyped DEF order, ChainOK
    <3> QED
      BY <2>3, <2>4, <3>1 DEF AccountsOK
  <2> QED
    BY <1>1, <2>1, <2>3, <2>4, <2>7, <2>8, AdvanceCaches
<1> QED
  BY <1>2, <1>3

(* The caches of a chain that got a block more.                            *)
LEMMA AppendCaches ==
    ASSUME NEW c, ChainOK(c), AccountsOK(c), CachesOK(c), NEW block, block.txs, block.id \notin Known(c),
           NEW c2, SameBut(c, c2, {"engine", "headers", "block_txs", "tips", "log"}),
           Appended(c, c2, block)
    PROVE  CachesOK(c2)
<1>1. IsChain(c) /\ IsChain(c2)
  BY ChainFacts DEF SameBut
<1>2. /\ Known(c2) = Known(c) \cup {block.id} /\ Origin(c2) = Origin(c)
      /\ c2.block_txs = c.block_txs \cup {block.id}
      /\ Opened(c2.log).block_txs = Opened(c.log).block_txs \cup {block.id}
  BY DEF Appended
<1>3. /\ c2.base_accounts = c.base_accounts /\ c2.executed = c.executed
      /\ c2.checkpoint = c.checkpoint /\ c2.state = c.state
      /\ NoReplayBase(c2) = NoReplayBase(c)
  BY DEF SameBut, NoReplayBase
<1>4. Missing(c2) = Missing(c)
  BY <1>2 DEF Missing, CachesOK
<1>5. \A t \in Seq(Known(c)) : Executions(c2, t) = Executions(c, t)
  BY <1>1, <1>2, <1>3, ExecutionsStay
<1>6. c.executed \in Seq(Known(c)) /\ c.executed \in Seq(Known(c2)) /\ Distinct(c.executed)
  BY <1>2 DEF CachesOK
<1>7. ASSUME c.checkpoint # NONE, c.executed # <<>>
      PROVE  /\ c.checkpoint.len <= Len(c.executed)
             /\ c.checkpoint.accounts = Executions(c2, Upto(c.executed, c.checkpoint.len))
  <2>1. c.checkpoint.len \in Nat
        /\ c.checkpoint.len <= Len(c.executed)
        /\ c.checkpoint.accounts = Executions(c, Upto(c.executed, c.checkpoint.len))
    BY <1>7 DEF CachesOK, AccountsOK, Checkpoints
  <2>2. Upto(c.executed, c.checkpoint.len) \in Seq(Known(c))
    BY <1>6, <2>1, SliceTyped
  <2> QED
    BY <1>5, <2>1, <2>2
<1>8. c.state # NONE => c.executed # <<>> /\ c.state = Executions(c2, c.executed)
  BY <1>5, <1>6 DEF CachesOK
<1>9. Known(c2) \ {Origin(c2)} \subseteq Opened(c2.log).block_txs
  BY <1>2 DEF CachesOK
<1>10. Missing(c2) # {} =>
         /\ NoReplayBase(c2) /\ c2.checkpoint # NONE
         /\ Missing(c2) \X {TRUE} \subseteq ToSet(c2.checkpoint.accounts)
  BY <1>3, <1>4 DEF CachesOK
<1> QED
  BY <1>3, <1>6, <1>7, <1>8, <1>9, <1>10 DEF CachesOK

(* Bodies are dropped only of blocks that the checkpoint has executed.     *)
LEMMA DropCaches ==
    ASSUME NEW c, ChainOK(c), AccountsOK(c), CachesOK(c), ~PruneTxsPanics(c),
           NEW c2, c2 = PruneFinalizedTransactions(c),
           c.base_accounts = NONE \/ c2.block_txs = c.block_txs
    PROVE  CachesOK(c2)
<1> DEFINE k == c.checkpoint.len
           u == Upto(c.executed, k)
           dropped == c.block_txs \cap ToSet(u)
<1>1. IsChain(c) /\ Known(c) \subseteq Hash
  BY ChainFacts
<1>2. CASE c.checkpoint = NONE \/ dropped = {}
  BY <1>2 DEF PruneFinalizedTransactions
<1>3. CASE ~(c.checkpoint = NONE \/ dropped = {})
  <2>1. /\ SameBut(c, c2, {"block_txs", "history_pruned", "state", "executed"})
        /\ c2.block_txs = c.block_txs \ dropped
        /\ c2.history_pruned /\ c2.state = NONE /\ c2.executed = <<>>
    <3>1. c2 = [c EXCEPT !.block_txs = @ \ dropped, !.history_pruned = TRUE,
                         !.state = NONE, !.executed = <<>>]
      BY <1>3 DEF PruneFinalizedTransactions
    <3> HIDE DEF dropped
    <3> QED
      BY <1>1, <3>1 DEF SameBut, IsChain
  <2>2. c.base_accounts = NONE
    BY <1>3, <2>1
  <2>3. k \in 0..Len(c.executed) /\ c.checkpoint # NONE
    BY <1>3 DEF PruneTxsPanics, AccountsOK, Checkpoints
  <2>4. c.executed \in Seq(Known(c)) /\ Distinct(c.executed)
    BY DEF CachesOK
  <2> HIDE DEF k
  <2>5. u \in Seq(Known(c)) /\ Distinct(u) /\ ToSet(u) \subseteq ToSet(c.executed)
    BY <2>3, <2>4, Rejoined, RejoinedSets
  <2>6. c.executed # <<>>
    <3>1. ToSet(u) # {}
      BY <1>3
    <3>2. ToSet(<<>>) = {}
      BY DEF ToSet
    <3> QED
      BY <2>5, <3>1, <3>2
  <2>7. c.checkpoint.accounts = Executions(c, u)
    BY <2>3, <2>6 DEF CachesOK, k
  <2>8. Missing(c) \subseteq ToSet(u)
    <3>1. Missing(c) # {} => Missing(c) \subseteq ToSet(u)
      BY <1>1, <2>5, <2>7, MissingExecuted
    <3> QED
      BY <3>1
  <2> HIDE DEF u
  <2>9. /\ Known(c2) = Known(c) /\ Origin(c2) = Origin(c) /\ IsChain(c2)
        /\ c2.base_accounts = NONE /\ c2.checkpoint = c.checkpoint /\ c2.log = c.log
    BY <2>1, <2>2 DEF SameBut, Known, Origin
  <2>10. Missing(c2) \subseteq ToSet(u)
    BY <2>1, <2>8, <2>9 DEF Missing
  <2>11. Missing(c2) \X {TRUE} \subseteq ToSet(c.checkpoint.accounts)
    <3>1. Missing(c2) \X {TRUE} \subseteq ToSet(Executions(c2, u))
      BY <1>1, <2>5, <2>9, <2>10, MissingCovered
    <3>2. Executions(c2, u) = Executions(c, u)
      BY <1>1, <2>2, <2>5, <2>9, ExecutionsStay
    <3> QED
      BY <2>7, <3>1, <3>2
  <2>12. NoReplayBase(c2)
    BY <2>1, <2>9 DEF NoReplayBase
  <2>13. <<>> \in Seq(Known(c)) /\ Distinct(<<>>)
    BY DEF Distinct
  <2>14. Known(c2) \ {Origin(c2)} \subseteq Opened(c2.log).block_txs
    BY <2>9 DEF CachesOK
  <2> QED
    BY <2>1, <2>3, <2>9, <2>11, <2>12, <2>13, <2>14 DEF CachesOK
<1> QED
  BY <1>2, <1>3

(* What is executed into the new base is the order up to the pruning       *)
(* point, and no body of what is kept is missing.                          *)
LEMMA NewBaseIs ==
    ASSUME NEW c, ChainOK(c), AccountsOK(c), CachesOK(c), ~CheckpointStale(c),
           NEW order, order = TotalOrder(c.engine), NEW i, i = PruneIndex(c), i # 0, ~PruneFails(c)
    PROVE  /\ NewBase(c) = Executions(c, Upto(order, i))
           /\ Missing(c) \subseteq ToSet(Upto(order, i))
<1> DEFINE u == Upto(order, i)
<1>1. /\ order \in Seq(Known(c)) /\ Distinct(order) /\ Len(order) \in Nat
      /\ IsChain(c) /\ Known(c) \subseteq Hash
  BY ChainFacts
<1>2. i \in 0..Len(order)
  BY <1>1, PruneIndexRange
<1>3. u \in Seq(Known(c)) /\ Distinct(u) /\ Len(u) = i
  BY <1>1, <1>2, Rejoined, RejoinedSets
<1>4. CASE NoReplayBase(c)
  <2> DEFINE m == c.checkpoint.len
  <2>1. c.checkpoint # NONE /\ ~(m > i)
    BY <1>4 DEF PruneFails
  <2>2. /\ m \in 0..Len(order)
        /\ c.checkpoint.accounts = Executions(c, Upto(order, m))
        /\ Missing(c) \subseteq ToSet(Upto(order, m))
    BY <2>1, FreshFacts
  <2>3. m \in 0..i
    BY <1>1, <1>2, <2>1, <2>2
  <2>4. NewBase(c) = ReplayBlocks(c, c.checkpoint.accounts, From(u, m + 1))
    BY <1>4 DEF NewBase
  <2> HIDE DEF m
  <2>5. Upto(u, m) = Upto(order, m)
    BY <1>1, <1>2, <2>3, ReplayLonger
  <2> HIDE DEF u
  <2>6. ReplayBlocks(c, Executions(c, Upto(u, m)), From(u, m + 1)) = Executions(c, u)
    BY <1>1, <1>3, <2>2, <2>3, <2>5, ReplayRest
  <2>7. ToSet(Upto(u, m)) \subseteq ToSet(u)
    BY <1>3, <2>3, RejoinedSets
  <2> QED
    BY <2>2, <2>4, <2>5, <2>6, <2>7 DEF u
<1>5. CASE ~NoReplayBase(c)
  <2>1. Missing(c) = {}
    BY <1>5 DEF CachesOK
  <2>2. NewBase(c) = ReplayBlocks(c, SeedAccounts(c), u)
    BY <1>5 DEF NewBase
  <2> HIDE DEF u
  <2>3. ReplayBlocks(c, SeedAccounts(c), u) = ReplayBlocks(Full(c), SeedAccounts(c), u)
    BY <1>1, <1>3, <2>1, ReplayIsFull
  <2>4. Executions(c, u) = ReplayBlocks(Full(c), SeedAccounts(c), u)
    BY <1>1, FullIs
  <2> QED
    BY <2>1, <2>2, <2>3, <2>4 DEF u
<1> QED
  BY <1>4, <1>5

(* The caches are empty after a prune, and nothing kept lacks its body.    *)
LEMMA PruneCaches ==
    ASSUME NEW c, ChainOK(c), PastComplete(c.engine), AccountsOK(c), CachesOK(c),
           ~CheckpointStale(c), PruneIndex(c) # 0, ~PruneFails(c), CleanCut(c),
           NEW p, p = PointOf(c), NEW c2, PrunedAt(c, p, c2)
    PROVE  CachesOK(c2)
<1> DEFINE order == TotalOrder(c.engine)
           i == PruneIndex(c)
           suffix == SuffixOf(c)
           O == Origin(c)
<1>1. /\ order \in Seq(Known(c)) /\ Distinct(order) /\ Len(order) \in Nat
      /\ Known(c) = Blocks(c.engine) /\ O = c.engine.genesis
  BY ChainFacts DEF ChainOK, Origin
<1>2. i \in 0..Len(order)
  BY <1>1, PruneIndexRange
<1>3. Missing(c) \subseteq ToSet(Upto(order, i))
  BY NewBaseIs
<1>4. suffix = From(order, i + 1)
  BY DEF SuffixOf
<1>5. Kept(c) = {p} \cup ToSet(suffix)
  BY DEF Kept
<1>6. /\ Kept(c) \subseteq Known(c)
      /\ \A b \in Kept(c) \ {p} : b # O
  BY <1>1, KeptFacts
<1> HIDE DEF order, i, suffix, O
<1>7. ToSet(suffix) \cap ToSet(Upto(order, i)) = {}
  BY <1>1, <1>2, <1>4, RejoinedSets
<1>8. /\ Known(c2) = Kept(c) /\ Origin(c2) = p
      /\ c2.block_txs = c.block_txs \cap Kept(c)
      /\ c2.state = NONE /\ c2.executed = <<>> /\ c2.checkpoint = NONE
      /\ Opened(c2.log).block_txs = c2.block_txs \ {p}
  BY DEF PrunedAt
<1>9. \A b \in Kept(c) \ {p} : b \in c.block_txs
  BY <1>3, <1>5, <1>6, <1>7 DEF Missing, O
<1>10. Missing(c2) = {}
  BY <1>8, <1>9 DEF Missing
<1>11. Known(c2) \ {Origin(c2)} \subseteq Opened(c2.log).block_txs
  BY <1>8, <1>9
<1>12. <<>> \in Seq(Known(c2)) /\ Distinct(<<>>)
  BY DEF Distinct
<1> QED
  BY <1>8, <1>10, <1>11, <1>12 DEF CachesOK

(* A restart reads all bodies from the log.                                *)
LEMMA RestartCaches ==
    ASSUME NEW c, ChainOK(c), ReplayOK(c), CachesOK(c), NEW c2, c2 = Open(c.log)
    PROVE  CachesOK(c2)
<1>1. /\ Durable(c2) = Durable(c) /\ c2.log = c.log
      /\ SameBut(Opened(c.log), c2, {"log"})
  BY OpenKeeps
<1>2. Known(c2) = Known(c) /\ Origin(c2) = Origin(c)
  BY <1>1, DurableIs
<1>3. /\ c2.state = NONE /\ c2.executed = <<>> /\ c2.checkpoint = NONE
      /\ c2.block_txs = Opened(c.log).block_txs
  BY <1>1 DEF SameBut, ReplayOK
<1>4. Known(c) \ {Origin(c)} \subseteq Opened(c.log).block_txs
  BY DEF CachesOK
<1>5. Missing(c2) = {}
  BY <1>2, <1>3, <1>4 DEF Missing
<1>6. <<>> \in Seq(Known(c2)) /\ Distinct(<<>>)
  BY DEF Distinct
<1> QED
  BY <1>1, <1>2, <1>3, <1>4, <1>5, <1>6 DEF CachesOK

(* The order up to the pruning point.                                      *)
LEMMA PointFacts ==
    ASSUME NEW c, Honest(c.engine), PruneIndex(c) # 0, NEW p, p = PointOf(c)
    PROVE  /\ ToSet(Upto(TotalOrder(c.engine), PruneIndex(c))) = c.engine.past[p] \cup {p}
           /\ p \in Blocks(c.engine) /\ p # c.engine.genesis
<1> DEFINE e == c.engine
           order == TotalOrder(e)
           i == PruneIndex(c)
           suffix == SuffixOf(c)
<1>1. e = c.engine /\ order = TotalOrder(e) /\ i = PruneIndex(c) /\ suffix = SuffixOf(c)
  OBVIOUS
<1> HIDE DEF e, order, i, suffix
<1>2. /\ ToSet(Upto(order, i)) = e.past[p] \cup {p}
      /\ p \in Blocks(e) /\ p # e.genesis
  BY <1>1, CutFacts
<1> QED
  BY <1>1, <1>2

(* The base after a prune holds the past of the pruning point: the past of *)
(* the origin before, and the order up to the point.                       *)
LEMMA PruneBase ==
    ASSUME NEW c, ChainInv(c), CachesOK(c), ~CheckpointStale(c),
           PruneIndex(c) # 0, ~PruneFails(c), CleanCut(c),
           NEW n, NetOK(n), Linked(c, n), BaseOK(c, n),
           NEW p, p = PointOf(c), NEW c2, PrunedAt(c, p, c2)
    PROVE  BaseOK(c2, n)
<1> DEFINE order == TotalOrder(c.engine)
           i == PruneIndex(c)
           O == Origin(c)
           past == n.engine.past
           u == Upto(order, i)
<1>1. /\ ChainOK(c) /\ PastComplete(c.engine) /\ AccountsOK(c) /\ Honest(c.engine)
      /\ IsChain(c) /\ Known(c) \subseteq Hash
      /\ Known(c) = Blocks(c.engine) /\ O = c.engine.genesis
  BY DEF ChainInv, ChainOK, Origin, Honest, EngineOK, TypesOK
<1>2. /\ order \in Seq(Known(c)) /\ Distinct(order) /\ Len(order) \in Nat
  BY <1>1, ChainFacts
<1>3. NewBase(c) = Executions(c, u)
  BY <1>1, NewBaseIs
<1>4. NewBase(c) \in AccountSets
  BY <1>1, StatesTyped
<1>5. c2.base_accounts = NewBase(c) /\ Origin(c2) = p /\ NewBase(c) # NONE
  BY <1>4, NoneAssumption DEF PrunedAt
<1> SUFFICES ASSUME p \in Known(n)
             PROVE  Covers(NewBase(c), (past[p] \cup {p}) \ {Genesis})
  BY <1>5 DEF BaseOK
<1>6. /\ ToSet(u) = c.engine.past[p] \cup {p}
      /\ p \in Known(c) /\ p # O
  <2>1. /\ ToSet(Upto(TotalOrder(c.engine), PruneIndex(c))) = c.engine.past[p] \cup {p}
        /\ p \in Blocks(c.engine) /\ p # c.engine.genesis
    BY <1>1, PointFacts
  <2> QED
    BY <1>1, <2>1
<1>7. /\ O \in Known(n) /\ past[p] = c.engine.past[p] \cup past[O]
      /\ Known(c) \cap past[O] = {}
  BY <1>6 DEF Linked
<1>8. u \in Seq(Known(c)) /\ Distinct(u)
  <2>1. i \in 0..Len(order)
    BY <1>2, PruneIndexRange
  <2> HIDE DEF order, i
  <2> QED
    BY <1>2, <2>1, Rejoined, RejoinedSets
<1>9. O \in c.engine.past[p]
  BY <1>1, <1>6, HonestFacts
<1>10. \A x \in Known(n) : x # Genesis => Genesis \in past[x]
  BY HonestFacts DEF NetOK
<1>11. past[Genesis] = {}
  BY HonestFacts DEF NetOK
<1> HIDE DEF order, i, past, u
<1>12. CASE c.base_accounts = NONE
  <2>1. O = Genesis
    BY <1>12 DEF BaseOK, O
  <2>2. Covers(SeedAccounts(c), {})
    BY <1>12, CoversNone DEF SeedAccounts
  <2>3. {} \cap (Known(c) \ {O}) = {}
    OBVIOUS
  <2>4. Covers(Executions(c, u), {} \cup (ToSet(u) \ {O}))
    <3> HIDE DEF O
    <3>1. O = Origin(c)
      BY DEF O
    <3> QED
      BY <1>1, <1>8, <2>2, <2>3, <3>1, ExecutionsCover
  <2>5. {} \cup (ToSet(u) \ {O}) = (past[p] \cup {p}) \ {Genesis}
    BY <1>6, <1>7, <1>11, <2>1
  <2> QED
    BY <1>3, <2>4, <2>5
<1>13. CASE c.base_accounts # NONE
  <2> DEFINE S == (past[O] \cup {O}) \ {Genesis}
  <2>1. Covers(SeedAccounts(c), S)
    BY <1>7, <1>13 DEF BaseOK, SeedAccounts, past
  <2>2. S \cap (Known(c) \ {O}) = {}
    BY <1>7
  <2>3. Covers(Executions(c, u), S \cup (ToSet(u) \ {O}))
    <3> HIDE DEF O, S
    <3>1. O = Origin(c)
      BY DEF O
    <3> QED
      BY <1>1, <1>8, <2>1, <2>2, <3>1, ExecutionsCover
  <2>4. S \cup (ToSet(u) \ {O}) = (past[p] \cup {p}) \ {Genesis}
    <3>1. O # Genesis => Genesis \notin ToSet(u) \ {O}
      <4>1. O # Genesis => Genesis \notin Known(c)
        BY <1>7, <1>10
      <4>2. ToSet(u) \subseteq Known(c)
        BY <1>8 DEF ToSet
      <4> QED
        BY <4>1, <4>2
    <3> HIDE DEF O
    <3> QED
      BY <1>6, <1>7, <1>9, <3>1
  <2> QED
    BY <1>3, <2>3, <2>4
<1> QED
  BY <1>12, <1>13

(* The past of what the network has does not change.                       *)
LEMMA BaseGrows ==
    ASSUME NEW c, ChainOK(c), NEW n, NetOK(n), Linked(c, n), BaseOK(c, n),
           NEW block, block.id \notin n.mined, NEW n2, NetOK(n2), Grown(n, n2, block)
    PROVE  BaseOK(c, n2)
<1> DEFINE O == Origin(c)
<1>1. O # block.id
  BY ChainFacts DEF Linked
<1>2. CASE n2.engine = n.engine /\ n2.headers = n.headers
  BY <1>2 DEF BaseOK, Known
<1>3. CASE /\ Known(n2) = Known(n) \cup {block.id}
           /\ Added(n.engine, block.id, block.header.parents, n2.engine)
  <2>1. O \in Known(n2) => O \in Known(n) /\ n2.engine.past[O] = n.engine.past[O]
    BY <1>1, <1>3 DEF Added, NetOK
  <2> QED
    BY <2>1 DEF BaseOK
<1> QED
  BY <1>2, <1>3 DEF Grown

(* Nothing has been executed at first.                                     *)
LEMMA AccountsStart == Init => AccountsInv
<1> SUFFICES ASSUME Init PROVE CachesOK(chain) /\ BaseOK(chain, network)
  BY DEF AccountsInv
<1>1. /\ chain.state = NONE /\ chain.executed = <<>> /\ chain.checkpoint = NONE
      /\ chain.base_accounts = NONE /\ Origin(chain) = Genesis /\ Known(chain) = {Genesis}
  BY DEF Init, NewChain, Origin, Known, NewEngine
<1>2. Missing(chain) = {} /\ Known(chain) \ {Origin(chain)} = {}
  BY <1>1 DEF Missing
<1>3. <<>> \in Seq(Known(chain)) /\ Distinct(<<>>)
  BY DEF Distinct
<1> QED
  BY <1>1, <1>2, <1>3 DEF CachesOK, BaseOK

(* What no step but a peer's touches in the chain or the node's in the     *)
(* network.                                                                *)
LEMMA SameBase ==
    ASSUME NEW c, NEW n, BaseOK(c, n), NEW c2,
           Origin(c2) = Origin(c), c2.base_accounts = c.base_accounts
    PROVE  BaseOK(c2, n)
BY DEF BaseOK

(* Every step, while nothing has happened that sets the caches and the     *)
(* order apart.                                                            *)
LEMMA AccountsStep ==
    ASSUME NodeOK(chain, network), NodeOK(chain', network'),
           CachesOK(chain), BaseOK(chain, network), Next, events' = {}
    PROVE  CachesOK(chain') /\ BaseOK(chain', network')
<1>1. /\ ChainInv(chain) /\ ChainOK(chain) /\ PastComplete(chain.engine)
      /\ ReplayOK(chain) /\ AccountsOK(chain)
      /\ NetOK(network) /\ Linked(chain, network) /\ NetOK(network')
  BY DEF NodeOK, ChainInv
<1>2. IsChain(chain)
  BY <1>1, ChainFacts
<1>3. ASSUME NEW b \in Hash, NEW ps \in (SUBSET Known(network)) \ {{}}, PeerMines(b, ps)
      PROVE  CachesOK(chain') /\ BaseOK(chain', network')
  <2> DEFINE block == [id     |-> b,
                       header |-> HeaderOn(network, ps, FindSelectedParent(network.engine, ps)),
                       txs    |-> TRUE]
  <2>1. /\ b \in Hash \ network.mined /\ IsAntichain(network.engine, ps)
        /\ network' = NetworkAccept(network, block) /\ chain' = chain
    BY <1>3 DEF PeerMines, Fresh
  <2>2. block.id = b /\ block.header.parents = ps
    BY DEF HeaderOn
  <2> HIDE DEF block
  <2>3. Grown(network, network', block)
    BY <1>1, <2>1, <2>2, NetAccepts
  <2>4. BaseOK(chain, network')
    BY <1>1, <2>1, <2>2, <2>3, BaseGrows
  <2> QED
    BY <2>1, <2>4
<1>4. ASSUME NEW b \in Hash, Mine(b) PROVE CachesOK(chain') /\ BaseOK(chain', network')
  <2> DEFINE block == BuildBlock(chain, b)
  <2>1. /\ b \in Hash \ network.mined /\ ~chain.poisoned
        /\ chain' = MineBlock(chain, b) /\ network' = NetworkAccept(network, block)
    BY <1>4 DEF Mine, Fresh, Alive
  <2>2. block = BuildBlock(chain, b)
    OBVIOUS
  <2> HIDE DEF block
  <2>3. /\ Grown(network, network', block)
        /\ block.id = b /\ block.txs /\ b \notin Known(chain)
        /\ SameBut(chain, chain', {"engine", "headers", "block_txs", "tips", "log"})
        /\ Appended(chain, chain', block)
    BY <1>1, <2>1, <2>2, MineKeeps
  <2>4. CachesOK(chain')
    BY <1>1, <2>3, AppendCaches
  <2>5. BaseOK(chain, network')
    BY <1>1, <2>1, <2>3, BaseGrows
  <2>6. Origin(chain') = Origin(chain) /\ chain'.base_accounts = chain.base_accounts
    BY <2>3 DEF Appended, SameBut
  <2> QED
    BY <2>4, <2>5, <2>6, SameBase
<1>5. ASSUME NEW b \in Known(network), Receive(b)
      PROVE  CachesOK(chain') /\ BaseOK(chain', network')
  <2> DEFINE block == NetworkBlock(b)
  <2>1. /\ ~chain.poisoned /\ chain' = Accept(chain, block) /\ network' = network
        /\ block.id = b /\ block.header = network.headers[b] /\ block.txs
        /\ b \notin Known(chain)
    BY <1>5 DEF Receive, Alive, NetworkBlock
  <2> HIDE DEF block
  <2>2. CASE AcceptResult(chain, block) # "ok"
    <3>1. chain' = chain
      BY <2>1, <2>2 DEF Accept
    <3> QED
      BY <2>1, <3>1
  <2>3. CASE AcceptResult(chain, block) = "ok"
    <3>1. chain' = AppendAndApply(chain, block)
      BY <2>1, <2>3 DEF Accept
    <3>2. /\ SameBut(chain, chain', {"engine", "headers", "block_txs", "tips", "log"})
          /\ Appended(chain, chain', block)
      BY <1>1, <2>1, <2>3, <3>1, ReceiveKeeps
    <3>3. CachesOK(chain')
      BY <1>1, <2>1, <3>2, AppendCaches
    <3>4. Origin(chain') = Origin(chain) /\ chain'.base_accounts = chain.base_accounts
      BY <3>2 DEF Appended, SameBut
    <3> QED
      BY <2>1, <3>3, <3>4, SameBase
  <2> QED
    BY <2>2, <2>3
<1>6. CASE QueryState
  <2>1. chain' = VirtualState(chain) /\ network' = network /\ ~CheckpointStale(chain)
    BY <1>6 DEF QueryState, Event
  <2>2. CachesOK(chain')
    BY <1>1, <2>1, QueryCaches
  <2>3. SameBut(chain, chain', {"state", "executed", "checkpoint"})
    BY <1>2, <2>1, VirtualStateIs
  <2>4. Origin(chain') = Origin(chain) /\ chain'.base_accounts = chain.base_accounts
    BY <2>3 DEF SameBut, Origin
  <2> QED
    BY <2>1, <2>2, <2>4, SameBase
<1>7. CASE PruneHistory
  <2>1. /\ chain' = Prune(chain) /\ network' = network /\ ~chain.poisoned
        /\ CleanCut(chain) /\ ~CheckpointStale(chain)
    BY <1>7 DEF PruneHistory, Alive, Event
  <2>2. CASE PruneIndex(chain) = 0 \/ PruneFails(chain)
    <3>1. chain' = chain
      BY <2>1, <2>2, PruneIs
    <3> QED
      BY <2>1, <3>1
  <2>3. CASE PruneIndex(chain) # 0 /\ ~PruneFails(chain)
    <3>1. NewBase(chain) # NONE
      BY <1>1, <2>3, StatesTyped, NoneAssumption DEF ChainOK
    <3>2. PrunedAt(chain, PointOf(chain), chain')
      BY <1>1, <2>1, <2>3, <3>1, PruneKeeps
    <3>3. CachesOK(chain')
      BY <1>1, <2>1, <2>3, <3>2, PruneCaches
    <3>4. BaseOK(chain', network)
      BY <1>1, <2>1, <2>3, <3>2, PruneBase
    <3> QED
      BY <2>1, <3>3, <3>4
  <2> QED
    BY <2>2, <2>3
<1>8. CASE DropBodies
  <2>1. /\ chain' = IF PruneTxsPanics(chain) THEN [chain EXCEPT !.poisoned = TRUE]
                    ELSE PruneFinalizedTransactions(chain)
        /\ network' = network
        /\ chain.base_accounts = NONE \/ chain'.block_txs = chain.block_txs
    BY <1>8 DEF DropBodies, Event
  <2>2. CASE PruneTxsPanics(chain)
    <3>1. SameBut(chain, chain', {"poisoned"})
      BY <1>2, <2>1, <2>2 DEF SameBut, IsChain
    <3>2. CachesOK(chain') /\ BaseOK(chain', network)
      <4>1. /\ Known(chain') = Known(chain) /\ Origin(chain') = Origin(chain)
            /\ Missing(chain') = Missing(chain) /\ IsChain(chain')
            /\ chain'.base_accounts = chain.base_accounts /\ chain'.executed = chain.executed
            /\ chain'.checkpoint = chain.checkpoint /\ chain'.state = chain.state
            /\ chain'.log = chain.log /\ NoReplayBase(chain') = NoReplayBase(chain)
        BY <3>1 DEF SameBut, Known, Origin, Missing, NoReplayBase
      <4>2. \A t \in Seq(Known(chain)) : Executions(chain', t) = Executions(chain, t)
        BY <1>2, <4>1, ExecutionsStay
      <4>3. chain.executed = <<>>
        <5>1. /\ chain.checkpoint # NONE /\ Len(chain.executed) < chain.checkpoint.len
              /\ Len(chain.executed) \in Nat /\ chain.checkpoint.len \in Nat
          BY <1>1, <2>2 DEF PruneTxsPanics, AccountsOK, Checkpoints
        <5> QED
          BY <5>1 DEF CachesOK
      <4>4. CachesOK(chain')
        BY <4>1, <4>2, <4>3 DEF CachesOK
      <4> QED
        BY <4>1, <4>4, SameBase
    <3> QED
      BY <2>1, <3>2
  <2>3. CASE ~PruneTxsPanics(chain)
    <3>1. chain' = PruneFinalizedTransactions(chain)
      BY <2>1, <2>3
    <3>2. CachesOK(chain')
      BY <1>1, <2>1, <2>3, <3>1, DropCaches
    <3>3. SameBut(chain, chain', {"block_txs", "history_pruned", "state", "executed"})
      BY <1>2, <3>1, DropIs
    <3>4. Origin(chain') = Origin(chain) /\ chain'.base_accounts = chain.base_accounts
      BY <3>3 DEF SameBut, Origin
    <3> QED
      BY <2>1, <3>2, <3>4, SameBase
  <2> QED
    BY <2>2, <2>3
<1>9. CASE Restart
  <2>1. chain' = Open(chain.log) /\ network' = network
    BY <1>9 DEF Restart
  <2>2. CachesOK(chain')
    BY <1>1, <2>1, RestartCaches
  <2>3. Durable(chain') = Durable(chain)
    BY <1>1, <2>1, OpenKeeps
  <2>4. Origin(chain') = Origin(chain) /\ chain'.base_accounts = chain.base_accounts
    BY <2>3, DurableIs
  <2> QED
    BY <2>1, <2>2, <2>4, SameBase
<1> QED
  BY <1>3, <1>4, <1>5, <1>6, <1>7, <1>8, <1>9 DEF Next

(* The invariant about accounts, given that about the DAG.                 *)
THEOREM AccountsAlways == Spec => []AccountsInv
<1>1. NodeInv /\ NodeInv' /\ AccountsInv /\ [Next]_vars => AccountsInv'
  <2> SUFFICES ASSUME NodeInv, NodeInv', AccountsInv, [Next]_vars, events' = {}
               PROVE  CachesOK(chain') /\ BaseOK(chain', network')
    BY DEF AccountsInv
  <2>1. CASE UNCHANGED vars
    BY <2>1 DEF AccountsInv, vars
  <2>2. CASE Next
    <3>1. events = {}
      BY <2>2 DEF Next, PeerMines, Mine, Receive, QueryState, PruneHistory, DropBodies, Restart
    <3>2. /\ NodeOK(chain, network) /\ NodeOK(chain', network')
          /\ CachesOK(chain) /\ BaseOK(chain, network)
      BY <3>1 DEF NodeInv, AccountsInv
    <3> QED
      BY <2>2, <3>2, AccountsStep
  <2> QED
    BY <2>1, <2>2
<1> QED
  BY <1>1, AccountsStart, NodeAlways, PTL DEF Spec

(* The cached state is the execution of the cached order with all bodies,  *)
(* however it was extended, rebuilt or lost, in any DAG.                   *)
THEOREM StateAlwaysFollows == Spec => []StateFollowsOrder
<1>1. AccountsInv => StateFollowsOrder
  BY DEF AccountsInv, CachesOK, StateFollowsOrder
<1> QED
  BY <1>1, AccountsAlways, PTL

(* The base holds each block of the past of the origin once, with its      *)
(* transactions, for any sequence of prunes, wherever the network has the  *)
(* origin (what other nodes refuse has no past there).                     *)
THEOREM BaseAlwaysFaithful == Spec => [](Origin(chain) \in Known(network) => BaseFaithful)
<1>1. NodeInv /\ AccountsInv => (Origin(chain) \in Known(network) => BaseFaithful)
  <2> SUFFICES ASSUME NodeInv, AccountsInv, Origin(chain) \in Known(network),
                      chain.base_accounts # NONE, events = {}
               PROVE  BaseIsPast
    BY DEF BaseFaithful
  <2> DEFINE past == network.engine.past[Origin(chain)] \cup {Origin(chain)}
             a == chain.base_accounts
  <2>1. Covers(a, past \ {Genesis})
    BY DEF AccountsInv, BaseOK
  <2>2. a \in Seq(Hash \X BOOLEAN) /\ Distinct(a) /\ ToSet(a) = (past \ {Genesis}) \X {TRUE}
    BY <2>1 DEF Covers, AccountSets
  <2> HIDE DEF a, past
  <2>3. Cardinality(ToSet(a)) = Len(a)
    BY <2>2, DistinctCounts
  <2> QED
    BY <2>2, <2>3 DEF BaseIsPast, a, past
<1> QED
  BY <1>1, NodeAlways, AccountsAlways, PTL
=============================================================================
