--------------------------- MODULE DagEngineProofs --------------------------
(***************************************************************************)
(* Proofs about the blockDAG engine, for every set of hashes, every anti-  *)
(* cone bound k and every way of choosing parents: what each block is      *)
(* weighed, which block is the tip, what a block merges, how the total     *)
(* order lists it and which blocks are blue.  GhostdagProofs says what     *)
(* add_block preserves; here that becomes an invariant of the steps.       *)
(***************************************************************************)
EXTENDS DagEngine, GhostdagProofs

----------------------------------------------------------------------------
(* The inductive invariant: the colouring is exact as long as all blocks   *)
(* have antichain parents, the rest whatever parents they have.            *)
HInv ==
    /\ engine.genesis = Genesis
    /\ refused \subseteq Blocks(engine)
    /\ EngineOK(engine)
    /\ BluesOK(engine)
    /\ HonestNeverRefused
    /\ Antichains(engine) => Clustered(engine)

(* The first block alone satisfies it.                                     *)
LEMMA InitHInv == Init => HInv
<1> SUFFICES ASSUME Init PROVE HInv
  OBVIOUS
<1>1. engine = NewEngine(Genesis) /\ refused = {}
  BY DEF Init
<1>2. Honest(engine)
  BY <1>1, NewHonest, EngineAssumption
<1>3. engine.genesis = Genesis
  BY <1>1 DEF NewEngine
<1> QED
  BY <1>1, <1>2, <1>3 DEF HInv, Honest, HonestNeverRefused

(* The engine of the state in which every block has antichain parents.     *)
LEMMA AllAntichainsIs == engine.genesis = Genesis => (AllAntichains <=> Antichains(engine))
BY DEF AllAntichains, Antichains

(* Adding a block keeps the invariant.                                     *)
LEMMA AddBlockHInv ==
    ASSUME HInv, NEW b \in Hash, NEW ps \in SUBSET Blocks(engine), ps # {}, AddBlock(b, ps)
    PROVE  HInv'
<1>1. /\ EngineOK(engine) /\ BluesOK(engine) /\ (Antichains(engine) => Clustered(engine))
      /\ engine.genesis = Genesis
  BY DEF HInv
<1>2. b \notin Blocks(engine) /\ engine' = AddToEngine(engine, b, ps) /\ refused' = {}
  BY DEF AddBlock, MayAdd
<1>3. engine'.genesis = Genesis
  BY <1>1, <1>2 DEF AddToEngine
<1>4. EngineOK(engine') /\ BluesOK(engine')
  BY <1>1, <1>2, AddKeepsOK, AddKeepsBlues
<1>5. ASSUME Antichains(engine') PROVE Clustered(engine')
  BY <1>1, <1>2, <1>5, AddBlockClustered
<1>6. HonestNeverRefused'
  BY <1>2 DEF HonestNeverRefused
<1> QED
  BY <1>2, <1>3, <1>4, <1>5, <1>6 DEF HInv

(* Nothing that the invariant speaks of changes with the engine the same.  *)
LEMMA SameEngine ==
    ASSUME HInv, engine' = engine, refused' \subseteq Blocks(engine),
           AllAntichains /\ IsAntichain(engine, refused') => refused' = {}
    PROVE  HInv'
<1>1. HonestNeverRefused'
  BY DEF HonestNeverRefused, AllAntichains
<1>2. engine'.genesis = Genesis /\ refused' \subseteq Blocks(engine')
  BY DEF HInv
<1>3. EngineOK(engine') /\ BluesOK(engine') /\ (Antichains(engine') => Clustered(engine'))
  BY DEF HInv
<1> QED
  BY <1>1, <1>2, <1>3 DEF HInv

(* Every step of the engine preserves the invariant; it never panics on a  *)
(* block with antichain parents.                                           *)
LEMMA NextHInv == HInv /\ [Next]_vars => HInv'
<1> SUFFICES ASSUME HInv, [Next]_vars PROVE HInv'
  OBVIOUS
<1>1. ASSUME NEW b \in Hash, NEW ps \in (SUBSET Blocks(engine)) \ {{}}, AddBlock(b, ps)
      PROVE  HInv'
  BY <1>1, AddBlockHInv
<1>2. ASSUME NEW b \in Hash, NEW ps \in (SUBSET Blocks(engine)) \ {{}}, AddBlockPanics(b, ps)
      PROVE  HInv'
  <2>1. engine' = engine /\ refused' = ps /\ CoveredTwice(engine, ps)
    BY <1>2 DEF AddBlockPanics
  <2>2. ~(AllAntichains /\ IsAntichain(engine, ps))
    BY <2>1, NotCoveredTwice, AllAntichainsIs DEF HInv
  <2> QED
    BY <2>1, <2>2, SameEngine
<1>3. CASE UNCHANGED vars
  <2>1. engine' = engine /\ refused' = refused
    BY <1>3 DEF vars
  <2>2. refused \subseteq Blocks(engine)
    BY DEF HInv
  <2> QED
    BY <2>1, <2>2, SameEngine DEF HInv, HonestNeverRefused
<1> QED
  BY <1>1, <1>2, <1>3 DEF Next

(* The invariant holds in every reachable state.                           *)
LEMMA Invariance == Spec => []HInv
BY InitHInv, NextHInv, PTL DEF Spec

(* The reference definitions of DagEngine, of the engine of the state.     *)
LEMMA References ==
    /\ \A b : Anticone(b) = AnticoneIn(engine, b)
    /\ \A b : BlueSet(b) = BlueSetIn(engine, b)
    /\ \A s, b : Linearises(s, b) <=> LinearisesIn(engine, s, b)
BY DEF Anticone, AnticoneIn, BlueSet, BlueSetIn, Linearises, LinearisesIn

----------------------------------------------------------------------------
(* Theorems.                                                               *)

(* The stores of the engine stay well-formed whatever blocks are added.    *)
THEOREM TypeCorrect == Spec => []TypeOK
<1>1. HInv => TypeOK
  BY EngineAssumption DEF HInv, EngineOK, TypesOK, TypeOK
<1> QED
  BY Invariance, <1>1, PTL

(* The tip kept by add_block's comparison with the previous tip is the     *)
(* heaviest block of the whole DAG, for every k, every hash assignment and *)
(* every arrival order: nodes with the same blocks have the same tip.      *)
THEOREM TipIsHeaviest == Spec => []TipHeaviest
<1>1. HInv => TipHeaviest
  BY DEF HInv, EngineOK, TipIsHeavy, TipHeaviest
<1> QED
  BY Invariance, <1>1, PTL

(* Blue work strictly increases from every block to all its descendants,   *)
(* even when parents are not an antichain.                                 *)
THEOREM WorkAlwaysClimbs == Spec => []WorkClimbs
<1>1. HInv => WorkClimbs
  BY DEF HInv, EngineOK, Climbs, WorkClimbs
<1> QED
  BY Invariance, <1>1, PTL

(* The blues and reds of every block with antichain parents are exactly    *)
(* the part of its past that its selected parent had not merged yet,       *)
(* whatever parents the other blocks have.                                 *)
THEOREM MergesetIsExact == Spec => []MergesetExact
<1>1. HInv => MergesetExact
  BY DEF HInv, EngineOK, Merged, MergesetExact
<1> QED
  BY Invariance, <1>1, PTL

(* total_order at any block lists its past and the block, each block once  *)
(* and after all of its ancestors, whatever the number of blocks, as long  *)
(* as all blocks have antichain parents.                                   *)
THEOREM HonestOrderAlwaysTopological == Spec => []HonestOrderIsTopological
<1>1. HInv => HonestOrderIsTopological
  <2> SUFFICES ASSUME HInv, AllAntichains, NEW b \in Blocks(engine)
               PROVE  LinearisesIn(engine, OrderUpTo(engine, b), b)
    BY References DEF HonestOrderIsTopological
  <2>1. Antichains(engine)
    BY AllAntichainsIs DEF HInv
  <2> QED
    BY <2>1, OrderLists, ListsLinearise DEF HInv
<1> QED
  BY Invariance, <1>1, PTL

(* add_block never panics in a DAG of antichain parents: what a block      *)
(* merges is behind none of the chain blocks below it.                     *)
THEOREM HonestAlwaysAccepted == Spec => []HonestNeverRefused
<1>1. HInv => HonestNeverRefused
  BY DEF HInv
<1> QED
  BY Invariance, <1>1, PTL

(* check_blue_candidate keeps every blue set a k-cluster, for every k: no  *)
(* blue block has more than k others in its anticone.                      *)
THEOREM BlueSetAlwaysKCluster == Spec => []BlueSetIsKCluster
<1>1. HInv => BlueSetIsKCluster
  <2> SUFFICES ASSUME HInv, AllAntichains, NEW b \in Blocks(engine), NEW x \in BlueSet(b)
               PROVE  Cardinality(Anticone(x) \cap BlueSet(b)) <= K
    BY DEF BlueSetIsKCluster
  <2>1. Clustered(engine)
    BY AllAntichainsIs DEF HInv
  <2> QED
    BY <2>1, References DEF Clustered, BlueAnticone
<1> QED
  BY Invariance, <1>1, PTL

(* blue_anticone_size always finds the true number of blue blocks in the   *)
(* anticone of a blue block, however many merges have updated it.          *)
THEOREM AnticoneSizesAlwaysExact == Spec => []AnticoneSizesExact
<1>1. HInv => AnticoneSizesExact
  <2> SUFFICES ASSUME HInv, AllAntichains, NEW b \in Blocks(engine), NEW x \in BlueSet(b)
               PROVE  BlueAnticoneSize(engine, x, engine.gd[b])
                         = Cardinality(Anticone(x) \cap BlueSet(b))
    BY DEF AnticoneSizesExact
  <2>1. Clustered(engine)
    BY AllAntichainsIs DEF HInv
  <2> QED
    BY <2>1, References DEF Clustered, BlueAnticone
<1> QED
  BY Invariance, <1>1, PTL
=============================================================================
