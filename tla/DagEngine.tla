------------------------------ MODULE DagEngine -----------------------------
(***************************************************************************)
(* The blockDAG engine (crates/tao-ghostdag/src/engine.rs) fed with        *)
(* multi-parent blocks in any order that respects parents.  The engine     *)
(* takes any parents, also ones that are ancestors of one another (accept  *)
(* of DagChain does not refuse them); blocks built by DagChain reference   *)
(* only tips, an antichain.                                                *)
(***************************************************************************)
EXTENDS Ghostdag

CONSTANT Genesis    \* the first block

ASSUME EngineAssumption == Genesis \in Hash

VARIABLES
    engine,     \* the DagEngine
    refused     \* the parents of the block whose add_block panicked, or {};
                \* the panic poisons the index's lock, so no block follows

vars == <<engine, refused>>

Init ==
    /\ engine = NewEngine(Genesis)
    /\ refused = {}

MayAdd(b, ps) ==
    /\ refused = {}
    /\ b \notin Blocks(engine)

AddBlock(b, ps) ==
    /\ MayAdd(b, ps)
    /\ ~CoveredTwice(engine, ps)
    /\ engine' = AddToEngine(engine, b, ps)
    /\ UNCHANGED refused

AddBlockPanics(b, ps) ==
    /\ MayAdd(b, ps)
    /\ CoveredTwice(engine, ps)
    /\ refused' = ps
    /\ UNCHANGED engine

Next ==
    \E b \in Hash : \E ps \in (SUBSET Blocks(engine)) \ {{}} :
        \/ AddBlock(b, ps)
        \/ AddBlockPanics(b, ps)

Spec == Init /\ [][Next]_vars

----------------------------------------------------------------------------
(* Reference definitions, from the DAG alone.                              *)

Anticone(b) == {x \in Blocks(engine) : ~IsDagAncestorOf(engine, x, b)
                                       /\ ~IsDagAncestorOf(engine, b, x)}

(* The blue set of b: the blues collected along its selected chain.        *)
BlueSet(b) ==
    (UNION {engine.gd[c].blues : c \in ToSet(SelectedChain(engine, b))}) \ {ORIGIN}

(* No block so far has a parent that is an ancestor of another parent.     *)
AllAntichains ==
    \A b \in Blocks(engine) \ {Genesis} : IsAntichain(engine, engine.parents[b])

(* s lists b and its ancestors, each once and after all its ancestors.     *)
Linearises(s, b) ==
    /\ Len(s) = Cardinality(ToSet(s))
    /\ ToSet(s) = engine.past[b] \cup {b}
    /\ \A i, j \in DOMAIN s : s[i] \in engine.past[s[j]] => i < j

----------------------------------------------------------------------------
(* Type invariant.                                                         *)
TypeOK ==
    /\ engine.genesis = Genesis
    /\ Blocks(engine) \subseteq Hash
    /\ IsFiniteSet(Blocks(engine))
    /\ refused \subseteq Blocks(engine)
    /\ DOMAIN engine.parents = Blocks(engine)
    /\ engine.past \in [Blocks(engine) -> SUBSET Blocks(engine)]
    /\ engine.tip \in Blocks(engine)
    /\ \A b \in Blocks(engine) :
         /\ engine.gd[b].blue_work \in Nat
         /\ b # Genesis => engine.gd[b].selected_parent \in engine.parents[b]

(* add_block advances the tip by comparing with the previous tip only;     *)
(* still the tip is the heaviest block of all by (blue work, hash).  Since *)
(* that block is unique, nodes that know the same blocks agree on the tip  *)
(* whatever order the blocks arrived in.                                   *)
TipHeaviest ==
    \A b \in Blocks(engine) \ {engine.tip} : Lighter(engine, b, engine.tip)

(* A block outweighs every one of its ancestors, whatever its parents and  *)
(* its colouring, so a heavier block is never behind the tip in the DAG    *)
(* and the selected chain only climbs.                                     *)
WorkClimbs ==
    \A b \in Blocks(engine) : \A a \in engine.past[b] :
        engine.gd[a].blue_work < engine.gd[b].blue_work

(* The mergeset of a block with antichain parents is exactly what its      *)
(* selected parent had not seen: blues and reds are disjoint and, with the *)
(* selected parent, they are past(b) minus past(selected parent).          *)
MergesetExact ==
    \A b \in Blocks(engine) \ {Genesis} :
        LET d == engine.gd[b]
        IN  IsAntichain(engine, engine.parents[b]) =>
                /\ d.blues \cap d.reds = {}
                /\ d.blues \cup d.reds = engine.past[b] \ engine.past[d.selected_parent]

(* total_order taken at any block b is a linearisation of past(b) and b    *)
(* when blocks reference antichains.  At a selected-chain block this says  *)
(* that the prefix prune() cuts off is exactly the past of that block.     *)
HonestOrderIsTopological ==
    AllAntichains => \A b \in Blocks(engine) : Linearises(OrderUpTo(engine, b), b)

(* The blue set of every block is a k-cluster: no blue block has more than *)
(* k blue blocks in its anticone (check_blue_candidate).                   *)
BlueSetIsKCluster ==
    AllAntichains =>
        \A b \in Blocks(engine) : \A x \in BlueSet(b) :
            Cardinality(Anticone(x) \cap BlueSet(b)) <= K

(* The incrementally maintained blues_anticone_sizes, looked up along the  *)
(* selected chain, are the true blue anticone sizes: an entry left stale   *)
(* by a later merge would let a block with a full anticone accept more.    *)
AnticoneSizesExact ==
    AllAntichains =>
        \A b \in Blocks(engine) : \A x \in BlueSet(b) :
            BlueAnticoneSize(engine, x, engine.gd[b])
              = Cardinality(Anticone(x) \cap BlueSet(b))

(* add_block never panics in a DAG of antichain parents: the index refuses *)
(* no merged block ("DataInconsistency" in insert_to_future_covering_set). *)
HonestNeverRefused == AllAntichains /\ IsAntichain(engine, refused) => refused = {}
=============================================================================
