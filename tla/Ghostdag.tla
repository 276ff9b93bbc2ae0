------------------------------ MODULE Ghostdag ------------------------------
(***************************************************************************)
(* The GHOSTDAG protocol of crates/tao-ghostdag (protocol.rs) and the      *)
(* in-memory engine that stores its results (engine.rs), as operators on   *)
(* an engine value                                                         *)
(*                                                                         *)
(*   [genesis, parents, past, gd, tip]                                     *)
(*                                                                         *)
(* parents is the relations store, gd the GHOSTDAG store and past[b] the   *)
(* set of strict DAG ancestors of b: the answer the reachability index     *)
(* (crates/tao-reachability) gives to is_dag_ancestor_of.  Hashes are      *)
(* natural numbers, so that the byte order of hashes is <.  The engine     *)
(* weighs every block 1 (UnitWork): blue score and blue work are equal and *)
(* blue_work stands for both.  Collections whose iteration order cannot    *)
(* change a result (mergeset_blues, mergeset_reds) are sets.               *)
(***************************************************************************)
EXTENDS Naturals, FiniteSets, SequencesExt

CONSTANTS
    Hash,     \* block hashes
    ORIGIN,   \* the sentinel parent of the first block
    K         \* the anticone bound k

ASSUME HashAssumption == Hash \subseteq Nat /\ ORIGIN \notin Hash
ASSUME KAssumption == K \in Nat

(* f with x mapped to v: the insertion into a store.                       *)
Insert(f, x, v) == [y \in DOMAIN f \cup {x} |-> IF y = x THEN v ELSE f[y]]

Blocks(e) == DOMAIN e.gd

----------------------------------------------------------------------------
(* Queries.                                                                *)

IsDagAncestorOf(e, a, b) == a = b \/ a \in e.past[b]

IsAntichain(e, S) == \A a, b \in S : a \notin e.past[b]

(* SortableBlock: by blue work, ties by hash.                              *)
Lighter(e, a, b) ==
    \/ e.gd[a].blue_work < e.gd[b].blue_work
    \/ e.gd[a].blue_work = e.gd[b].blue_work /\ a < b

(* Mutant: the mergeset is ordered by hash alone.                          *)
SortByHash(e, S) ==
    [i \in 1..Cardinality(S) |-> CHOOSE x \in S : Cardinality({y \in S : y < x}) = i - 1]

SortBlocks(e, S) ==
    [i \in 1..Cardinality(S) |->
        CHOOSE x \in S : Cardinality({y \in S : Lighter(e, y, x)}) = i - 1]

(* The blocks b merges off its selected chain, blue and red.               *)
Mergeset(e, b) == (e.gd[b].blues \ {e.gd[b].selected_parent}) \cup e.gd[b].reds

(* The selected-parent chain from the first block to b.                    *)
SelectedChain(e, b) ==
    LET chain[x \in Blocks(e)] ==
          IF x = e.genesis THEN <<x>> ELSE Append(chain[e.gd[x].selected_parent], x)
    IN  chain[b]

(* DagEngine::total_order with b as the tip: every block of the selected   *)
(* chain is preceded by its mergeset in ascending (blue work, hash) order. *)
OrderUpTo(e, b) ==
    LET order[x \in Blocks(e)] ==
          IF x = e.genesis
          THEN <<x>>
          ELSE order[e.gd[x].selected_parent]
                 \o Append(SortBlocks(e, Mergeset(e, x)), x)
    IN  order[b]

TotalOrder(e) == OrderUpTo(e, e.tip)

----------------------------------------------------------------------------
(* GhostdagManager::ghostdag: selected parent, mergeset and colouring of a *)
(* block with parents ps.                                                  *)

FindSelectedParent(e, ps) ==
    CHOOSE p \in ps : \A q \in ps \ {p} : Lighter(e, q, p)

(* Mutant: the search does not stop at ancestors of the selected parent.   *)
MergesetUnfiltered(e, sp, ps) ==
    LET start == ps \ {sp} IN start \cup ((UNION {e.past[q] : q \in start}) \ {sp, e.genesis})

(* The breadth-first search starts from every other parent and follows the *)
(* parents that are not ancestors of sp; the starting parents themselves   *)
(* are taken without that test.                                            *)
UnorderedMergeset(e, sp, ps) ==
    LET start == ps \ {sp}
    IN  start \cup {x \in UNION {e.past[q] : q \in start} : ~IsDagAncestorOf(e, x, sp)}

(* The anticone size of a blue block as seen from data: the entry of the   *)
(* nearest block of the selected chain that has one.  Where the code would *)
(* panic there is no number.                                               *)
BlueAnticoneSize(e, block, data) ==
    LET size[x \in Blocks(e)] ==
          IF block \in DOMAIN e.gd[x].sizes THEN e.gd[x].sizes[block]
          ELSE IF x = e.genesis THEN "not in blue set"
          ELSE size[e.gd[x].selected_parent]
    IN  IF block \in DOMAIN data.sizes
        THEN data.sizes[block]
        ELSE size[data.selected_parent]

(* The blue blocks in the anticone of a candidate, chain block by chain    *)
(* block: the walk down the selected chain ends at the first block that is *)
(* an ancestor of the candidate.                                           *)
AnticoneBlues(e, blues, cand) == {p \in blues : ~IsDagAncestorOf(e, p, cand)}

WalkedChain(e, data, cand) ==
    {c \in ToSet(SelectedChain(e, data.selected_parent)) : ~IsDagAncestorOf(e, c, cand)}

CandidatePeers(e, data, cand) ==
    AnticoneBlues(e, data.blues, cand)
      \cup UNION {AnticoneBlues(e, e.gd[c].blues, cand) : c \in WalkedChain(e, data, cand)}

CandidateAnticoneSize(e, data, cand) ==
    Cardinality(AnticoneBlues(e, data.blues, cand))
      + MapThenSumSet(LAMBDA c : Cardinality(AnticoneBlues(e, e.gd[c].blues, cand)),
                      WalkedChain(e, data, cand))

(* Mutant: one blue too many is allowed in the anticone of the candidate.  *)
CheckOffByOne(e, data, cand) ==
    /\ Cardinality(data.blues) # K + 1
    /\ CandidateAnticoneSize(e, data, cand) <= K + 1
    /\ \A p \in CandidatePeers(e, data, cand) : BlueAnticoneSize(e, p, data) # K

CheckBlueCandidate(e, data, cand) ==
    /\ Cardinality(data.blues) # K + 1
    /\ CandidateAnticoneSize(e, data, cand) <= K
    /\ \A p \in CandidatePeers(e, data, cand) : BlueAnticoneSize(e, p, data) # K

(* Mutant: the sizes of the other blues in the anticone do not grow.       *)
AddBlueAlone(e, data, cand) ==
    [data EXCEPT !.blues = @ \cup {cand},
                 !.sizes = Insert(@, cand, CandidateAnticoneSize(e, data, cand))]

AddBlue(e, data, cand) ==
    LET peers == CandidatePeers(e, data, cand)
        size  == CandidateAnticoneSize(e, data, cand)
    IN  [data EXCEPT
           !.blues = @ \cup {cand},
           !.sizes = [x \in DOMAIN @ \cup peers \cup {cand} |->
                        IF x \in peers THEN BlueAnticoneSize(e, x, data) + 1
                        ELSE IF x = cand THEN size ELSE @[x]]]

Color(e, data, cand) ==
    IF CheckBlueCandidate(e, data, cand) THEN AddBlue(e, data, cand) ELSE data

NewWithSelectedParent(sp) ==
    [selected_parent |-> sp, blues |-> {sp}, sizes |-> [x \in {sp} |-> 0]]

(* The candidates are coloured one after the other in ascending order, so  *)
(* an early blue narrows what a later one may become.                      *)
ColorMergeset(e, sp, mergeset) ==
    FoldLeft(LAMBDA data, cand : Color(e, data, cand),
             NewWithSelectedParent(sp), SortBlocks(e, mergeset))

BlueWork(e, sp, blues) == e.gd[sp].blue_work + Cardinality(blues)

GhostdagData(e, ps) ==
    LET sp       == FindSelectedParent(e, ps)
        mergeset == UnorderedMergeset(e, sp, ps)
        colored  == ColorMergeset(e, sp, mergeset)
        blues    == {sp} \cup (mergeset \cap colored.blues)
    IN  [selected_parent |-> sp,
         blues           |-> blues,
         reds            |-> mergeset \ blues,
         sizes           |-> colored.sizes,
         blue_work       |-> BlueWork(e, sp, blues)]

----------------------------------------------------------------------------
(* DagEngine.                                                              *)

(* DagEngine::new followed by add_block(genesis, ORIGIN).                  *)
NewEngine(g) ==
    [genesis |-> g,
     parents |-> [x \in {g} |-> {ORIGIN}],
     past    |-> [x \in {g} |-> {}],
     gd      |-> [x \in {g} |-> [selected_parent |-> ORIGIN,
                                 blues           |-> {ORIGIN},
                                 reds            |-> {},
                                 sizes           |-> [y \in {ORIGIN} |-> 0],
                                 blue_work       |-> 0]],
     tip     |-> g]

(* The reachability index refuses a merged block m whose future covering   *)
(* set (the blocks that merge m) already holds a chain ancestor of the new *)
(* block; add_block unwraps that error.                                    *)
CoveredTwice(e, ps) ==
    \E data \in {GhostdagData(e, ps)} :
      \E m \in (data.blues \ {data.selected_parent}) \cup data.reds :
        \E w \in ToSet(SelectedChain(e, data.selected_parent)) : m \in Mergeset(e, w)

(* Mutant: ties by hash do not move the tip.                               *)
StrictlyMoreWork(e, data, b) == data.blue_work > e.gd[e.tip].blue_work

HeavierThanTip(e, data, b) ==
    \/ data.blue_work > e.gd[e.tip].blue_work
    \/ data.blue_work = e.gd[e.tip].blue_work /\ b > e.tip

(* The ancestors of a block with parents ps.                               *)
PastOf(e, ps) == ps \cup UNION {e.past[p] : p \in ps}

(* Mutant: the relations store is not updated.                             *)
AddWithoutRelations(e, b, ps) ==
    LET data == GhostdagData(e, ps)
    IN  [genesis |-> e.genesis,
         parents |-> e.parents,
         past    |-> Insert(e.past, b, PastOf(e, ps)),
         gd      |-> Insert(e.gd, b, data),
         tip     |-> IF HeavierThanTip(e, data, b) THEN b ELSE e.tip]

(* DagEngine::add_block of block b with parents ps.                        *)
AddToEngine(e, b, ps) ==
    LET data == GhostdagData(e, ps)
    IN  [genesis |-> e.genesis,
         parents |-> Insert(e.parents, b, ps),
         past    |-> Insert(e.past, b, PastOf(e, ps)),
         gd      |-> Insert(e.gd, b, data),
         tip     |-> IF HeavierThanTip(e, data, b) THEN b ELSE e.tip]
=============================================================================
