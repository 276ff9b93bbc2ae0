---------------------------- MODULE Reachability ----------------------------
(***************************************************************************)
(* The reachability index of crates/tao-reachability.  Every block has a   *)
(* tree parent (its selected parent) and an interval of labels that        *)
(* strictly contains the intervals of its tree children, so that chain     *)
(* ancestry is interval containment; a future covering set per block,      *)
(* ordered by interval, answers DAG ancestry.  When a parent has no labels *)
(* left for a new child, intervals are reallocated (reindexing), within    *)
(* the subtree of the reindex root or with the slack kept along the chain  *)
(* that leads to it.                                                       *)
(*                                                                         *)
(* An operation maps a store to a store:                                   *)
(*                                                                         *)
(*   parent, height, children, interval, fcs   the data of every block     *)
(*   root                                      the reindex root            *)
(*   ok      no assert!, debug_assert! or u64 subtraction has failed so    *)
(*           far and no operation has returned an error                    *)
(*                                                                         *)
(* The labels 1..2^64-2 are scaled down to 1..Capacity, together with the  *)
(* reindex depth and slack.  Float arithmetic on sizes is exact at the     *)
(* sizes modelled.                                                         *)
(***************************************************************************)
EXTENDS Integers, FiniteSets, SequencesExt

CONSTANTS
    Hash,       \* block hashes, in the order in which the blocks are added
    ORIGIN,     \* the root of the reachability tree
    NONE,       \* the parent of ORIGIN
    Capacity,   \* the last label of Interval::maximal
    Depth,      \* DEFAULT_REINDEX_DEPTH
    Slack,      \* DEFAULT_REINDEX_SLACK
    MaxParents, \* bound: parents of a block
    MaxMerged,  \* bound: future covering items in the whole index
    MaxDeleted  \* bound: deleted blocks

ASSUME ReachabilityAssumption ==
    /\ Hash \subseteq Nat
    /\ ORIGIN \notin Hash /\ NONE \notin Hash \cup {ORIGIN}
    /\ Capacity \in Nat /\ Depth \in Nat \ {0} /\ MaxParents \in Nat
    /\ MaxMerged \in Nat /\ MaxDeleted \in Nat
    /\ Slack \in Nat /\ Slack >= Depth

VARIABLES
    store,      \* the MemoryReachabilityStore
    relations,  \* the parents of every block (MemoryRelationsStore)
    added       \* how many blocks were ever added

vars == <<store, relations, added>>

----------------------------------------------------------------------------
(* Intervals.                                                              *)

Interval(s, e) == [start |-> s, end |-> e]

Legal(iv) == iv.start > 0 /\ iv.end >= iv.start - 1 /\ iv.end <= Capacity

Size(iv) == iv.end + 1 - iv.start

IntervalContains(a, b) == a.start <= b.start /\ b.end <= a.end

StrictlyContains(a, b) == a.start <= b.start /\ b.end < a.end

(* The left part of split_half, rounded up.                                *)
LeftHalf(iv) == Interval(iv.start, iv.start + (Size(iv) + 1) \div 2 - 1)

Total(sizes) == FoldLeft(+, 0, sizes)

SplitExact(iv, sizes) ==
    [i \in DOMAIN sizes |->
        LET from == iv.start + Total(SubSeq(sizes, 1, i - 1))
        IN  Interval(from, from + sizes[i] - 1)]

(* The spare labels each part gets, in proportion to the weights, rounded  *)
(* to the nearest while there are any; the last part takes what is left.   *)
Biases(spare, weights, sum) ==
    LET left[i \in 0..Len(weights)] ==
          CASE i = 0            -> spare
            [] i = Len(weights) -> 0
            [] OTHER -> left[i-1] - Min({left[i-1], (2 * spare * weights[i] + sum) \div (2 * sum)})
    IN  [i \in DOMAIN weights |-> left[i-1] - left[i]]

(* Every part gets its size and a share of the rest weighed by 2^size.     *)
ExponentialSplit(iv, sizes, weights) ==
    LET bias == Biases(Size(iv) - Total(sizes), weights, Total(weights))
    IN  SplitExact(iv, [i \in DOMAIN sizes |-> sizes[i] + bias[i]])

SplitExponential(iv, sizes) == ExponentialSplit(iv, sizes, [i \in DOMAIN sizes |-> 2 ^ sizes[i]])

----------------------------------------------------------------------------
(* The store and the queries on it.                                        *)

Blocks(s) == DOMAIN s.parent

Check(s, condition) == [s EXCEPT !.ok = @ /\ condition]

SetInterval(s, b, iv) == [Check(s, Legal(iv)) EXCEPT !.interval[b] = iv]

IsChainAncestorOf(s, a, b) == IntervalContains(s.interval[a], s.interval[b])

IsStrictChainAncestorOf(s, a, b) == StrictlyContains(s.interval[a], s.interval[b])

Position(b, hashes) == CHOOSE i \in DOMAIN hashes : hashes[i] = b

Ordered(s, hashes) ==
    \A i \in 1..(Len(hashes) - 1) :
        s.interval[hashes[i]].end < s.interval[hashes[i+1]].start

(* binary_search_descendant: the item of hashes that is a chain ancestor   *)
(* of b, or the item after which b would be inserted.                      *)
Search(s, hashes, b) ==
    LET point == s.interval[b].end
        i == Cardinality({j \in DOMAIN hashes : s.interval[hashes[j]].start <= point})
    IN  [index |-> i,
         found |-> i > 0 /\ (\/ s.interval[hashes[i]].start = point
                             \/ IsChainAncestorOf(s, hashes[i], b))]

IsDagAncestorOf(s, a, b) ==
    IsChainAncestorOf(s, a, b) \/ Search(s, s.fcs[a], b).found

(* The tree child of a that is a chain ancestor of b; where the code would *)
(* return BadQuery, or fail the assertion that the children are ordered,   *)
(* there is no value.                                                      *)
NextChainAncestor(s, b, a) ==
    LET hit == Search(s, s.children[a], b)
    IN  CHOOSE c \in ToSet(s.children[a]) :
            Ordered(s, s.children[a]) /\ hit.found /\ c = s.children[a][hit.index]

(* Mutant: the children may use every label of their parent.               *)
ChildrenCapacityWhole(iv) == iv

ChildrenCapacity(iv) == Interval(iv.start, iv.end - 1)

(* interval_remaining_before and interval_remaining_after.                 *)
Remaining(s, b, before) ==
    LET capacity == ChildrenCapacity(s.interval[b])
        children == s.children[b]
    IN  CASE children = <<>> -> capacity
          [] children # <<>> /\ before ->
               Interval(capacity.start, s.interval[Head(children)].start - 1)
          [] OTHER -> Interval(s.interval[Last(children)].end + 1, capacity.end)

----------------------------------------------------------------------------
(* Reindexing.                                                             *)

(* Mutant: a block with children is not counted itself.                    *)
SubtreeLeaves(s) ==
    LET size[b \in Blocks(s)] ==
          IF s.children[b] = <<>> THEN 1
          ELSE FoldLeft(LAMBDA n, c : n + size[c], 0, s.children[b])
    IN  size

(* count_subtrees.                                                         *)
SubtreeSizes(s) ==
    LET size[b \in Blocks(s)] == FoldLeft(LAMBDA n, c : n + size[c], 1, s.children[b])
    IN  size

InSubtree(s, x, b) ==
    LET under[y \in Blocks(s) \cup {NONE}] ==
          y # NONE /\ (y = b \/ under[s.parent[y]])
    IN  under[x]

(* The subtree sizes of the children of b.                                 *)
ChildSizes(s, b, size) == [i \in DOMAIN s.children[b] |-> size[s.children[b][i]]]

(* The intervals of all blocks when that of b is divided over its subtree. *)
Divided(s, b, subtree, size) ==
    LET iv[x \in Blocks(s)] ==
          IF x = b \/ x \notin subtree
          THEN s.interval[x]
          ELSE LET p == s.parent[x]
               IN  SplitExponential(ChildrenCapacity(iv[p]), ChildSizes(s, p, size))
                     [Position(x, s.children[p])]
    IN  [x \in Blocks(s) |-> iv[x]]

(* Every parent in the subtree has room for its children.                  *)
RoomIn(s, subtree, size, iv) ==
    \A x \in subtree :
        s.children[x] # <<>> => Size(ChildrenCapacity(iv[x])) >= Total(ChildSizes(s, x, size))

SetDivided(s, subtree, size, iv) ==
    [Check(s, RoomIn(s, subtree, size, iv)) EXCEPT !.interval = iv]

PropagateIn(s, b, subtree, size) ==
    SetDivided(s, subtree, size, Divided(s, b, subtree, size))

(* propagate_interval.                                                     *)
Propagate(s, b) ==
    PropagateIn(s, b, {x \in Blocks(s) : InSubtree(s, x, b)}, SubtreeSizes(s))

(* increase_start or decrease_end, by an offset the code computes in u64.  *)
Shrink(s, b, offset, before) ==
    LET iv == s.interval[b]
    IN  SetInterval(Check(s, offset >= 0), b,
                    IF before THEN Interval(iv.start + offset, iv.end)
                              ELSE Interval(iv.start, iv.end - offset))

(* The interval of a sibling x of the path after the path has made room.   *)
Moved(s, x, allocation, offset, before) ==
    LET iv == s.interval[x]
    IN  CASE x = allocation /\ before  -> Interval(iv.start, iv.end + offset)
          [] x = allocation /\ ~before -> Interval(iv.start - offset, iv.end)
          [] x # allocation /\ before  -> Interval(iv.start + offset, iv.end + offset)
          [] x # allocation /\ ~before -> Interval(iv.start - offset, iv.end - offset)

(* The siblings from current outwards, up to the allocation block.         *)
SiblingsReached(siblings, allocation, at, before) ==
    LET side == {i \in DOMAIN siblings : IF before THEN i < at ELSE i > at}
        stops == {i \in side : siblings[i] = allocation}
    IN  {siblings[i] : i \in {j \in side : \A k \in stops : IF before THEN j >= k ELSE j <= k}}

(* offset_siblings_before and offset_siblings_after: the siblings on the   *)
(* way from current to the allocation block move into the gap, and the     *)
(* allocation block grows by what they made room for.                      *)
OffsetSiblings(s, allocation, current, offset, before) ==
    LET siblings == s.children[s.parent[current]]
    IN  FoldSet(LAMBDA x, t : Propagate(SetInterval(t, x, Moved(t, x, allocation, offset, before)), x),
                s,
                SiblingsReached(siblings, allocation, Position(current, siblings), before))

(* One step of the way: x gives offset labels to its siblings.             *)
GiveUp(s, allocation, x, offset, before) ==
    OffsetSiblings(Shrink(s, x, offset, before), allocation, x, offset, before)

(* The reindex root also divides what it is left with over its subtree.    *)
RootGivesUp(s, allocation, offset, before) ==
    OffsetSiblings(Propagate(Shrink(s, s.root, offset, before), s.root),
                   allocation, s.root, offset, before)

(* Above the stop, every block of the path gives up what it gained, except *)
(* for the slack it keeps.                                                 *)
ShiftPath(s, path, allocation, kept, before) ==
    FoldLeft(LAMBDA t, x : GiveUp(t, allocation, x, Size(Remaining(t, x, before)) - kept, before),
             s, Reverse(path))

(* Slack is collected along the chain from the chosen child to the reindex *)
(* root until it covers the allocation; where it does not, the root gives  *)
(* the rest and renews the slack.                                          *)
ReclaimAlong(s, path, collected, allocation, required, before) ==
    LET stop == CHOOSE i \in DOMAIN path :
                  /\ path[i] = s.root \/ collected[i] >= required
                  /\ \A j \in 1..(i - 1) : collected[j] < required
        above == SubSeq(path, 1, stop - 1)
        rest == required - collected[stop - 1]
    IN  IF path[stop] = s.root
        THEN ShiftPath(RootGivesUp(s, allocation, rest + Slack * Len(above), before),
                       above, allocation, Slack, before)
        ELSE ShiftPath(GiveUp(s, allocation, path[stop], rest, before),
                       above, allocation, 0, before)

(* The slack before or after the blocks of the path, accumulated.          *)
SlackCollected(s, path, before) ==
    LET sum[i \in 0..Len(path)] ==
          IF i = 0 THEN 0 ELSE sum[i-1] + Size(Remaining(s, path[i], before))
    IN  sum

(* The chain blocks from b to the reindex root.                            *)
PathToRoot(s, b) ==
    LET chain[x \in Blocks(s)] ==
          IF x = s.root THEN <<x>> ELSE <<x>> \o chain[NextChainAncestor(s, s.root, x)]
    IN  chain[b]

ReclaimOn(s, path, allocation, required, before) ==
    ReclaimAlong(s, path, SlackCollected(s, path, before), allocation, required, before)

(* reclaim_interval_before and reclaim_interval_after.                     *)
Reclaim(s, allocation, chosen, required, before) ==
    ReclaimOn(s, PathToRoot(s, chosen), allocation, required, before)

ReindexIntervalsEarlierThanRoot(s, allocation, common, required) ==
    LET chosen == NextChainAncestor(s, s.root, common)
    IN  Reclaim(s, allocation, chosen, required,
                s.interval[allocation].start < s.interval[chosen].start)

(* reindex_intervals: from the new child up to the first block whose       *)
(* interval is large enough for its subtree.                               *)
ReindexIntervals(s, new) ==
    LET size == SubtreeSizes(s)
        from[b \in Blocks(s)] ==
          CASE Size(s.interval[b]) >= size[b] -> Propagate(s, b)
            [] OTHER ->
                 IF s.parent[b] = NONE \/ b = s.root
                 THEN Check(s, FALSE)
                 ELSE IF IsStrictChainAncestorOf(s, s.parent[b], s.root)
                      THEN ReindexIntervalsEarlierThanRoot(s, b, s.parent[b], size[b])
                      ELSE from[s.parent[b]]
    IN  from[new]

(* tighten_intervals_before and tighten_intervals_after: siblings get as   *)
(* many labels as they have blocks, from start on.                         *)
Tighten(s, siblings, sizes, start) ==
    LET ivs == SplitExact(Interval(start, start + Total(sizes) - 1), sizes)
    IN  FoldLeftDomain(LAMBDA t, i : Propagate(SetInterval(t, siblings[i], ivs[i]), siblings[i]),
                       s, siblings)

(* expand_interval_to_chosen.                                              *)
ExpandIntervalToChosen(s, child, allocation, final) ==
    SetInterval(IF final /\ ~IntervalContains(allocation, s.interval[child])
                THEN Propagate(SetInterval(s, child, Interval(allocation.start + Slack,
                                                              allocation.end - Slack)),
                               child)
                ELSE s,
                child, allocation)

(* The siblings at positions below and above at are packed at both ends of *)
(* the interval iv of their parent; the child at that position gets all    *)
(* that is between them.                                                   *)
ConcentrateAt(s, iv, children, sizes, at, final) ==
    LET below(q) == SubSeq(q, 1, at - 1)
        above(q) == SubSeq(q, at + 1, Len(q))
        low == iv.start + Slack
        high == iv.end - Slack - Total(above(sizes))
    IN  ExpandIntervalToChosen(
            Tighten(Tighten(s, below(children), below(sizes), low),
                    above(children), above(sizes), high),
            children[at], Interval(low + Total(below(sizes)), high - 1), final)

(* concentrate_interval.                                                   *)
ConcentrateInterval(s, parent, child, final) ==
    ConcentrateAt(s, s.interval[parent], s.children[parent],
                  ChildSizes(s, parent, SubtreeSizes(s)),
                  Position(child, s.children[parent]), final)

----------------------------------------------------------------------------
(* The tree and the reindex root.                                          *)

(* insert and append_child.                                                *)
InsertBlock(s, new, parent, iv) ==
    LET With(f, v) == [b \in Blocks(s) \cup {new} |-> IF b = new THEN v ELSE f[b]]
    IN  [Check(s, new \notin Blocks(s) /\ Legal(iv))
           EXCEPT !.children = [With(@, <<>>) EXCEPT ![parent] = Append(@, new)],
                  !.parent   = With(@, parent),
                  !.height   = With(@, s.height[parent] + 1),
                  !.interval = With(@, iv),
                  !.fcs      = With(@, <<>>)]

(* add_tree_block: half of the labels that remain after the last sibling,  *)
(* or a reindexing if none remain.                                         *)
AddTreeBlock(s, new, parent) ==
    LET remaining == Remaining(s, parent, FALSE)
    IN  IF Size(remaining) = 0
        THEN ReindexIntervals(InsertBlock(s, new, parent, remaining), new)
        ELSE InsertBlock(s, new, parent, LeftHalf(remaining))

FindCommonTreeAncestor(s, b, root) ==
    LET up[x \in Blocks(s)] == IF IsChainAncestorOf(s, x, root) THEN x ELSE up[s.parent[x]]
    IN  up[b]

(* find_next_reindex_root: where the move starts, and the new root.        *)
FindNextReindexRoot(s, hint) ==
    LET onChain == IsChainAncestorOf(s, s.root, hint)
        ancestor == IF onChain THEN s.root ELSE FindCommonTreeAncestor(s, hint, s.root)
        down[x \in Blocks(s)] ==
          LET child == NextChainAncestor(s, hint, x)
          IN  IF s.height[hint] - s.height[child] < Depth THEN x ELSE down[child]
    IN  IF ~onChain /\ s.height[hint] - s.height[s.root] < Slack
        THEN [ancestor |-> s.root, next |-> s.root]
        ELSE [ancestor |-> ancestor, next |-> down[ancestor]]

(* The root moves from ancestor to next, child by child.                   *)
StepTowards(t, next, child) ==
    [s |-> ConcentrateInterval(t.s, t.at, child, child = next), at |-> child]

MoveRoot(s, ancestor, next) ==
    LET Step(t, i) == IF t.at = next
                      THEN t
                      ELSE StepTowards(t, next, NextChainAncestor(t.s, next, t.at))
    IN  [FoldLeft(Step, [s |-> s, at |-> ancestor], [i \in 1..Cardinality(Blocks(s)) |-> i]).s
            EXCEPT !.root = next]

AdvanceRoot(s, move) ==
    IF move.next = s.root THEN s ELSE MoveRoot(s, move.ancestor, move.next)

TryAdvancingReindexRoot(s, hint) == AdvanceRoot(s, FindNextReindexRoot(s, hint))

----------------------------------------------------------------------------
(* Adding and deleting blocks.                                             *)

InsertToFutureCoveringSet(s, merged, new) ==
    LET hit == Search(s, s.fcs[merged], new)
    IN  [Check(s, Ordered(s, s.fcs[merged]) /\ ~hit.found)
            EXCEPT !.fcs[merged] = InsertAt(@, hit.index + 1, new)]

(* Mutant: only the other parents are recorded, not what they merge.       *)
AddDagBlockShallow(s, new, mergeset) ==
    FoldSet(LAMBDA m, t : InsertToFutureCoveringSet(t, m, new), s,
            {m \in mergeset : \A x \in mergeset : ~IsStrictChainAncestorOf(s, m, x)})

AddDagBlock(s, new, mergeset) ==
    FoldSet(LAMBDA m, t : InsertToFutureCoveringSet(t, m, new), s, mergeset)

HintVirtualSelectedParent(s, hint) == IF s.ok THEN TryAdvancingReindexRoot(s, hint) ELSE s

(* add_block, and the hint the engine gives right after it.                *)
AddToStore(s, new, sp, mergeset) ==
    HintVirtualSelectedParent(AddDagBlock(AddTreeBlock(s, new, sp), new, mergeset), new)

ReplaceItem(hashes, i, with) ==
    SubSeq(hashes, 1, i - 1) \o with \o SubSeq(hashes, i + 1, Len(hashes))

(* Mutant: nobody takes over the labels of a deleted leaf.                 *)
TakeOverLeavingGap(s, parent, index, children, iv) ==
    IF children = <<>> THEN s ELSE
    LET first == SetInterval(s, Head(children),
                             Interval(iv.start, s.interval[Head(children)].end))
    IN  SetInterval(first, Last(children),
                    Interval(first.interval[Last(children)].start, iv.end))

(* The labels iv of a deleted block, the child number index of parent, go  *)
(* to its children or, if it has none, to the sibling before it.           *)
TakeOver(s, parent, index, children, iv) ==
    LET From(t, b, n) == SetInterval(t, b, Interval(n, t.interval[b].end))
        UpTo(t, b, n) == SetInterval(t, b, Interval(t.interval[b].start, n))
    IN  CASE children # <<>> ->
               UpTo(From(s, Head(children), iv.start), Last(children), iv.end)
          [] children = <<>> /\ index > 1 -> UpTo(s, s.children[parent][index - 1], iv.end)
          [] OTHER -> s

(* delete_block: the children of the block take its place below its tree   *)
(* parent and in the future covering sets, and they or a sibling take over *)
(* its labels.                                                             *)
DeleteFromStore(s, block, mergeset) ==
    LET iv == s.interval[block]
        parent == s.parent[block]
        children == s.children[block]
        own == Search(s, s.children[parent], block)
        item(m) == Search(s, s.fcs[m], block)
        relinked ==
          [Check(s, own.found /\ \A m \in mergeset : item(m).found)
             EXCEPT !.children[parent] = ReplaceItem(@, own.index, children),
                    !.parent = [b \in Blocks(s) |-> IF b \in ToSet(children) THEN parent ELSE @[b]],
                    !.fcs = [b \in Blocks(s) |-> IF b \in mergeset
                                                 THEN ReplaceItem(@[b], item(b).index, children)
                                                 ELSE @[b]]]
        covered == TakeOver(relinked, parent, own.index, children, iv)
        Without(f) == [b \in Blocks(s) \ {block} |-> f[b]]
    IN  [covered EXCEPT !.parent = Without(@), !.height = Without(@), !.children = Without(@),
                        !.interval = Without(@), !.fcs = Without(@)]

----------------------------------------------------------------------------
(* The specification.                                                      *)

Init ==
    /\ store = [parent   |-> [b \in {ORIGIN} |-> NONE],
                height   |-> [b \in {ORIGIN} |-> 0],
                children |-> [b \in {ORIGIN} |-> <<>>],
                interval |-> [b \in {ORIGIN} |-> Interval(1, Capacity)],
                fcs      |-> [b \in {ORIGIN} |-> <<>>],
                root     |-> ORIGIN,
                ok       |-> TRUE]
    /\ relations = [b \in {ORIGIN} |-> {}]
    /\ added = 0

(* The mergeset: the parents other than sp and, upwards from them by their *)
(* parents, the blocks that the index does not place in the past of sp.    *)
MergedBy(s, r, ps, sp) ==
    LET merged[x \in Blocks(s)] ==
          \/ x \in ps \ {sp}
          \/ /\ ~IsDagAncestorOf(s, x, sp)
             /\ \E y \in Blocks(s) : x \in r[y] /\ merged[y]
    IN  {x \in Blocks(s) : merged[x]}

CoveringItems(s) == MapThenSumSet(LAMBDA b : Len(s.fcs[b]), Blocks(s))

(* The parents a block may name; only the first block's parent is ORIGIN.  *)
ParentSets(s) ==
    LET known == IF Blocks(s) = {ORIGIN} THEN {ORIGIN} ELSE Blocks(s) \ {ORIGIN}
    IN  UNION {kSubset(n, known) : n \in 1..MaxParents}

(* The heaviest parent has no parent above it.  A parent below it, which   *)
(* the index may refuse (CoveredTwice of the Ghostdag module), is left     *)
(* out; the other parents may be ancestors of one another.                 *)
Selects(s, ps, sp) ==
    \A p \in ps \ {sp} : ~IsDagAncestorOf(s, sp, p) /\ ~IsDagAncestorOf(s, p, sp)

(* A block arrives, sp its selected parent.                                *)
AddBlock(ps, sp) ==
    /\ Selects(store, ps, sp)
    /\ LET mergeset == MergedBy(store, relations, ps, sp)
       IN  /\ CoveringItems(store) + Cardinality(mergeset) <= MaxMerged
           /\ store' = AddToStore(store, added + 1, sp, mergeset)
    /\ relations' = [b \in Blocks(store) \cup {added + 1} |->
                        IF b = added + 1 THEN ps ELSE relations[b]]
    /\ added' = added + 1

(* delete_block of a block other than the two the index itself refers to,  *)
(* with the mergeset it was added with; its children inherit its parents.  *)
DeleteBlock(b) ==
    /\ b \notin {ORIGIN, store.root}
    /\ added + 1 - Cardinality(Blocks(store)) < MaxDeleted
    /\ store' = DeleteFromStore(store, b, MergedBy(store, relations, relations[b], store.parent[b]))
    /\ relations' = [x \in Blocks(store) \ {b} |->
                        IF b \in relations[x] THEN (relations[x] \ {b}) \cup relations[b]
                                              ELSE relations[x]]
    /\ UNCHANGED added

Next ==
    /\ store.ok
    /\ \/ /\ added + 1 \in Hash
          /\ \E ps \in ParentSets(store) : \E sp \in ps : AddBlock(ps, sp)
       \/ \E b \in Blocks(store) : DeleteBlock(b)

Spec == Init /\ [][Next]_vars

----------------------------------------------------------------------------
(* Properties.                                                             *)

(* As long as labels are not used up by more blocks than the capacity is   *)
(* meant for, no operation fails: no assertion of the interval arithmetic, *)
(* no u64 underflow in reclaiming slack, no DataOverflow, no               *)
(* DataInconsistency.                                                      *)
NeverFails == store.ok

(* Interval containment answers chain ancestry exactly as the tree parents *)
(* do, across every reindexing and move of the root (is_chain_ancestor_of).*)
ChainQueriesExact ==
    \A a, b \in Blocks(store) : IsChainAncestorOf(store, a, b) <=> InSubtree(store, b, a)

(* The tree stays allocatable: siblings are consecutive and follow one     *)
(* another, no interval is empty and future covering sets are ordered      *)
(* (validate_intervals of the crate's tests).                              *)
IntervalsValid ==
    \A b \in Blocks(store) :
        /\ Size(store.interval[b]) > 0
        /\ LET children == store.children[b]
           IN  \A i \in 1..(Len(children) - 1) :
                   store.interval[children[i]].end + 1 = store.interval[children[i+1]].start
        /\ Ordered(store, store.fcs[b])

(* The index answers is_dag_ancestor_of as the parents that were passed    *)
(* with the blocks define it, and deleting a block changes no answer about *)
(* the others.                                                             *)
QueriedPast ==
    [b \in Blocks(store) |-> {a \in Blocks(store) \ {b} : IsDagAncestorOf(store, a, b)}]

Promise == INSTANCE Ancestry WITH parents <- relations, past <- QueriedPast

AnswersAncestry == Promise!Spec

=============================================================================
