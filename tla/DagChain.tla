------------------------------ MODULE DagChain ------------------------------
(***************************************************************************)
(* DagChain (crates/tao-dagvm/src/dag_chain.rs): the blockDAG chain of one *)
(* node, as operators on a chain value c with the fields of the struct:    *)
(* engine, log, tips, headers, block_txs, base_accounts, state, executed,  *)
(* checkpoint, history_pruned, proof, bootstrapped, bootstrap_work.  The   *)
(* set `blocks' is DOMAIN headers and genesis_dag is engine.genesis.       *)
(*                                                                         *)
(* Data is abstracted to what the operations tell apart:                   *)
(*  - a block is [id, header, txs]; every block carries transactions, txs  *)
(*    says that their bytes are present (they hash to the merkle root);    *)
(*  - an account set is the sequence of the block executions that produced *)
(*    it, from the genesis allocations <<>>; an execution is <<id, txs>>;  *)
(*  - a target is <<>> (genesis target) or the window of blocks whose      *)
(*    timestamps and targets the LWMA averaged; timestamps are left out;   *)
(*  - Level[b] is pow_level of b: how many zero bits its hash has beyond   *)
(*    its target; every header of a proof weighs 1.                        *)
(* poisoned marks a chain whose engine has panicked (see Ghostdag).        *)
(***************************************************************************)
EXTENDS Ghostdag

CONSTANTS
    Genesis,          \* id of the genesis header
    LwmaWindow,       \* lwma_window
    FinalityDepth,    \* finality_depth, at least 1 (set_finality_depth)
    MaxParents,       \* MAX_PARENTS
    Level,            \* pow_level of every block
    NONE              \* Option::None

ASSUME ChainAssumption ==
    /\ Genesis \in Hash
    /\ LwmaWindow \in Nat
    /\ FinalityDepth \in Nat \ {0}
    /\ MaxParents \in Nat \ {0}
    /\ Level \in [Hash -> Nat]
    /\ Level[Genesis] = 0

AccountSets == Seq(Hash \X BOOLEAN)

Checkpoints == [len : Nat, last_id : Hash, accounts : AccountSets]

ASSUME NoneAssumption == NONE \notin AccountSets \cup Checkpoints

Known(c)  == DOMAIN c.headers
Origin(c) == c.engine.genesis

From(s, i) == SubSeq(s, i, Len(s))
Upto(s, i) == SubSeq(s, 1, i)

(* s without the elements of S.                                            *)
Skip(S, kept, x) == IF x \in S THEN kept ELSE Append(kept, x)

Without(S, s) == FoldLeft(LAMBDA kept, x : Skip(S, kept, x), <<>>, s)

----------------------------------------------------------------------------
(* Difficulty and interlinks.                                              *)

(* Mutant: one block too many.                                             *)
WindowTooLong(c, sp) ==
    LET chain == SelectedChain(c.engine, sp)
    IN  From(chain, Max({1, Len(chain) - LwmaWindow - 1}))

(* The selected chain below sp: window + 1 blocks, or as far as the origin *)
Window(c, sp) ==
    LET chain == SelectedChain(c.engine, sp)
    IN  From(chain, Max({1, Len(chain) - LwmaWindow}))

(* next_target holds the last target until it sees window + 1 headers.     *)
SelectedChainTarget(c, sp) ==
    IF Len(Window(c, sp)) <= Max({2, LwmaWindow})
    THEN c.headers[sp].target
    ELSE Window(c, sp)

(* sp's interlink with the entries 0..level(sp) pointing at sp.            *)
InterlinkForParent(c, sp) ==
    LET il == c.headers[sp].interlink
    IN  [k \in 1..Max({Len(il), Level[sp] + 1}) |-> IF k <= Level[sp] + 1 THEN sp ELSE il[k]]

HeaderOn(c, parents, sp) ==
    [parents   |-> parents,
     target    |-> SelectedChainTarget(c, sp),
     interlink |-> InterlinkForParent(c, sp)]

(* Mutant: the proof of the current origin is not consulted.               *)
RetainedHeaders(c) == [x \in Known(c) |-> c.headers[x].interlink]

(* build_proof_for: the headers met by following the last interlink entry  *)
(* from p, first one first; a header is looked up among the retained ones, *)
(* then in the proof of the current origin.                                *)
ProofHeaders(c) == [x \in Known(c) \cup {h.id : h \in ToSet(c.proof)} |->
                      IF x \in Known(c) THEN c.headers[x].interlink
                      ELSE (CHOOSE h \in ToSet(c.proof) : h.id = x).interlink]

BuildProofFor(c, p) ==
    LET links == ProofHeaders(c)
        walk[x \in DOMAIN links] ==
          LET here == [id |-> x, interlink |-> links[x]]
          IN  IF links[x] = <<>> \/ Last(links[x]) \notin DOMAIN links
              THEN <<here>>
              ELSE Append(walk[Last(links[x])], here)
    IN  walk[p]

(* verify_proof, and the work it returns.                                  *)
VerifyProof(proof, origin) ==
    /\ proof # <<>>
    /\ proof[1].id = Genesis
    /\ Last(proof).id = origin
    /\ \A i \in 2..Len(proof) :
         proof[i].interlink # <<>> /\ Last(proof[i].interlink) = proof[i - 1].id

ProofWork(proof) == Len(proof)

----------------------------------------------------------------------------
(* Opening, applying, mining and accepting blocks.                         *)

NewChain ==
    [engine         |-> NewEngine(Genesis),
     log            |-> <<>>,
     tips           |-> <<Genesis>>,
     headers        |-> [x \in {Genesis} |->
                           [parents |-> {}, target |-> <<>>, interlink |-> <<>>]],
     block_txs      |-> {},
     base_accounts  |-> NONE,
     state          |-> NONE,
     executed       |-> <<>>,
     checkpoint     |-> NONE,
     history_pruned |-> FALSE,
     proof          |-> <<>>,
     bootstrapped   |-> FALSE,
     bootstrap_work |-> 0,
     poisoned       |-> FALSE]

(* Parents that are not retained are remapped to the origin, which also    *)
(* stands in where a header has no parents.                                *)
RemapParents(parents, kept, origin) ==
    LET remapped == {IF p \in kept THEN p ELSE origin : p \in parents}
    IN  IF remapped = {} THEN {origin} ELSE remapped

(* Mutant: the parents stay among the tips.                                *)
TipsGrow(tips, block) == Append(tips, block.id)

(* The block replaces its parents among the tips.                          *)
TipsAfter(tips, block) ==
    Append(Without(block.header.parents, tips), block.id)

(* apply / apply_with_id.                                                  *)
Apply(c, block) ==
    LET parents == RemapParents(block.header.parents, Known(c), Origin(c))
    IN  IF c.poisoned \/ block.id \in Known(c)
        THEN c
        ELSE IF CoveredTwice(c.engine, parents)
        THEN [c EXCEPT !.poisoned = TRUE]
        ELSE [c EXCEPT
                !.engine    = AddToEngine(@, block.id, parents),
                !.headers   = Insert(@, block.id, block.header),
                !.block_txs = IF block.txs THEN @ \cup {block.id} ELSE @,
                !.tips      = TipsAfter(@, block)]

BlockRecord(block) == [kind |-> "block", block |-> block]

(* Mutant: the block is applied but not logged.                            *)
ApplyUnlogged(c, block) == Apply(c, block)

(* log.append then apply.                                                  *)
AppendAndApply(c, block) ==
    Apply([c EXCEPT !.log = Append(@, BlockRecord(block))], block)

(* Mutant: the list of tips is cut without keeping the heaviest.           *)
FirstTips(c) == ToSet(Upto(c.tips, Min({Len(c.tips), MaxParents})))

(* build_block_at: all tips, or the heaviest and the oldest others.        *)
MiningParents(c) ==
    LET others == Without({c.engine.tip}, c.tips)
    IN  IF Len(c.tips) <= MaxParents
        THEN ToSet(c.tips)
        ELSE {c.engine.tip} \cup ToSet(Upto(others, MaxParents - 1))

BuildBlock(c, b) ==
    [id |-> b, header |-> HeaderOn(c, MiningParents(c), c.engine.tip), txs |-> TRUE]

MineBlock(c, b) == AppendAndApply(c, BuildBlock(c, b))

(* validate_block_intrinsic.                                               *)
IntrinsicallyValid(block) ==
    /\ block.header.parents # {}
    /\ Cardinality(block.header.parents) <= MaxParents
    /\ block.txs

(* Mutant: the current tip stands for the block's selected parent.         *)
CurrentTip(c, parents) == c.engine.tip

(* selected_parent_dag.                                                    *)
SelectedParentDag(c, parents) == FindSelectedParent(c.engine, parents)

(* The checks of accept, in the code's order.                              *)
AcceptResult(c, block) ==
    LET h  == block.header
        sp == SelectedParentDag(c, h.parents)
    IN  IF block.id \in Known(c) THEN "known"
        ELSE IF ~IntrinsicallyValid(block) THEN "invalid"
        ELSE IF ~(h.parents \subseteq Known(c))
             THEN IF c.history_pruned THEN "parent pruned" ELSE "orphan"
        ELSE IF h.target # SelectedChainTarget(c, sp) THEN "unexpected target"
        ELSE IF h.interlink # InterlinkForParent(c, sp) THEN "invalid interlink"
        ELSE "ok"

Accept(c, block) ==
    IF AcceptResult(c, block) = "ok" THEN AppendAndApply(c, block) ELSE c

(* get_block: a block whose bodies were dropped is served without them.    *)
GetBlock(c, b) == [id |-> b, header |-> c.headers[b], txs |-> b \in c.block_txs]

----------------------------------------------------------------------------
(* State: replaying blocks, the virtual state and the checkpoint.          *)

(* The origin is skipped; a block without its body only pays its miner.    *)
ReplayBlock(c, accounts, b) ==
    IF b = Origin(c) THEN accounts ELSE Append(accounts, <<b, b \in c.block_txs>>)

ReplayBlocks(c, accounts, blocks) ==
    FoldLeft(LAMBDA a, b : ReplayBlock(c, a, b), accounts, blocks)

SeedAccounts(c) == IF c.base_accounts = NONE THEN <<>> ELSE c.base_accounts

(* Bodies are gone and there is no re-anchor base to start from.           *)
NoReplayBase(c) == c.history_pruned /\ c.base_accounts = NONE

RebuildState(c) == ReplayBlocks(c, SeedAccounts(c), TotalOrder(c.engine))

MaybeAdvanceCheckpoint(c) ==
    LET cp_len == IF c.checkpoint = NONE THEN 0 ELSE c.checkpoint.len
        from   == IF c.checkpoint = NONE THEN SeedAccounts(c) ELSE c.checkpoint.accounts
        target == Len(c.executed) - FinalityDepth
    IN  IF Len(c.executed) < cp_len + 2 * FinalityDepth
        THEN c
        ELSE [c EXCEPT !.checkpoint =
                [len      |-> target,
                 last_id  |-> c.executed[target],
                 accounts |-> ReplayBlocks(c, from, SubSeq(c.executed, cp_len + 1, target))]]

(* Mutant: only the lengths of the two orders are compared.                *)
CanExtendByLength(c) == c.state # NONE /\ Len(c.executed) <= Len(TotalOrder(c.engine))

CanExtend(c) == c.state # NONE /\ IsPrefix(c.executed, TotalOrder(c.engine))

CheckpointMatches(c) ==
    LET order == TotalOrder(c.engine)
    IN  /\ c.checkpoint # NONE
        /\ Len(order) >= c.checkpoint.len
        /\ order[c.checkpoint.len] = c.checkpoint.last_id

VirtualStateFails(c) == ~CanExtend(c) /\ ~CheckpointMatches(c) /\ NoReplayBase(c)

(* The state is extended, or rebuilt from the checkpoint or the base.      *)
StateFor(c, order) ==
    IF CanExtend(c)
    THEN ReplayBlocks(c, c.state, From(order, Len(c.executed) + 1))
    ELSE IF CheckpointMatches(c)
    THEN ReplayBlocks(c, c.checkpoint.accounts, From(order, c.checkpoint.len + 1))
    ELSE ReplayBlocks(c, SeedAccounts(c), order)

VirtualState(c) ==
    LET Cached(order) == [c EXCEPT !.state = StateFor(c, order), !.executed = order]
    IN  IF VirtualStateFails(c)
        THEN [c EXCEPT !.state = NONE]
        ELSE MaybeAdvanceCheckpoint(Cached(TotalOrder(c.engine)))

----------------------------------------------------------------------------
(* Pruning.                                                                *)

(* prune_finalized_transactions: drops the bodies of the checkpoint prefix *)
(* of `executed'; the slice panics when executed is shorter.               *)
PruneTxsPanics(c) == c.checkpoint # NONE /\ Len(c.executed) < c.checkpoint.len

PruneFinalizedTransactions(c) ==
    LET dropped == c.block_txs \cap ToSet(Upto(c.executed, c.checkpoint.len))
    IN  IF c.checkpoint = NONE \/ dropped = {}
        THEN c
        ELSE [c EXCEPT !.block_txs = @ \ dropped, !.history_pruned = TRUE,
                       !.state = NONE, !.executed = <<>>]

(* Mutant: only finality_depth blocks are retained.                        *)
PruneIndexWithoutWindow(c) ==
    LET order == TotalOrder(c.engine)
        n     == Len(order)
        chain == ToSet(SelectedChain(c.engine, c.engine.tip))
    IN  IF n <= FinalityDepth + 1
        THEN 0
        ELSE Max({0} \cup {i \in 2..(n - FinalityDepth + 1) : order[i] \in chain})

(* The position in the total order of the pruning point: the last block of *)
(* the selected chain after the origin that leaves `retain' blocks behind  *)
(* the tip; 0 when there is none.                                          *)
PruneIndex(c) ==
    LET order  == TotalOrder(c.engine)
        n      == Len(order)
        retain == LwmaWindow + FinalityDepth
        chain  == ToSet(SelectedChain(c.engine, c.engine.tip))
    IN  IF n <= retain + 1
        THEN 0
        ELSE Max({0} \cup {i \in 2..(n - retain + 1) : order[i] \in chain})

(* After bodies were dropped the base comes from the checkpoint, which    *)
(* must not lie beyond the pruning point.                                  *)
PruneFails(c) ==
    /\ PruneIndex(c) # 0
    /\ NoReplayBase(c)
    /\ c.checkpoint = NONE \/ c.checkpoint.len > PruneIndex(c)

(* Mutant: the pruning point itself is not executed.                       *)
NewBaseBeforePoint(c) ==
    ReplayBlocks(c, SeedAccounts(c), Upto(TotalOrder(c.engine), PruneIndex(c) - 1))

(* The accounts after the prefix up to the pruning point.                  *)
NewBase(c) ==
    LET prefix == Upto(TotalOrder(c.engine), PruneIndex(c))
    IN  IF NoReplayBase(c)
        THEN ReplayBlocks(c, c.checkpoint.accounts, From(prefix, c.checkpoint.len + 1))
        ELSE ReplayBlocks(c, SeedAccounts(c), prefix)

(* The parents with which the kept suffix is added again.                  *)
KeptParents(c, p, suffix) ==
    [b \in ToSet(suffix) |-> RemapParents(c.headers[b].parents, {p} \cup ToSet(suffix), p)]

(* Mutant: kept blocks are added again below their heaviest parent only.   *)
ReAddChainOnly(parents, r, b) ==
    [r EXCEPT !.engine = AddToEngine(@, b, {FindSelectedParent(r.engine, parents[b])})]

(* add_block of a kept block.  It panics when a parent has not been added  *)
(* yet, the block has been, or the index refuses it.                       *)
ReAdd(parents, r, b) ==
    IF \/ r.panics
       \/ ~(parents[b] \subseteq Blocks(r.engine))
       \/ b \in Blocks(r.engine)
       \/ CoveredTwice(r.engine, parents[b])
    THEN [r EXCEPT !.panics = TRUE]
    ELSE [r EXCEPT !.engine = AddToEngine(@, b, parents[b])]

(* The engine re-rooted at p with the kept suffix added again in order.    *)
Reanchor(c, p, suffix) ==
    LET parents == KeptParents(c, p, suffix)
    IN  FoldLeft(LAMBDA r, b : ReAdd(parents, r, b),
                 [engine |-> NewEngine(p), panics |-> FALSE], suffix)

(* Mutant: the proof is not written.                                       *)
SnapshotWithoutProof(p, header, accounts, proof) ==
    [kind |-> "snapshot", origin |-> p, header |-> header, accounts |-> accounts, proof |-> <<>>]

SnapshotRecord(p, header, accounts, proof) ==
    [kind |-> "snapshot", origin |-> p, header |-> header, accounts |-> accounts, proof |-> proof]

ResetState(c) == [c EXCEPT !.state = NONE, !.executed = <<>>, !.checkpoint = NONE]

Retain(c, kept) ==
    [c EXCEPT !.headers = Restrict(@, kept), !.block_txs = @ \cap kept]

(* Mutant: tips that were not merged stay, without their blocks.           *)
OldTips(c, engine) == c.tips

(* tips are reset to the tip of the new engine.                            *)
PrunedTips(c, engine) == <<engine.tip>>

(* The chain re-anchored at p.                                             *)
PrunedTo(c, p, suffix, readded, base, proof) ==
    IF readded.panics
    THEN [c EXCEPT !.poisoned = TRUE]
    ELSE [Retain(ResetState(c), {p} \cup ToSet(suffix)) EXCEPT
            !.engine         = readded.engine,
            !.log            = <<SnapshotRecord(p, c.headers[p], base, proof)>>
                                 \o [j \in DOMAIN suffix |-> BlockRecord(GetBlock(c, suffix[j]))],
            !.base_accounts  = base,
            !.history_pruned = TRUE,
            !.tips           = PrunedTips(c, readded.engine),
            !.proof          = proof]

PruneAt(c, p, suffix) ==
    PrunedTo(c, p, suffix, Reanchor(c, p, suffix), NewBase(c), BuildProofFor(c, p))

Prune(c) ==
    LET Cut(order, i) ==
          IF i = 0 \/ PruneFails(c) THEN c ELSE PruneAt(c, order[i], From(order, i + 1))
    IN  Cut(TotalOrder(c.engine), PruneIndex(c))

OriginHeader(snap) == [x \in {snap.origin} |-> snap.header]

(* load_snapshot.                                                          *)
LoadSnapshot(c, snap) ==
    [ResetState(c) EXCEPT
       !.engine         = NewEngine(snap.origin),
       !.tips           = <<snap.origin>>,
       !.headers        = OriginHeader(snap),
       !.block_txs      = {},
       !.base_accounts  = snap.accounts,
       !.history_pruned = TRUE,
       !.proof          = snap.proof]

(* One record of the log.                                                  *)
Replay(c, rec) ==
    IF c.poisoned THEN c
    ELSE IF rec.kind = "snapshot" THEN LoadSnapshot(c, rec) ELSE Apply(c, rec.block)

(* open_with_genesis: replay of the durable log.                           *)
Open(log) == [FoldLeft(Replay, NewChain, log) EXCEPT !.log = log]

----------------------------------------------------------------------------
(* Bootstrapping a peer.                                                   *)

CanExport(c) == c.history_pruned /\ c.base_accounts # NONE

(* Mutant: the accounts at the tip are shipped.                            *)
CurrentAccounts(c) == RebuildState(c)

SnapshotAccounts(c) == c.base_accounts

ExportSnapshot(c) ==
    LET order == TotalOrder(c.engine)
    IN  [origin   |-> Origin(c),
         header   |-> c.headers[Origin(c)],
         accounts |-> SnapshotAccounts(c),
         proof    |-> c.proof,
         suffix   |-> [j \in 1..(Len(order) - 1) |-> GetBlock(c, order[j + 1])]]

(* A fresh node adopts; a bootstrapped one only for strictly more work.    *)
AdoptsSnapshot(c, snap) ==
    /\ snap.origin \notin Known(c)
    /\ VerifyProof(snap.proof, snap.origin)
    /\ \/ Known(c) = {Genesis} /\ ~c.history_pruned
       \/ c.bootstrapped /\ ProofWork(snap.proof) > c.bootstrap_work
    /\ \A j \in DOMAIN snap.suffix : IntrinsicallyValid(snap.suffix[j])

ImportSnapshot(c, snap) ==
    LET loaded == FoldLeft(Apply, LoadSnapshot(c, snap), snap.suffix)
    IN  IF ~AdoptsSnapshot(c, snap)
        THEN c
        ELSE IF loaded.poisoned
        THEN loaded
        ELSE [loaded EXCEPT
                !.log = <<SnapshotRecord(snap.origin, snap.header, snap.accounts, snap.proof)>>
                          \o [j \in DOMAIN snap.suffix |-> BlockRecord(snap.suffix[j])],
                !.bootstrapped   = TRUE,
                !.bootstrap_work = ProofWork(snap.proof)]
=============================================================================
