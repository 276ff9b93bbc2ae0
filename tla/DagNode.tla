------------------------------ MODULE DagNode -------------------------------
(***************************************************************************)
(* One DagChain (crates/tao-dagvm/src/dag_chain.rs) among nodes that never *)
(* prune.  Every public operation of DagChain that changes it is an        *)
(* action: mine, accept, virtual_state, prune,                             *)
(* prune_finalized_transactions and a restart, which may come at any time  *)
(* (a crash) and rebuilds the chain from its durable log.                  *)
(*                                                                         *)
(* The rest of the network is the DAG it has mined so far.  Some node of   *)
(* it mines on whatever antichain of blocks it has seen; blocks reach the  *)
(* modelled node late and in any order.                                    *)
(***************************************************************************)
EXTENDS DagChain

CONSTANTS
    Pruning,        \* prune is called
    Dropping,       \* prune_finalized_transactions is called
    HashWindow,     \* bound: how many hashes a new block may choose from
    MaxWidth        \* bound: how many tips the network's DAG may have

ASSUME NodeAssumption ==
    /\ {Pruning, Dropping} \subseteq BOOLEAN
    /\ {HashWindow, MaxWidth} \subseteq Nat

VARIABLES
    chain,      \* the DagChain
    network,    \* what a node that never prunes holds of the same DAG, and
                \* the hashes of all blocks mined so far
    events      \* history: what has happened of
                \*   "deep reorg"  the order changed below the checkpoint,
                \*   "side block"  prune kept a block that does not descend
                \*                 from the pruning point,
                \*   "late drop"   bodies were dropped after a prune

vars == <<chain, network, events>>

Init ==
    /\ chain = NewChain
    /\ network = [engine |-> NewChain.engine, headers |-> NewChain.headers,
                  history_pruned |-> FALSE, mined |-> {Genesis}]
    /\ events = {}

----------------------------------------------------------------------------
(* The network's DAG.                                                      *)

(* Any hash may come up; the bound keeps the HashWindow smallest ones.     *)
Fresh(b) ==
    LET unused == Hash \ network.mined
    IN  b \in unused /\ Cardinality({x \in unused : x < b}) < HashWindow

(* The blocks no other block references.                                   *)
Tips(n) == {b \in Known(n) : \A d \in Known(n) : b \notin n.headers[d].parents}

(* accept and apply, by a node with full history, of a block just mined.   *)
NetworkAccept(n, block) ==
    LET m == [n EXCEPT !.mined = @ \cup {block.id}]
    IN  IF AcceptResult(n, block) = "ok"
        THEN [m EXCEPT !.engine  = AddToEngine(@, block.id, block.header.parents),
                       !.headers = Insert(@, block.id, block.header)]
        ELSE m

NetworkBlock(b) == [id |-> b, header |-> network.headers[b], txs |-> TRUE]

(* A block built by a node whose tips are ps.                              *)
PeerMines(b, ps) ==
    /\ Fresh(b)
    /\ Cardinality(ps) <= MaxParents
    /\ IsAntichain(network.engine, ps)
    /\ Cardinality(Tips(network) \ ps) < MaxWidth
    /\ network' = NetworkAccept(network,
                    [id     |-> b,
                     header |-> HeaderOn(network, ps, FindSelectedParent(network.engine, ps)),
                     txs    |-> TRUE])
    /\ UNCHANGED <<chain, events>>

----------------------------------------------------------------------------
(* The node.                                                               *)

Alive == ~chain.poisoned

(* mine, and the broadcast of the block.                                   *)
Mine(b) ==
    /\ Alive
    /\ Fresh(b)
    /\ chain' = MineBlock(chain, b)
    /\ network' = NetworkAccept(network, BuildBlock(chain, b))
    /\ UNCHANGED events

(* accept of a block of the network.                                       *)
Receive(b) ==
    /\ Alive
    /\ b \notin Known(chain)
    /\ chain' = Accept(chain, NetworkBlock(b))
    /\ UNCHANGED <<network, events>>

(* The account set after `order' when no body was missing.                 *)
Executions(c, order) ==
    ReplayBlocks([c EXCEPT !.block_txs = Known(c)], SeedAccounts(c), order)

(* The checkpoint is not a prefix of the current order.                    *)
CheckpointStale(c) ==
    LET order == TotalOrder(c.engine)
    IN  /\ c.checkpoint # NONE
        /\ \/ Len(order) < c.checkpoint.len
           \/ c.checkpoint.accounts # Executions(c, Upto(order, c.checkpoint.len))

Event(name, happens) == IF happens THEN {name} ELSE {}

(* virtual_state.                                                          *)
QueryState ==
    /\ Alive
    /\ chain' = VirtualState(chain)
    /\ events' = events \cup Event("deep reorg", CheckpointStale(chain))
    /\ UNCHANGED network

(* Every block kept by prune descends from the pruning point: no block was *)
(* mined in parallel to it.                                                *)
CleanCut(c) ==
    LET order == TotalOrder(c.engine)
        i     == PruneIndex(c)
    IN  \A b \in ToSet(From(order, i + 1)) : i # 0 => order[i] \in c.engine.past[b]

(* prune.                                                                  *)
PruneHistory ==
    /\ Pruning
    /\ Alive
    /\ chain' = Prune(chain)
    /\ events' = events \cup Event("deep reorg", CheckpointStale(chain))
                       \cup Event("side block", ~CleanCut(chain))
    /\ UNCHANGED network

(* prune_finalized_transactions.                                           *)
DropBodies ==
    /\ Dropping
    /\ Alive
    /\ chain' = IF PruneTxsPanics(chain)
                THEN [chain EXCEPT !.poisoned = TRUE]
                ELSE PruneFinalizedTransactions(chain)
    /\ events' = events \cup Event("late drop", chain.base_accounts # NONE
                                                 /\ chain'.block_txs # chain.block_txs)
    /\ UNCHANGED network

(* The process ends, at any point, and opens its data directory again.     *)
Restart ==
    /\ chain' = Open(chain.log)
    /\ UNCHANGED <<network, events>>

Next ==
    \/ \E b \in Hash : \E ps \in (SUBSET Known(network)) \ {{}} : PeerMines(b, ps)
    \/ \E b \in Hash : Mine(b)
    \/ \E b \in Known(network) : Receive(b)
    \/ QueryState
    \/ PruneHistory
    \/ DropBodies
    \/ Restart

Spec == Init /\ [][Next]_vars

----------------------------------------------------------------------------
(* The difficulty window below sp is retained in full: the premise of INV3 *)
(* of docs/pruning.md.  A node that was never pruned lacks nothing.        *)
FullWindow(c, sp) == Origin(c) = Genesis \/ Len(Window(c, sp)) > LwmaWindow

(* A result of accept on which fork safety rests: the block is taken; only *)
(* where a prune left too short a window may its target be unexpected.     *)
Agreed(result, full) == result = "ok" \/ (~full /\ result = "unexpected target")

(* The block this node would mine next is accepted by nodes with full      *)
(* history that have its parents, also when there are more tips than a     *)
(* block may reference: build_block_at derives target and interlink from   *)
(* the heaviest tip, accept from the selected parent of the parents that   *)
(* were written into the header; and after prunes that kept only           *)
(* descendants of their pruning point.                                     *)
PeersAccept ==
    /\ Alive /\ "side block" \notin events
    /\ MiningParents(chain) \subseteq Known(network)
    => \A b \in Hash \ network.mined :
         Agreed(AcceptResult(network, BuildBlock(chain, b)), FullWindow(chain, chain.engine.tip))

(* A block of the network whose parents c has passes c's accept: two nodes *)
(* compute the same target and interlink from different sets of blocks,    *)
(* received in different orders, before and after restarts, and after      *)
(* prunes that kept only descendants of their pruning point.               *)
AcceptsNetwork(c) ==
    ~c.poisoned /\ "side block" \notin events =>
      \A b \in Known(network) \ (Known(c) \cup {Genesis}) :
        LET parents == network.headers[b].parents
        IN  parents \subseteq Known(c) =>
              Agreed(AcceptResult(c, NetworkBlock(b)),
                     FullWindow(c, SelectedParentDag(c, parents)))

AcceptsPeers == AcceptsNetwork(chain)

(* Nodes that agree on a tip agree on everything they execute up to it, in *)
(* whatever order the blocks reached them, and after any restart and any   *)
(* prune that kept only descendants of its pruning point: what this node   *)
(* lacks is a beginning, for which its base stands.  And they agree on the *)
(* tip once they know the same blocks above this node's origin.            *)
InSync ==
    /\ Known(chain) \subseteq Known(network)
    /\ Known(network) \subseteq Known(chain) \cup network.engine.past[Origin(chain)]

AgreedOrder ==
    "side block" \notin events =>
      /\ chain.engine.tip \in Known(network) =>
           IsSuffix(TotalOrder(chain.engine), OrderUpTo(network.engine, chain.engine.tip))
      /\ InSync => chain.engine.tip = network.engine.tip

(* A restart at any moment replays the log into the chain that was in      *)
(* memory ("a restart replays the snapshot + suffix and reproduces the     *)
(* pruned chain", docs/pruning.md).                                        *)
Durable(c) == [engine |-> c.engine, headers |-> c.headers, tips |-> c.tips,
               base |-> c.base_accounts, proof |-> c.proof]

ReopenReproduces == Alive => Durable(Open(chain.log)) = Durable(chain)

(* The tips, maintained block by block and reset by prune, are the blocks  *)
(* without children, so the next block references all of the DAG.          *)
TipsChildless == Alive => ToSet(chain.tips) = Tips(chain)

(* The cached state is what executing the cached order gives, bodies       *)
(* included, whether it was extended, rebuilt from the checkpoint after a  *)
(* reorg, or rebuilt from the base.                                        *)
StateFollowsOrder ==
    chain.state # NONE /\ events = {} => chain.state = Executions(chain, chain.executed)

(* "Result is always identical to rebuild_state" (virtual_state).          *)
VirtualIsRebuild ==
    chain.state # NONE /\ chain.executed = TotalOrder(chain.engine) /\ ~NoReplayBase(chain)
      => chain.state = RebuildState(chain)

(* "The combined proof stays genesis-anchored across any number of         *)
(* prunes" (docs/pruning.md): it leads from the genesis to the origin and  *)
(* verify_proof takes it, though the headers it was built from are gone.   *)
(* The interlink of a kept block that does not descend from the pruning    *)
(* point may end in a pruned block that the proof steps over, and then     *)
(* build_proof_for stops above the genesis; hence the condition.           *)
ProofVerifies ==
    "side block" \notin events /\ chain.base_accounts # NONE =>
      VerifyProof(chain.proof, Origin(chain))

(* The base holds the effects of exactly the past of the pruning point and *)
(* of the point itself, each once, with its transactions, also when the    *)
(* bodies were dropped before the prune.                                   *)
BaseIsPast ==
    LET executions == ToSet(chain.base_accounts)
        past       == network.engine.past[Origin(chain)] \cup {Origin(chain)}
    IN  /\ executions = (past \ {Genesis}) \X {TRUE}
        /\ Len(chain.base_accounts) = Cardinality(executions)

BaseFaithful == chain.base_accounts # NONE /\ events = {} => BaseIsPast

(* prune keeps the total order from P onward when every kept block         *)
(* descends from P, in this prune and in those before it.                  *)
CleanOrderSuffix ==
    [][PruneHistory /\ "side block" \notin events' =>
         IsSuffix(TotalOrder(chain'.engine), TotalOrder(chain.engine))]_vars

(* INV2 of docs/pruning.md: prune keeps the total order from P onward.     *)
OrderSuffix ==
    [][PruneHistory /\ ~chain'.poisoned =>
         IsSuffix(TotalOrder(chain'.engine), TotalOrder(chain.engine))]_vars

(* The blocks c holds beside its selected chain.                           *)
OffChain(c) == Known(c) \ ToSet(SelectedChain(c.engine, c.engine.tip))

(* With such a cut next_target survives as well (INV3 of docs/pruning.md)  *)
(* as long as finality_depth makes up for the merged blocks, which prune   *)
(* counts as depth but which are not on the selected chain.                *)
CleanTargetKept ==
    [][PruneHistory /\ "side block" \notin events' /\ Cardinality(OffChain(chain')) < FinalityDepth =>
         SelectedChainTarget(chain', chain'.engine.tip)
           = SelectedChainTarget(chain, chain.engine.tip)]_vars

=============================================================================
