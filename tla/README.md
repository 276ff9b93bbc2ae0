# A TLA+ development of tao

tao is a proof-of-work chain that executes Solana transactions. The repository
holds two nodes: a *linear node* (one chain, most cumulative work) and a *DAG
node* (a blockDAG ordered by GHOSTDAG, with pruning and snapshots). This
directory models the state machines of both, checks them with TLC on small
instances, and proves with TLAPS, for all instances, the central facts about the
GHOSTDAG engine and of a pruning DAG node, and everything the runs check of the linear
node, the block log and the ledger. Every definition that models code is listed with its lines under
`map` in `PROJECT.json`.

## 1. Inventory

| Component | State it keeps | Operations | Interacts with |
|---|---|---|---|
| `tao-ghostdag` (`engine.rs`, `protocol.rs`) | relations, GHOSTDAG data of every block, tip | `add_block`, `total_order` | reachability index; called by `DagChain` |
| `tao-reachability` | interval tree, future covering sets, reindex root | `add_block`, `delete_block`, `hint_virtual_selected_parent`, `is_dag_ancestor_of` | called by the engine |
| `tao-dagvm` `DagChain` | engine, headers, bodies, tips, log, base accounts, cached state and order, checkpoint, proof, bootstrap marks | `mine`, `accept`, `virtual_state`, `prune`, `prune_finalized_transactions`, `export_snapshot`, `import_snapshot`, open | engine, block log, bank; called by `dag_run` |
| `tao-node` `dag_run` | pending orphans, seen transactions, request timers | one loop: inbound, apply, backfill, maintenance, mine | `DagChain`, network, RPC state |
| `tao-consensus` | headers with cumulative work, tip | `add_header`, `build_candidate`, LWMA `next_target` | called by the linear node |
| `tao-node` linear node | chain, accounts, log, shared RPC state | `prepare`, `run`, `mine_one`, `apply_peer_block` | consensus, bank, log, mempool, network |
| `tao-mempool` | transactions, seen signatures | `submit`, `drain` | RPC threads submit, the node loop drains |
| `tao-p2p` | connected peers | `start` (listen, dial), `broadcast`, `send_to`, read loops | delivers into a channel that the node loop empties |
| `tao-database` block log | a file of framed records | `append`, `replace_all`, `read_all` | both nodes; the only durable state |
| `tao-database` accounts, SMT | key-value store, Merkle tree | `set`, `commit`, `dump`, `state_root`, `state_proof` | bank |
| `tao-runtime` bank | account store | `execute_transaction`, `execute_block`, `airdrop` | both nodes |
| `tao-pouw`, `tao-dag`, `tao-core`, `tao-cli`, `tao-rpc`, `tao-wallet` | none that evolves, or superseded | | |

What is hard here: blocks arrive in any order and each node recomputes order,
difficulty and state from what it has; caches (checkpoint, cached state,
anticone sizes, tips) are updated incrementally and must agree with a
recomputation; pruning rewrites the DAG while blocks mined in parallel to the
cut are still around; the log is the only thing that survives a crash and is
written between two changes of memory; a joiner trusts a snapshot. The list
`hazards` in `PROJECT.json` names each of these at its line.

What makes the parts correct:

* engine: the tip is the heaviest block, the order a linearisation, the blue set
  a k-cluster, and the cached anticone sizes are the real ones;
* `DagChain`: nodes accept each other's honest blocks, a restart reproduces the
  chain, the cached state is the execution of the order, pruning loses no effect
  and keeps order and difficulty;
* snapshots: a joiner ends up with the server's DAG and accounts;
* linear node: most work wins, accounts follow the chain, what is confirmed is in
  the log, a log can always be replayed;
* DAG network: nodes that stay connected converge on one order, no orphan is
  forgotten, relaying ends;
* block log: an append adds its record or nothing, a replacement is atomic, a
  failure takes nothing away that was durable;
* accounts: the root depends on the accounts only, proofs are exact, lamports are
  conserved, a restored store is the one that was saved.

## 2. Modules

| Module | Models | Role |
|---|---|---|
| `Reachability` | `tao-reachability` | specification, properties |
| `Ancestry` | what the reachability index promises | abstract specification that `Reachability` refines |
| `Ghostdag` | `engine.rs`, `protocol.rs`, the queries of `inquirer.rs` | operators on an engine value |
| `DagEngine` | the engine fed with blocks | specification, properties |
| `GhostdagProofs`, `DagEngineProofs` | | what `add_block` preserves in any engine; theorems about `DagEngine` |
| `DagChain` | `dag_chain.rs` | operators on a chain value, one per method |
| `DagNode` | one `DagChain` and the network around it | specification, properties |
| `DagSync` | `DagNode` plus a node that joins by snapshot | composition of two chains |
| `ChainState` | `chain.rs`, `difficulty.rs`, `target.rs` | operators on a chain value |
| `Mempool` | the transaction pool | operators on a pool value |
| `LinearNode` | `node.rs`, `shared.rs`, `p2p`, `sendTransaction` | composes `ChainState` and `Mempool` into nodes that gossip |
| `DagNet` | the loop of `dag_run`, `tao-p2p`, `sendTransaction` | composes `DagChain` and `Mempool` into a network; fairness, liveness |
| `BlockLog` | `block_log.rs` on a file system that fails | specification, properties |
| `AtomicLog` | what the block log promises | abstract specification that `BlockLog` refines |
| `StateTree` | `smt.rs` | operators, from scratch and incremental |
| `Ledger` | `accounts_db.rs`, `bank.rs`, `replay_blocks`, `genesis.rs` | specification, properties |
| `LinearNodeProofs` | | what the operators of `ChainState`, `Mempool` and `LinearNode` compute; theorems about `LinearNode` |
| `BlockLogProofs` | | theorems about `BlockLog`, its refinement of `AtomicLog` included |
| `LedgerProofs` | | theorems about `StateTree` and `Ledger` |
| `DagNodeProofs` | | what the methods of `DagChain` do to a chain value; theorems about `DagNode` |
| `Recursion`, `Folding` | | induction, recursive functions, folds and sums, for the proofs |
| `MC*` | | constants for TLC |

**Reachability, Ancestry.** A store is `[parent, height, children, interval, fcs,
root, ok]`, and each function of `interval.rs`, `tree.rs`, `reindex.rs` and
`inquirer.rs` is an operator from store to store; the two directions of
`*_before` and `*_after` are one operator with a flag. `ok` turns false where the
code would fail an assertion, underflow or return an error. `AddBlock` is what the
engine does: insert into the tree, into the covering sets of the merged blocks,
then hint the new block, which may move the reindex root. `DeleteBlock` is
`delete_block` of any block but the origin and the reindex root; no part of the
node calls it yet. `relations` are the parents passed with each block, from which
the engine computes the mergeset it hands to the index, asking the index on the way
(`MergedBy`). `Ancestry` keeps those parents and the past of every block and nothing else;
its `AddBlock` gives a new block its parents and their pasts.
`AnswersAncestry` maps `parents` to `relations` and `past` to the answers of
`is_dag_ancestor_of`: the index answers what the parents define, and an insertion that
forgets a merged block is not a step of `Ancestry`. This is
the relation that `Ghostdag` uses in place of the index. Parents may be ancestors of
one another but for those in the past of the selected one, which the index refuses
(`Selects`; `Ghostdag`'s `CoveredTwice` has that case).

**Ghostdag, DagEngine.** An engine is `[genesis, parents, past, gd, tip]`. The
reachability index appears as `past`, the set of ancestors that it answers queries
about (by construction here, which `Reachability` justifies), and as `CoveredTwice`, the condition under which inserting a block fails
with `DataInconsistency` (which `add_block` unwraps). Hashes are numbers, since
the code compares them. `blue_work` counts one unit per blue block, as
the engine does. `DagEngine` adds blocks with any non-empty set of known parents,
redundant ones included, because `accept` does not refuse them.

**DagChain, DagNode, DagSync.** A chain has the fields of the struct. Account
sets are the sequences of block executions that produced them; a target is the
window of blocks that LWMA averaged, so two targets are equal exactly when both
nodes looked at the same blocks; timestamps are left out. Every block carries
transactions, and losing their bytes is visible. `DagNode` runs one chain beside
a network of nodes that never prune (`network.mined` are the hashes of all blocks mined
so far, whether or not the network took them): peers mine on any antichain they may have
seen, blocks arrive late and in any order, the node mines, answers state
queries, prunes, drops bodies and restarts at any moment from its log. A panic
of the engine sets `poisoned` (the lock of the index is poisoned in the code) and
leaves only a restart. `DagSync` adds a joiner that imports snapshots at any time
and repeatedly, receives blocks and restarts. The set `events` is a history
variable: it records that a reorg reached below the checkpoint, that a prune
kept a block that does not descend from the pruning point, or that bodies were
dropped after a prune. The code goes wrong after these (section 4); properties
of the passing runs say what holds until then.

**ChainState, Mempool, LinearNode.** 256-bit words are `0..MaxWord`, with the
saturation of the code. The node loop is a single thread, so an inbound block is
one action; mining is three (`MineExecute`, `MineAppend`, `MineCommit` or
`MineRejected`), because the process may die and other threads act in between.
Only `log` survives `Crash`; `Restart`, `ReplayRecord` and `Start` rebuild the
rest. Accounts are what each miner was paid and the transactions that ran, so
that, as in the code, coinbases commute and transactions do not; a state root is
that value. Connections are made only by dialling at start. A broken connection
loses any suffix of what was in flight; what it still delivers is delivered
before the messages of a later connection. An append is atomic. `events` records
the first fork that a node accepts and the first block mined under a clock
behind that of its parent.

**DagNet.** One `DagChain` per node, its process, the orphan buffer `pending`, the
mempool, `seen_tx`, connections and the messages under way on each of them, in
order. Each message of `NetMsg` has a handler; a handler that changes the chain or
the buffer ends, as an iteration of the loop does, with the passes over the
orphans and the relaying (`Settle`). The timers (backfill, snapshot request,
heartbeat, maintenance, mining) are actions of their own. The loop drains all
messages before it retries the orphans; the model drains one per iteration, which
is the same as receiving them further apart. A process that crashes keeps its log; a
connection that ends loses what was under way in both directions, and nobody
dials again (`Network::start` dials at start only and gives up after thirty
attempts). What the loop publishes for RPC reads is left out. The variable `setup`,
chosen at first and constant, says which of the small networks of `MCDagNet` a
behaviour is about.

**BlockLog, AtomicLog.** A file is its bytes and how many of them are synced.
Every system call of `append` and `replace_all` is a step; any of them may fail, the
process may die between and within them, and the power may fail. The file system
is external, and this is assumed of it: what was written survives the process; a
power failure keeps a prefix that holds at least what was synced; a rename is
atomic and may be undone by a power failure until the directory is synced.
`append` calls `File::flush`, which syncs nothing. Lengths have two digits of base
2, so that a payload can look like a length and a record can be cut anywhere.
`acked` is a history variable, what a caller may expect of the log. `AtomicLog` is a
sequence of records, the number of them that no failure takes away, and the
version a power failure may bring back; the mapping parses the bytes. The promise
ends (`broken`) with the first record appended behind one that was cut short, and
with the first append after a `replace_all` that failed after its rename: the
code then writes a log that cannot be read, or into a file that is unlinked.

**StateTree, Ledger.** Hashes are injective terms, so that equality of roots is
equality of trees. A key is three bits, a node id a prefix of a key. `Ledger`
executes blocks of transfers one transaction at a time, because the RPC threads
read the store in between: for `dag` with the order of `replay_blocks` (reward first, fees
dropped, a bad signature is an error), otherwise with that of `execute_block` (bad signatures
skipped, coinbase with the fees at the end). The SVM is external; a transfer
is executed, fails after its fee was charged, or is not processed.

## 3. Runs that pass

| Run | Bounds | States | Shows |
|---|---|---|---|
| `engine` | 6 hashes, k = 1 | 232 thousand | the engine on every DAG of six blocks, hash order and arrival order |
| `reachability` | 7 blocks, up to 3 parents, 40 labels, depth 1, slack 1, 2 covering items, 1 deletion | 81 thousand | the index never fails and refines ancestry |
| `node_prune` | 6 blocks, window 1, up to 3 tips, canonical hashes | 193 thousand | order, tips, cached state, base, proof and log under both prunings and restarts |
| `node_window` | 6 blocks, window 2, finality 2, up to 2 tips | 170 thousand | order and difficulty across a prune with a full window |
| `sync` | 6 blocks, window 2, finality 1, up to 2 tips, canonical hashes | 171 thousand | a joiner beside a pruning server; who accepts whose blocks |
| `linear` | 3 blocks, 2 nodes, 2 transactions, 1 fault | 428 thousand | two linear nodes with crashes, forks and clock skew |
| `blocklog` | 8 bytes, 2 payloads, 3 compactions, 3 faults | 215 thousand | the log refines an atomic log |
| `ledger` | 3 accounts on a tree of height 3, 4 blocks of up to 2 of 4 transactions | 20 thousand | tree, proofs, supply, restoring |
| `net` | eight networks of two or three nodes, up to 5 mined or inherited blocks, up to 2 faults | 316 thousand | convergence and orphans |

Bounds and why they suffice. In `reachability` the labels are
so few that intervals run out within seven blocks. With
depth 1 the root follows the tip closely, and seven blocks reach both directions
of reclaiming, each with the stop at the chosen child, further down and at the
root, also after a switch of chains. `Slack >= Depth` holds for the constants of
the code (16384 and 100) and is assumed. Forty labels are several times what
seven blocks need, as 2^64 is for any chain; `NeverFails` is a statement about
that ratio and not about an index that is full. `Hash`/`BlockId` bound the number of blocks: six blocks
hold a diamond with a block on either side, a reorg, and two prunes at
`FinalityDepth` 1. With `K = 1` two parallel blocks may be blue and a third must
be red, the smallest case in which the blue check consults stored sizes.
`HashWindow` says how many of the unused hashes a new block may take: 2 in
`node_window` lets hashes order ties both ways; 1 in `node_prune` and `sync` names
blocks in the order in which they are mined, which fixes ties in favour of later
blocks (larger values exceed TLC's time; `engine` has every order). `MaxWidth` bounds the
network's tips; 3 with `MaxParents` 2 gives a node more tips than it may
reference. `LwmaWindow` 1 in `node_prune` and `net` keeps the retained suffix
short enough for two prunes; since LWMA holds the last target until it has at
least three headers, targets move only where the window is 2, in `node_window`, `sync` and
`linear`: acceptance is therefore checked in `sync`. There a prune
retains three blocks, the pruning point among them, the joiner imports snapshots from before and after it, and
both meet windows that the prune left full and windows that it cut short. In `node_window` four blocks are retained, the fewest
with which two parallel blocks can follow the pruning point. `Level` gives every third block a proof-of-work level above its
target. In `linear`, three blocks are the fewest with a reorg and with a target that LWMA
computed (`Window` 2, whose block times of 0 and 6 give targets 3 and 15);
`MaxSize` 1 makes the second transaction evict the first; `MaxFaults` 1 is a crash
at any step or a broken connection. Transactions are symmetric. In `blocklog`, eight bytes hold
two records and the third that replaces them, and three faults are an append cut
short, a failed replacement and a power failure after both. In `ledger` two of the
accounts are siblings, so that a batch changes two leaves below one node; the
allocations allow an account to be emptied, purged and created again within four
blocks. In `net` a message equal to one under way on the same connection, or to a
buffered orphan, is not added again, and a timer does not repeat a request while
the last one or its answer is under way (their periods, 300 ms to 60 s, exceed a
round trip); without these two bounds the relaying described in section 4 fills any queue.
The eight networks (`Network` of `MCDagNet` gives the blocks each node already has and may still mine):

| Network | What happens |
|---|---|
| `Missed` | a node that missed two blocks connects and mines on its own; one fault |
| `Fork` | two connected nodes mine in parallel; two faults |
| `Relay` | a block travels from node 2 over node 1 to node 3 |
| `Pay` | a transaction sent to one node is gossiped, and may be mined by both |
| `Join` | a new node that does not mine connects to one that has pruned |
| `Late` | a node with a block of its own connects to one that has pruned |
| `Lag` | a node mines two blocks before it connects to one that may have pruned |
| `Cut` | a node prunes while both mine |

Runs but `net` are checked without deadlock detection, because they
stop when the blocks are used up; in `net` the timers never stop.

Fairness (`DagNet`). Weak fairness of the dialling threads, of the backfill, of the
snapshot request and of the heartbeat: they are threads and timers of a process
that runs. Weak fairness of `Receive` on each connection, which says that TCP
delivers on a connection that lasts and that the loop empties its channel; it is
written out with its enabling condition, a message being there, which saves TLC
the evaluation of `ENABLED`. Nothing makes a node mine, prune, crash, restart or
give up dialling.

The properties, by run:

* `engine`: `TypeOK`, `TipHeaviest` (comparing with the last tip only is enough),
  `MergesetExact`, `HonestOrderIsTopological`, `BlueSetIsKCluster`,
  `AnticoneSizesExact` (the sizes found by walking the chain are those of the
  DAG), `HonestNeverRefused` (antichain parents never make the index panic).
* `reachability`: `NeverFails`, `ChainQueriesExact`, `IntervalsValid` (the invariants of
  `validate_intervals` in the crate's tests, in every reachable state),
  `AnswersAncestry` (refinement of `Ancestry`).
* `node_prune`: `AgreedOrder` (nodes that
  agree on a tip execute the same order up to it, nodes that know the same blocks agree
  on the tip), `ReopenReproduces`,
  `TipsChildless`, `StateFollowsOrder`, `ProofVerifies`, `BaseFaithful`.
* `node_window`: `CleanOrderSuffix`, `CleanTargetKept` (what remains of INV2 and INV3
  of `docs/pruning.md` when no block was mined in parallel to the pruning point; INV3 as
  long as fewer blocks than `FinalityDepth` above that point were merged rather than
  selected, since each takes a place in the order that the window needs).
* `sync`: `PeersAccept` and `AcceptsPeers` (two nodes derive the
  same target and interlink from different sets of blocks), `JoinerAccepts` (so does a
  joiner), `JoinerBase`, `JoinerConverges`, `JoinerReopens`. The three about acceptance
  demand that a block is taken when the window below it is retained in full (`FullWindow`: the
  node was never pruned, or has the last `LwmaWindow + 1` blocks of the selected chain); where a prune cut it short, they
  allow a refusal for an unexpected target, and for no other reason.
* `linear`: `TipHeaviest`, `TipOnlyImproves`, `RestartReproduces`,
  `BankFollowsChain`, `ConfirmedIsLogged`, `PoolsOK`.
* `blocklog`: `LogIsAtomic` (refinement of `AtomicLog`), `AckedReadable` (a replay
  returns what the log held when it was opened or replaced and every append since).
* `ledger`: `TreeMatches` (node by node; the root does not depend on history),
  `ProofsExact` (a proof convinces of the stored account or of its absence, and
  of nothing else), `SupplyConserved`, `RestoreSame`.
* `net`: `OrphansWait`, `Converge` (liveness: nodes whose connection lasts end up with one
  order, up to a pruned beginning, or in a `DeadEnd`). There are two dead ends, and the
  property says that the code has no third: a pruned node refuses a tip of
  the other, for a pruned parent or an unexpected target, and will for ever (`Refuses`; setups
  `Late` and `Lag` reach it); and a prune kept a side block (`Sideways`; `Cut` reaches it).
  With either left out TLC finds `Converge` violated. Targets do not move in this run, so
  the unexpected target is not reached.

For each property `PROJECT.json` names a mutant, an operator defined before the
one it replaces, with which TLC finds the property violated.

## 4. Where the code and its documents disagree

Each of these runs checks one sentence of a document or comment, and TLC
finds a behaviour of the code against it.

| Run | Sentence | Behaviour |
|---|---|---|
| `node_order` | INV2, `docs/pruning.md:63` | a block mined in parallel to the pruning point outweighs it after re-anchoring |
| `node_rebuild` | `dag_chain.rs:811` | the checkpoint is reused after a reorg below it |
| `net_storm` | `main.rs:586` | a known block counts as accepted and is relayed again, back and forth for ever |

Other disagreements and limits met while modelling, not kept as runs; the passing
properties are stated up to them:

* A parent that is an ancestor of another parent is merged again and ordered
  twice, against `engine.rs:177` ("every block ordered once"); `HonestOrderIsTopological`
  without its premise shows it.
* `prune` counts depth in the order and LWMA in the selected chain, so that a wide DAG
  leaves too short a window, against INV3 (`docs/pruning.md:65`) and "every LWMA query
  needed to validate future honest blocks still resolves" (lines 35-38): the node then
  refuses honest blocks for an unexpected target. `sync` reaches this state: `AcceptsPeers` and
  `JoinerAccepts` fail there without their premise `FullWindow` (and `PeersAccept` with
  seven blocks, a window of 3 and three parents).
* Bodies dropped after a prune are missing in the next base, against
  `dag_chain.rs:1124`; `dag_run` never drops bodies. A second
  `prune_finalized_transactions` before the next state query panics.
* A node that mines before its first snapshot arrives never adopts one (`Late`); a pruned
  node that misses two blocks in a row drops the tip it asks for and never asks for
  its parent (`Lag`). Neither converges, against "converge with peers on one GHOSTDAG order"
  (`dag_run`); `Converge` names them as dead ends.
* A transaction pooled by two nodes is mined twice and executed twice;
  `blockhash_queue.rs`, which would prevent it, is not used.
* `replay_blocks` gives fees to nobody (`bank.rs:284` leaves them to the caller), and fails for
  good on a bad signature that `execute_block` skips.
* `replace_all` that fails after its rename leaves the writer on the
  unlinked file, against `block_log.rs:54`; `dag_run` ignores the error.
* `from_entries` keeps the first of equal keys, against its comment (`smt.rs:72`);
  no caller has duplicates.
* `dag_run` confirms every mined transaction as successful, whatever its execution said.

## 5. Proofs

What TLAPS checks holds for every value of the constants: any number of nodes,
blocks, records, accounts and faults. All properties of the runs `engine`,
`linear`, `blocklog` and `ledger` are theorems.

| Module | Theorem | Property |
|---|---|---|
| `DagEngineProofs` | `TypeCorrect`, `TipIsHeaviest`, `MergesetIsExact` | `TypeOK`, `TipHeaviest`, `MergesetExact` |
| | `WorkAlwaysClimbs` | (a block outweighs its ancestors) |
| | `HonestOrderAlwaysTopological`, `BlueSetAlwaysKCluster`, `AnticoneSizesAlwaysExact`, `HonestAlwaysAccepted` | `HonestOrderIsTopological`, `BlueSetIsKCluster`, `AnticoneSizesExact`, `HonestNeverRefused` |
| `LinearNodeProofs` | `TipIsHeaviest`, `PoolsAreOK`, `ConfirmedAreLogged`, `TipNeverSwapsBack`, `RestartsReproduce`, `BanksFollowChains` | `TipHeaviest`, `PoolsOK`, `ConfirmedIsLogged`, `TipOnlyImproves`, `RestartReproduces`, `BankFollowsChain` |
| `BlockLogProofs` | `AckedAlwaysReadable`, `LogAlwaysAtomic` (from `LogSound`) | `AckedReadable`, `LogIsAtomic` |
| `DagNodeProofs` | `NodeAlways` | (the inductive invariant) |
| | `TipsAlways`, `ReopenAlways` | `TipsChildless`, `ReopenReproduces`, while no prune kept a side block |
| | `OrderAlwaysKept`, `OrderAlwaysAgrees` | `CleanOrderSuffix`, `AgreedOrder` |
| | `MinedAlwaysAccepted`, `TheirsAlwaysAccepted` (the latter from `PeersAlways`) | `PeersAccept`, `AcceptsPeers`, until the first prune |
| | `AccountsAlways` | (the inductive invariant about accounts) |
| | `StateAlwaysFollows`, `BaseAlwaysFaithful` | `StateFollowsOrder`; `BaseFaithful`, where the network has the origin |
| `LedgerProofs` | `TreeAlwaysMatches`, `ProofsAlwaysExact`, `SupplyAlwaysConserved`, `RestoreAlwaysSame` (from `LedgerSound`) | `TreeMatches`, `ProofsExact`, `SupplyConserved`, `RestoreSame` |

**Induction over data.** Folds, paths through the chain, the Merkle tree and
the parser of the log are recursive functions. The library's induction
theorems take a predicate as a parameter, which the provers do not instantiate.
Here they are stated for a *set* (`NatInSet`), or in a module with a constant
operator that another module instantiates: `Recursion` shows that a recursive
function satisfies its equation when its definition descends along a rank
(`RecEquation`), `Folding` that `FoldLeft` of the community modules folds from the
left, one element after the other, and that a sum over a finite set
grows by one summand at a time. The proofs instantiate them with the model's own
definitions (`Reading == INSTANCE Recursion WITH Def <- ReadDef`), so that what is
proved is about the operators that TLC evaluates.

**Engine.** Assumptions: `Genesis \in Hash`, `K \in Nat`, and hashes are natural
numbers, of which the virtual origin is not one. The proof has two layers. `EngineOK` holds
whatever parents callers pass: the stores cover the same finite set of blocks (`TypesOK`),
the past is transitive, irreflexive and has the parents (`Ancestral`), a block outweighs its ancestors
(`Climbs`), the tip is the heaviest (`TipIsHeavy`), and `Merged`, which is `MergesetExact`.
`Climbs` needs the past to be transitive, `Merged` needs it to be
irreflexive, and all need the stores to cover the same finite set of blocks. The
argument: a finite set of weighed blocks has a heaviest one (`HeaviestExists`, by
well-foundedness of strict inclusion among finite sets), so `find_selected_parent`
returns a heaviest parent (`SelectedParent`); whatever the colouring does, the blues
contain the selected parent, so a block outweighs each of its parents
(`DataFacts`) and by transitivity each ancestor. `AddKeepsOK` then has one step
per conjunct; a panicking insertion changes nothing.

`HInv` adds what honest blocks give: `BluesOK` (the first block is in every other past
and merges nothing, selected parents are blue), `HonestNeverRefused`, and, as
long as all blocks have antichain parents, `Clustered`: in the blue set of every block
each anticone size found along the selected chain is exact and at most `K`. The two
halves of `Clustered` need each other, since `check_blue_candidate` compares
recorded sizes with `K`, and a later one needs the earlier to have counted right.

* The order. Selected parents lead down to the first block (`SelectedClimbs`), so
  `total_order`, the selected chain and the anticone sizes satisfy the equations of their
  recursion (`OrderEquation`, `ChainEquation`, `SizeEquation`) and what holds for a
  selected parent can be carried to a block (`ChainInduction`). The past of a
  selected parent is listed, and closed under ancestry; the mergeset is the rest
  of the past, and sorting it by (work, hash) puts ancestors first since work
  climbs (`SortedBlocks`, `ListsJoin`).
* No refusal. A chain block is the block itself or in its past (`ChainInPast`), and
  what a block merges is not in the past of its selected parent, so nothing is covered twice
  (`NotCoveredTwice`).
* The colouring. Blues of different chain blocks are disjoint (`BluesFacts`), so the walk
  of `check_blue_candidate`, which stops at the first chain block that is an ancestor of
  the candidate, meets every blue in the candidate's anticone, once (`PeersAdd`,
  `PeersAreAnticone`). Hence one step of the colouring, blue or red, keeps sizes exact
  and at most `K` (`ColorKeeps`), and by induction on the sorted mergeset so does
  all of it (`MergesetColored`). The blue sets of the blocks that were there before
  stay as they were (`ChainsStay`).

**Linear node.** Assumptions: `NodeAssumption`, `ChainAssumption`, `PoolAssumption`; the
window is at least two, as in the code, and clocks may say anything. Two
invariants. `Safe` is about each node by itself: types, a chain in which every
header but the genesis has its parent, work is a number and the tip has the most
(`ChainOK`), the block in the job of a node that has logged it, the pool, and the
confirmed signatures. It gives the first four theorems, forks, crashes and clock skew
included. `Faithful` ties the nodes together: blocks have their own ids, and those
that travel or were added are blocks of some log (`Provenance`); and as long as
nobody has mined a fork or under a clock that runs back (`events = {}`), the blocks
of all logs form one chain, each commits to the accounts that executing it gives,
a log is a beginning of that chain, and a node's chain and accounts are what its log
makes of the genesis (`Clean`). It is needed because a block that a node receives is
executed on accounts that only the sender's past explains. The lemmas below it are
about the operators: targets stay within a word (LWMA's clamp), `add_header` extends
a chain by one block, a walk along the parents ends at the genesis, and a replay
of a longer log is the replay of the shorter one and one block more.

**Block log.** Assumptions: `LogAssumption`; payloads are not empty, as a
serialised block never is, and their lengths fit the header (`append` refuses others). The
bottom layer is about bytes: a length is read back from its digits
(`FrameFacts`); a log is the encoding of its records and a part of one more
(`IsLog`); `ReadsLog`: reading it returns exactly the records, by induction from
its end, and fails only on the part; `LogCut`: whatever is cut off its end leaves a
log of the first of its records. The invariant `LogInv` says that each of the two
files holds such a log unless it is torn inside (`FilesOK`), where the part is
exactly what the append in progress has written; that the compaction file holds what
`replace_all` has written of it, all of it synced from the rename on
(`ReplaceOK`); that a writer is off the file at `path` only after a failed or during
an unfinished replacement; and that what the callers expect is what a replay
returns. The refinement has one lemma per action: most are not seen by `AtomicLog`,
the second write adds a record, the rename replaces, a power failure cuts.

**Ledger.** Assumptions: `HeightAssumption`, `LedgerAssumption`: allocations are
positive and, with all rewards the chain can ever emit, below the largest amount
(the saturating additions of `bank.rs` then never saturate; with larger rewards
they would, and lamports would be lost). Hashes are injective terms. The invariant `LedgerInv` says that the store
is the tree of the accounts (`DbOK`), that the books balance, and that what was emitted
and is owed is bounded by the number of blocks, from which nothing saturates. The
argument: `update_leaf` rewrites the path of one leaf, and every node off the path
has the same leaves below it, so the store of a tree becomes the store of the changed
tree, with default hashes dropped; a batch is a fold of that. A proof is exact since
climbing from a leaf with the siblings of the tree is injective level by level.
The supply is a sum over the accounts, of which a transaction changes two.

**DAG node.** Assumptions: those of the engine, `ChainAssumption`, `NodeAssumption`. The
invariant `NodeInv` relates one chain, which prunes, to the network's DAG, which does not.
Its parts, all of them under the condition that no prune has kept a block that does not
descend from its pruning point:

* `ChainOK`: headers and engine are about the same blocks, `tips` are the childless ones,
  parents are antichains, remapped to the origin where they were pruned.
* `PastComplete`: the engine's past of a block is its parents and their pasts, and every
  block but the origin has the origin in its past. Without it a block that
  arrives after a prune could make the reachability index panic, which `apply` does not
  survive.
* `ReplayOK`: `Open(log)` gives the engine, headers, tips, base and proof in memory.
* `AccountsOK`: types of the caches and of the checkpoint.
* `NetOK`, `Linked`: the network's engine is as in `DagEngineProofs`, and what the chain
  knows is a part of the network's DAG: a block's parents are those the network has, but
  for parents before the origin.

Apply (`ApplyAdds`, `ApplySkips`), re-adding a list of blocks and replaying a log are folds;
what one application keeps the fold keeps. `prune` keeps the suffix of the
order from the pruning point on and adds it again to an empty engine, so the proof
needs that the order lists parents first in the engine before the cut, that
no parent of a kept block is missing but those the cut removed, and that the remapped
parents are antichains again. The last is false when a kept block does not descend from
the pruning point: its parents are gone, the origin takes their place, and the origin may be an
ancestor of another parent. Whether `TipsAlways` and `ReopenAlways` hold then as well is left to TLC, which
finds no violation: `node_prune` checks `TipsChildless` and `ReopenReproduces` without the
condition.

The order theorems compare engines that start at different blocks of one DAG: the chain
and the network, or the chain after and before a prune. `Mirrors(d, e, S)` says that the
two have the same selected parent, blues and reds for the blocks `S`, and blue work that
differs by the work of the block `d` starts from. It needs no invariant of its own. An
engine built block by block satisfies `FromDag` (part of `Honest`): the data of each block
are what GHOSTDAG computes from its parents in the engine as it is now. So it is enough
that the blocks above the first block of `d` have the same parents in both, and that in `e`
all of them have that block's past below them; the rest is induction on the work
(`SameDagMirrors`). One step of it follows the algorithm: the selected parent and the
sorted mergeset are the same since only differences of work are compared
(`MirrorParent`, `MirrorMergeset`, `MirrorSort`); the walk for the anticone of a candidate
goes further down in `e`, but finds nothing there, since all that is behind the first
block of `d` is behind the candidate (`MirrorAnticone`), so each candidate is coloured alike
(`MirrorColor`, `MirrorColoring`). Then the order of `e` is what it has before the first
block of `d`, and the order of `d` (`MirrorOrder`); and as blocks below that block have less
work than it, the heaviest blocks of both are the same (`NetTip`).

What nodes accept of each other before the first prune follows from the same comparison. `PeersInv`
says that every block the network took carries the target and the interlink that follow
from its selected parent there (`Derived`). Two engines that mirror each other have the same
selected chain below a common block, hence the same window and interlink (`MirrorHeader`), so the node
and the network demand the same of a block whose parents both have (`SameDemands`). For a block that
the node builds it remains that the tip, from which it derives target and interlink, is the
selected parent of the parents it writes down, also when there are more tips than it may
reference (`TipSelected`, `MiningParentsCount`).

A second invariant, `AccountsInv`, is about the caches. It holds until a prune keeps a side
block, a reorganisation goes below the checkpoint, or bodies are dropped after a prune; the runs
show that each of these can separate the state from the order. Its parts:

* `CachesOK`: the executed order lists known blocks, each once; the state is the execution
  of all of it, the checkpoint of its first `len` blocks; a body is missing only when the
  checkpoint holds its effects and nothing needs the block for a replay from the base; and
  the log never lacks a body.
* `BaseOK`: a chain without a base starts at the genesis, and the base of another holds the
  execution of each block in the network's past of the origin.

`replay_blocks` is a fold, so a replay splits at any prefix of the order and executes every
listed block once (`Executions`); whether `virtual_state` extends the cached state,
replays from the checkpoint or from the base, the result is the execution of the order with
all its bodies. A prune takes its base from the prefix up to the pruning point, which lists
exactly the past of that point, and the past before the previous origin is in the previous
base. `BaseFaithful` is a theorem where the network has the origin: a block
that other nodes refused has no past there to compare with. Before the first prune there is
no such block (`MinedAlwaysAccepted`); afterwards this is `PeersAccept`, which is only checked.

Before a proof, TLC checked each of the inductive invariants on the instances of
section 3.

Only model-checked: everything about `Reachability`, `DagSync` and `DagNet`; of `DagNode`
the properties not in the table, `CleanTargetKept` and `ProofVerifies`, and `PeersAccept` and `AcceptsPeers`
after a prune, where they depend on how much of the window is retained; and the liveness property `Converge`, since
liveness under fairness and `ENABLED` are out of the prover's reach.

## 6. Not modelled

Rounding of floats in the reachability index, whose sizes are small enough here to be exact; hashing, transaction roots,
serialisation and the SVM, accounts with data included; sizes of messages (a
snapshot may be 256 MiB, a frame only 8 MiB); timestamps of DAG blocks; the proof
of useful work (matrix arithmetic and hashing without state); `tao-dag` and
`tao-dagvm/lib.rs`, which the node no longer uses; command lines, file formats and the
formatting of RPC answers; a block whose transactions do not decode, which
`apply_with_id` leaves in the engine only. Proof of work is
taken to be valid: headers are only ones that somebody mined.

## 7. What is left

1. `DagNet`: `OrphansWait`. Passes over the buffer stop when one accepts nothing, and then
   every block left is an orphan of the chain as it is. The rest is closure: the ids in
   chains, logs, buffers and messages are ids of mined blocks, so a block mined next is
   nobody's missing parent. `NodeInv` is what it needs of each chain.
2. `DagNode`: `ProofVerifies`, from the interlinks, which lead from each block to the last
   block of each level on its selected chain.
3. `Reachability`: interval containment is ancestry for an insertion that
   does not reindex, from an inductive invariant on nested intervals.
