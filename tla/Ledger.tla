------------------------------- MODULE Ledger -------------------------------
(***************************************************************************)
(* The execution bank (crates/tao-runtime/src/bank.rs) over its account    *)
(* store (crates/tao-database/src/accounts_db.rs), whose every write       *)
(* updates accounts and state tree in one batch.                           *)
(*                                                                         *)
(* A linear node executes a block with execute_block, a DAG node with      *)
(* replay_blocks (crates/tao-dagvm/src/dag_chain.rs).  Transactions go one *)
(* by one, and the RPC thread reads the store between them, so that each   *)
(* is a step.  An account is its balance: the accounts of programs, which  *)
(* hold data, are left out.  The virtual machine is external and executes  *)
(* transfers; a transaction is [from, to, amount, signed].                 *)
(***************************************************************************)
EXTENDS StateTree, FiniteSetsExt

CONSTANTS
    Account,        \* the accounts, as keys of the tree
    Allocation,     \* the genesis allocations: some accounts -> lamports
    Tx,             \* the transactions blocks are made of
    Fee,            \* LAMPORTS_PER_SIGNATURE
    Rewards,        \* block rewards, zero after enough halvings
    MaxLamports,    \* u64::MAX
    MaxBlocks,      \* bound: blocks executed
    MaxTxs          \* bound: transactions of a block

Total(balances) == MapThenSumSet(LAMBDA a : balances[a], DOMAIN balances)

ASSUME LedgerAssumption ==
    /\ Account \subseteq Key
    /\ DOMAIN Allocation \subseteq Account
    /\ IsFiniteSet(DOMAIN Allocation)
    /\ Allocation \in [DOMAIN Allocation -> Nat \ {0}]
    /\ \A t \in Tx : {t.from, t.to} \subseteq Account /\ t.amount \in Nat
    /\ {Fee, MaxLamports, MaxBlocks, MaxTxs} \subseteq Nat
    /\ Rewards \subseteq Nat
    /\ \A r \in Rewards : Total(Allocation) + MaxBlocks * r <= MaxLamports

VARIABLES
    dag,        \* blocks are executed by replay_blocks
    db,         \* the AccountsDb: accounts (key -> lamports) and tree nodes
    block,      \* the block being executed, or Idle
    stuck,      \* replay_blocks has failed, as it will whenever it is called
    minted,     \* history: rewards paid
    burned,     \* history: fees that went to nobody
    blocks      \* history: blocks executed

vars == <<dag, db, block, stuck, minted, burned, blocks>>

Idle == [on |-> FALSE]

EmptyDb == [accounts |-> <<>>, nodes |-> <<>>]

----------------------------------------------------------------------------
(* The account store.                                                      *)

(* leaf_for; the value hash of an account is injective.                    *)
LeafFor(accounts, key) ==
    IF key \in DOMAIN accounts THEN LeafHash(key, accounts[key]) ELSE EmptyLeaf

(* Mutant: every leaf is updated against the stored tree, without the      *)
(* changes of the leaves before it.                                        *)
SmtUpdateNoOverlay(nodes, leaves) ==
    FoldLeft(LAMBDA pending, l : Override(pending, UpdateLeaf(nodes, l.key, l.leaf)), nodes, leaves)

(* smt_update: one overlay for all the leaves of a batch.                  *)
UpdateNext(overlay, l) == UpdateLeaf(overlay, l.key, l.leaf)

SmtUpdate(nodes, leaves) == FoldLeft(UpdateNext, nodes, leaves)

Batch(accounts, nodes, keys) ==
    [accounts |-> accounts,
     nodes    |-> SmtUpdate(nodes, [i \in DOMAIN keys |->
                    [key |-> keys[i], leaf |-> LeafFor(accounts, keys[i])]])]

Store(accounts, key, lamports) == Override(accounts, [k \in {key} |-> lamports])

(* set: an account is stored whatever its balance.                         *)
Set(d, key, lamports) == Batch(Store(d.accounts, key, lamports), d.nodes, <<key>>)

(* commit: a change to nothing removes the account.                        *)
Change(accounts, c) ==
    IF c.lamports = 0
    THEN Restrict(accounts, DOMAIN accounts \ {c.key})
    ELSE Store(accounts, c.key, c.lamports)

Commit(d, changes) ==
    Batch(FoldLeft(Change, d.accounts, changes),
          d.nodes, [i \in DOMAIN changes |-> changes[i].key])

StateRoot(d) == StoredRoot(d.nodes)

(* dump, in the order of the keys.                                         *)
Dump(d) ==
    LET keys == SetToSeq(DOMAIN d.accounts)
    IN  [i \in DOMAIN keys |-> [key |-> keys[i], lamports |-> d.accounts[keys[i]]]]

Balance(d, key) == IF key \in DOMAIN d.accounts THEN d.accounts[key] ELSE 0

----------------------------------------------------------------------------
(* The bank.                                                               *)

Saturate(n) == Min({n, MaxLamports})

(* Mutant: an amount of zero creates the account.                          *)
CreditAlways(d, key, lamports) == Set(d, key, Saturate(Balance(d, key) + lamports))

(* credit, and airdrop.                                                    *)
Credit(d, key, lamports) ==
    IF lamports = 0 THEN d ELSE Set(d, key, Saturate(Balance(d, key) + lamports))

(* load_and_execute_sanitized_transactions (external): a transfer fails    *)
(* when it is not signed, when the fee cannot be paid, or, with the fee    *)
(* charged, when the amount cannot.                                        *)
Processed(d, t) ==
    IF ~t.signed THEN "bad signature"
    ELSE IF Balance(d, t.from) < Fee THEN "not processed"
    ELSE IF Balance(d, t.from) < Fee + t.amount THEN "failed"
    ELSE "executed"

(* The accounts after a transfer, written in the order of the message.     *)
Writes(d, t) ==
    LET left == Balance(d, t.from) - Fee - t.amount
    IN  IF t.from = t.to
        THEN <<[key |-> t.from, lamports |-> left + t.amount]>>
        ELSE <<[key |-> t.from, lamports |-> left],
               [key |-> t.to, lamports |-> Balance(d, t.to) + t.amount]>>

Rollback(d, t) == <<[key |-> t.from, lamports |-> Balance(d, t.from) - Fee]>>

(* Mutant: a failed transaction keeps its writes to the recipient.         *)
ApplyFailed(d, t) ==
    CASE Processed(d, t) = "executed" -> Commit(d, Writes(d, t))
      [] Processed(d, t) = "failed"   -> Commit(d, Rollback(d, t) \o
           <<[key |-> t.to, lamports |-> Balance(d, t.to) + t.amount]>>)
      [] OTHER -> d

(* execute_transaction and apply_result.                                   *)
ExecuteTransaction(d, t) ==
    CASE Processed(d, t) = "executed" -> Commit(d, Writes(d, t))
      [] Processed(d, t) = "failed"   -> Commit(d, Rollback(d, t))
      [] OTHER -> d

FeeOf(d, t) == IF Processed(d, t) \in {"executed", "failed"} THEN Fee ELSE 0

----------------------------------------------------------------------------
(* load_allocations / open_bank.                                           *)
Allocate(d, key) == Set(d, key, Allocation[key])

Genesis == FoldLeft(Allocate, EmptyDb, SetToSeq(DOMAIN Allocation))

Init ==
    /\ dag \in BOOLEAN
    /\ db = Genesis
    /\ block = Idle
    /\ stuck = FALSE
    /\ minted = 0
    /\ burned = 0
    /\ blocks = 0

(* A block is next.  replay_blocks pays the reward first.                  *)
BeginBlock(miner, reward) ==
    /\ ~block.on /\ ~stuck
    /\ blocks < MaxBlocks
    /\ blocks' = blocks + 1
    /\ block' = [on |-> TRUE, miner |-> miner, reward |-> reward, fees |-> 0, txs |-> 0]
    /\ db' = IF dag THEN Credit(db, miner, reward) ELSE db
    /\ minted' = IF dag THEN minted + reward ELSE minted
    /\ UNCHANGED <<dag, stuck, burned>>

(* The next transaction of the block: execute_block collects its fee and   *)
(* skips it when its signature is bad; replay_blocks drops the fee.        *)
Execute(t) ==
    /\ block.on
    /\ block.txs < MaxTxs
    /\ dag => Processed(db, t) # "bad signature"
    /\ db' = ExecuteTransaction(db, t)
    /\ block' = [block EXCEPT !.txs = @ + 1,
                              !.fees = IF dag THEN @ ELSE Saturate(@ + FeeOf(db, t))]
    /\ burned' = IF dag THEN burned + FeeOf(db, t) ELSE burned
    /\ UNCHANGED <<dag, stuck, minted, blocks>>

(* replay_blocks returns the error of a bad signature.                     *)
Abort(t) ==
    /\ dag
    /\ block.on
    /\ block.txs < MaxTxs
    /\ Processed(db, t) = "bad signature"
    /\ stuck' = TRUE
    /\ block' = Idle
    /\ UNCHANGED <<dag, db, minted, burned, blocks>>

(* The coinbase of execute_block.                                          *)
Coinbase == Saturate(block.reward + block.fees)

EndBlock ==
    /\ block.on
    /\ db' = IF dag THEN db ELSE Credit(db, block.miner, Coinbase)
    /\ minted' = IF dag THEN minted ELSE minted + block.reward
    /\ block' = Idle
    /\ UNCHANGED <<dag, stuck, burned, blocks>>

Next ==
    \/ \E m \in Account, r \in Rewards : BeginBlock(m, r)
    \/ \E t \in Tx : Execute(t) \/ Abort(t)
    \/ EndBlock

Spec == Init /\ [][Next]_vars

----------------------------------------------------------------------------
(* The tree that update_leaf maintains, batch after batch, is the one      *)
(* computed from scratch over the accounts, node by node, and holds no     *)
(* node that has the default hash of its depth ("the result is identical   *)
(* to the from-scratch SparseMerkleTree for the same set", smt.rs).  Hence *)
(* the root does not depend on the history of the accounts.                *)
Leaves(d) == [k \in DOMAIN d.accounts |-> LeafFor(d.accounts, k)]

TreeMatches ==
    LET scratch == SubtreeRoot(Leaves(db))
    IN  db.nodes = [id \in {p \in Prefix : scratch[p] # Default[Len(p)]} |-> scratch[id]]

(* A light client that verifies the stored proof of a key against the      *)
(* state root is convinced of the account the store holds, or of its       *)
(* absence, and of no other value, whoever's leaf it is; and a proof for   *)
(* one key does not serve for another.                                     *)
ProofsExact ==
    \A k, j \in Key :
      LET leaves == {EmptyLeaf} \cup {LeafHash(j, n) : n \in 0..MaxLamports}
      IN  \A leaf \in leaves :
            Verify(StateRoot(db), j, leaf, StoredProof(db.nodes, k))
              <=> leaf = LeafFor(db.accounts, j) /\ StoredProof(db.nodes, k) = Proof(Leaves(db), j)

(* No lamport appears or is lost: the balances, with the fees a block has  *)
(* collected so far, are the genesis allocations and the rewards paid,     *)
(* less the fees that replay_blocks gives to nobody.                       *)
SupplyConserved ==
    Total(db.accounts) + (IF block.on THEN block.fees ELSE 0) + burned
      = Total(Allocation) + minted

(* The accounts dumped for a checkpoint, a pruning base or a bootstrap     *)
(* snapshot, committed to an empty store, give the same accounts and the   *)
(* same root: a restored node agrees with one that executed the history.   *)
RestoreSame == Commit(EmptyDb, Dump(db)) = db
=============================================================================
