----------------------------- MODULE LinearNode -----------------------------
(***************************************************************************)
(* The linear node (crates/tao-node/src/node.rs and shared.rs) with its    *)
(* block log, its transaction pool and the gossip network of               *)
(* crates/tao-p2p: nodes that mine or follow, exchange blocks and          *)
(* transactions, lose connections, crash, and rebuild themselves from      *)
(* their logs.                                                             *)
(*                                                                         *)
(* The node loop is one thread: it applies an inbound message or mines.    *)
(* Mining a block takes several steps, between which clients submit        *)
(* transactions, messages arrive and the process may die: execute the      *)
(* drained transactions, grind and append to the log, add the header and   *)
(* announce.                                                               *)
(*                                                                         *)
(* The account store is [paid, ran]: what was credited to each miner and   *)
(* the transactions that ran, in order.  Its state root is that value.     *)
(* Every transaction pays one unit of fee, which goes to the miner.        *)
(***************************************************************************)
EXTENDS ChainState, Mempool

CONSTANTS
    Node,             \* the nodes, each its own miner key
    Miners,           \* the nodes run with --mine
    Servers,          \* the nodes run with --rpc
    Bootstrap,        \* Bootstrap[n]: the peers that n dials when it starts
    Tx,               \* transactions
    Clock,            \* Clock[n]: the values unix_now may return at n
    InitialReward,    \* reward.initial_lamports
    HalvingInterval,  \* reward.halving_interval
    MaxSent,          \* bound: transactions sent by clients
    MaxFaults         \* bound: crashes and broken connections

ASSUME NodeAssumption ==
    /\ Miners \subseteq Node
    /\ Servers \subseteq Node
    /\ Bootstrap \in [Node -> SUBSET Node]
    /\ BlockId \subseteq Nat /\ GenesisId = 0
    /\ Clock \in [Node -> SUBSET Nat]
    /\ InitialReward \in Nat
    /\ HalvingInterval \in Nat
    /\ MaxSent \in Nat
    /\ MaxFaults \in Nat

VARIABLES
    chain,     \* chain[n]: the ChainState
    bank,      \* bank[n]: the account store
    log,       \* log[n]: blocks.log, the only state that survives a crash
    pool,      \* pool[n]: the mempool
    status,    \* status[n]: the signatures reported as confirmed
    head,      \* head[n]: slot and latest blockhash that the RPC reports
    phase,     \* phase[n]: where the process is
    job,       \* job[n]: the block being mined, or the next record to replay
    links,     \* connections between nodes
    dialing,   \* <<n, m>>: n has started and not yet reached its peer m
    wire,      \* wire[<<n, m>>]: messages from n that m has not applied yet
    mined,     \* number of blocks mined; names the next one
    sent,      \* number of transactions that clients have sent
    faults,    \* number of crashes and broken connections
    events     \* history: of {"fork", "clock back"}, what has happened

local == <<chain, bank, pool, status, head, phase, job>>
net   == <<links, dialing, wire>>
vars  == <<local, log, net, mined, sent, faults, events>>

----------------------------------------------------------------------------
(* Execution.                                                              *)

(* The initial reward shifted right.                                       *)
ShiftRight[bits \in Nat] ==
    IF bits = 0 THEN InitialReward ELSE ShiftRight[bits - 1] \div 2

Emission(height) ==
    LET halvings == height \div HalvingInterval
    IN  IF HalvingInterval = 0 THEN InitialReward
        ELSE IF halvings >= 64 THEN 0
        ELSE ShiftRight[halvings]

GenesisBank == [paid |-> [n \in Node |-> 0], ran |-> <<>>]

(* execute_block: the transactions in order, then the coinbase.            *)
ExecuteBlock(bk, txs, miner, reward) ==
    [paid |-> [bk.paid EXCEPT ![miner] = @ + reward + Len(txs)],
     ran  |-> bk.ran \o txs]

Execute(bk, block) == ExecuteBlock(bk, block.txs, block.miner, Emission(block.height))

(* Mutant: the account directory is not wiped when the node starts.        *)
BankKept(n) == bank[n]

(* "Account store is a derived cache: wipe and rebuild from the log."      *)
FreshBank(n) == GenesisBank

(* One record of the log.  A header that add_header rejects is ignored but *)
(* its transactions are executed all the same.                             *)
Replay(r, block) ==
    LET after == Execute(r.bank, block)
    IN  [chain |-> IF HeaderResult(r.chain, block.id, block) = "ok"
                   THEN AddHeader(r.chain, block.id, block) ELSE r.chain,
         bank  |-> after,
         ok    |-> after = block.root]

----------------------------------------------------------------------------
Init ==
    /\ chain = [n \in Node |-> NewChainState]
    /\ bank = [n \in Node |-> GenesisBank]
    /\ log = [n \in Node |-> <<>>]
    /\ pool = [n \in Node |-> EmptyPool]
    /\ status = [n \in Node |-> {}]
    /\ head = [n \in Node |-> [slot |-> 0, hash |-> GenesisId]]
    /\ phase = [n \in Node |-> "idle"]
    /\ job = [n \in Node |-> 0]
    /\ links = {}
    /\ dialing = {p \in Node \X Node : p[2] \in Bootstrap[p[1]]}
    /\ wire = [p \in Node \X Node |-> <<>>]
    /\ mined = 0
    /\ sent = 0
    /\ faults = 0
    /\ events = {}

Up(n) == phase[n] \in {"idle", "executed", "logged"}

(* broadcast: to every connected peer.                                     *)
Broadcast(n, kind, body) ==
    wire' = [p \in Node \X Node |->
               IF p[1] = n /\ {n, p[2]} \in links
               THEN Append(wire[p], [kind |-> kind, body |-> body]) ELSE wire[p]]

Confirm(n, txs) == status' = [status EXCEPT ![n] = @ \cup ToSet(txs)]

Advance(n, height, tip) == head' = [head EXCEPT ![n] = [slot |-> height, hash |-> tip]]

(* The process of n ends; its connections and its inbound messages go.     *)
Exit(n) ==
    /\ phase' = [phase EXCEPT ![n] = "down"]
    /\ links' = {l \in links : n \notin l}
    /\ dialing' = {p \in dialing : p[1] # n}
    /\ wire' = [p \in Node \X Node |-> IF p[2] = n THEN <<>> ELSE wire[p]]

----------------------------------------------------------------------------
(* Transactions.                                                           *)

(* sendTransaction: pool it and relay it.                                  *)
SendTransaction(n, t) ==
    /\ n \in Servers
    /\ Up(n)
    /\ sent < MaxSent
    /\ sent' = sent + 1
    /\ pool' = [pool EXCEPT ![n] = Submit(@, t)]
    /\ Broadcast(n, "tx", t)
    /\ UNCHANGED <<chain, bank, status, head, phase, job, log, links, dialing,
                   mined, faults, events>>

ReceiveTx(m, n) ==
    /\ phase[n] = "idle"
    /\ wire[<<m, n>>] # <<>> /\ Head(wire[<<m, n>>]).kind = "tx"
    /\ pool' = [pool EXCEPT ![n] = Submit(@, Head(wire[<<m, n>>]).body)]
    /\ wire' = [wire EXCEPT ![<<m, n>>] = Tail(@)]
    /\ UNCHANGED <<chain, bank, status, head, phase, job, log, links, dialing,
                   mined, sent, faults, events>>

----------------------------------------------------------------------------
(* Mining (mine_one).                                                      *)

(* Drain the pool, execute, and build the candidate on the best tip.       *)
MineExecute(n) ==
    LET txs    == Drained(pool[n])
        height == chain[n].headers[chain[n].tip].height + 1
        after  == ExecuteBlock(bank[n], txs, n, Emission(height))
        header == Candidate(chain[n], 0)
    IN  /\ n \in Miners
        /\ phase[n] = "idle"
        /\ mined + 1 \in BlockId
        /\ pool' = [pool EXCEPT ![n] = Drain(@)]
        /\ bank' = [bank EXCEPT ![n] = after]
        /\ job' = [job EXCEPT ![n] =
                     [id |-> GenesisId, prev |-> header.prev, height |-> header.height,
                      time |-> header.time, target |-> header.target,
                      miner |-> n, txs |-> txs, root |-> after]]
        /\ phase' = [phase EXCEPT ![n] = "executed"]
        /\ UNCHANGED <<chain, status, head, log, net, mined, sent, faults, events>>

(* Mutant: the log file is opened without append.                          *)
LogOverwrite(records, block) == <<block>>

LogAppend(records, block) == Append(records, block)

(* The nonce is found under some clock reading, that of the candidate or a *)
(* later one, and the block is written to the log.                         *)
MineAppend(n) ==
    \E now \in Clock[n] :
        LET block == [job[n] EXCEPT !.id = mined + 1, !.time = now]
        IN  /\ phase[n] = "executed"
            /\ mined + 1 \in BlockId
            /\ mined' = mined + 1
            /\ log' = [log EXCEPT ![n] = LogAppend(@, block)]
            /\ job' = [job EXCEPT ![n] = block]
            /\ phase' = [phase EXCEPT ![n] = "logged"]
            /\ events' = events \cup
                 (IF now < chain[n].headers[block.prev].time THEN {"clock back"} ELSE {})
            /\ UNCHANGED <<chain, bank, pool, status, head, net, sent, faults>>

(* Add the header, confirm the transactions, announce the block.           *)
MineCommit(n) ==
    LET block == job[n]
        after == AddHeader(chain[n], block.id, block)
    IN  /\ phase[n] = "logged"
        /\ HeaderResult(chain[n], block.id, block) = "ok"
        /\ chain' = [chain EXCEPT ![n] = after]
        /\ Confirm(n, block.txs)
        /\ Advance(n, block.height, after.tip)
        /\ Broadcast(n, "block", block)
        /\ phase' = [phase EXCEPT ![n] = "idle"]
        /\ job' = [job EXCEPT ![n] = 0]
        /\ UNCHANGED <<bank, pool, log, links, dialing, mined, sent, faults, events>>

(* "self-mined block rejected": run returns the error and the node exits,  *)
(* the block already in its log.                                           *)
MineRejected(n) ==
    /\ phase[n] = "logged"
    /\ HeaderResult(chain[n], job[n].id, job[n]) # "ok"
    /\ Exit(n)
    /\ job' = [job EXCEPT ![n] = 0]
    /\ UNCHANGED <<chain, bank, pool, status, head, log, mined, sent, faults, events>>

----------------------------------------------------------------------------
(* A block of a peer (apply_peer_block).                                   *)

(* Mutant: the block is executed even if its header is rejected.           *)
ExecutesAlways(c, block) == block.id \notin KnownBlocks(c)

(* Whether the block gets as far as being executed.                        *)
Executes(c, block) == HeaderResult(c, block.id, block) = "ok"

(* Skipped when known or rejected.  Otherwise the header is added and the  *)
(* block executed; only if the state root matches is it logged, confirmed  *)
(* and made the RPC's head.                                                *)
ReceiveBlock(m, n) ==
    LET block == Head(wire[<<m, n>>]).body
        added == IF HeaderResult(chain[n], block.id, block) = "ok"
                 THEN AddHeader(chain[n], block.id, block) ELSE chain[n]
        after == Execute(bank[n], block)
    IN  /\ phase[n] = "idle"
        /\ wire[<<m, n>>] # <<>> /\ Head(wire[<<m, n>>]).kind = "block"
        /\ wire' = [wire EXCEPT ![<<m, n>>] = Tail(@)]
        /\ IF Executes(chain[n], block)
           THEN /\ chain' = [chain EXCEPT ![n] = added]
                /\ bank' = [bank EXCEPT ![n] = after]
                /\ events' = events \cup
                     (IF added # chain[n] /\ block.prev # chain[n].tip THEN {"fork"} ELSE {})
                /\ IF after = block.root
                   THEN /\ log' = [log EXCEPT ![n] = LogAppend(@, block)]
                        /\ Confirm(n, block.txs)
                        /\ Advance(n, block.height, added.tip)
                   ELSE UNCHANGED <<log, status, head>>
           ELSE UNCHANGED <<chain, bank, log, status, head, events>>
        /\ UNCHANGED <<pool, phase, job, links, dialing, mined, sent, faults>>

----------------------------------------------------------------------------
(* Faults.                                                                 *)

Crash(n) ==
    /\ phase[n] \notin {"down", "failed"}
    /\ faults < MaxFaults
    /\ faults' = faults + 1
    /\ Exit(n)
    /\ job' = [job EXCEPT ![n] = 0]
    /\ UNCHANGED <<chain, bank, pool, status, head, log, mined, sent, events>>

(* A connection breaks; neither side dials again.                          *)
LinkBreaks(l) ==
    /\ faults < MaxFaults
    /\ faults' = faults + 1
    /\ links' = links \ {l}
    /\ UNCHANGED <<local, log, dialing, wire, mined, sent, events>>

(* What a broken connection had not delivered may be lost, last first.     *)
Lose(m, n) ==
    /\ {m, n} \notin links
    /\ wire[<<m, n>>] # <<>>
    /\ wire' = [wire EXCEPT ![<<m, n>>] = Front(@)]
    /\ UNCHANGED <<local, log, links, dialing, mined, sent, faults, events>>

(* A started node reaches a bootstrap peer.  It tries 30 times; giving up  *)
(* is not taking this step.                                                *)
Connect(n, m) ==
    /\ <<n, m>> \in dialing
    /\ Up(n) /\ Up(m)
    /\ links' = links \cup {{n, m}}
    /\ dialing' = dialing \ {<<n, m>>}
    /\ UNCHANGED <<local, log, wire, mined, sent, faults, events>>

(* prepare: start again from the genesis and the first record of the log.  *)
Restart(n) ==
    /\ phase[n] = "down"
    /\ chain' = [chain EXCEPT ![n] = NewChainState]
    /\ bank' = [bank EXCEPT ![n] = FreshBank(n)]
    /\ pool' = [pool EXCEPT ![n] = EmptyPool]
    /\ status' = [status EXCEPT ![n] = {}]
    /\ phase' = [phase EXCEPT ![n] = "replaying"]
    /\ job' = [job EXCEPT ![n] = 1]
    /\ UNCHANGED <<head, log, net, mined, sent, faults, events>>

ReplayRecord(n) ==
    LET r == Replay([chain |-> chain[n], bank |-> bank[n]], log[n][job[n]])
    IN  /\ phase[n] = "replaying"
        /\ job[n] \in DOMAIN log[n]
        /\ chain' = [chain EXCEPT ![n] = r.chain]
        /\ bank' = [bank EXCEPT ![n] = r.bank]
        /\ job' = [job EXCEPT ![n] = @ + 1]
        /\ phase' = [phase EXCEPT ![n] = IF r.ok THEN "replaying" ELSE "failed"]
        /\ UNCHANGED <<pool, status, head, log, net, mined, sent, faults, events>>

(* Everything replayed: serve RPC, listen, dial.                           *)
Start(n) ==
    /\ phase[n] = "replaying"
    /\ job[n] \notin DOMAIN log[n]
    /\ phase' = [phase EXCEPT ![n] = "idle"]
    /\ job' = [job EXCEPT ![n] = 0]
    /\ Advance(n, chain[n].headers[chain[n].tip].height, chain[n].tip)
    /\ dialing' = dialing \cup ({n} \X Bootstrap[n])
    /\ UNCHANGED <<chain, bank, pool, status, log, links, wire, mined, sent, faults, events>>

----------------------------------------------------------------------------
Next ==
    \/ \E n \in Node, t \in Tx : SendTransaction(n, t)
    \/ \E n \in Node :
         \/ MineExecute(n) \/ MineAppend(n) \/ MineCommit(n) \/ MineRejected(n)
         \/ Crash(n) \/ Restart(n) \/ ReplayRecord(n) \/ Start(n)
    \/ \E m, n \in Node : ReceiveTx(m, n) \/ ReceiveBlock(m, n) \/ Lose(m, n) \/ Connect(m, n)
    \/ \E l \in links : LinkBreaks(l)

Spec == Init /\ [][Next]_vars

----------------------------------------------------------------------------
(* Fork choice (add_header): the tip has the most work, whatever the order *)
(* in which blocks came, whether or not their state root matched, and      *)
(* again after a replay.                                                   *)
TipHeaviest ==
    \A n \in Node : \A b \in KnownBlocks(chain[n]) :
        chain[n].work[b] <= chain[n].work[chain[n].tip]

(* A running node only leaves its tip for strictly more work: equal work   *)
(* never makes two nodes swap tips back and forth.                         *)
TipOnlyImproves ==
    [][\A n \in Node :
         chain'[n].tip # chain[n].tip /\ phase'[n] # "replaying" =>
             /\ chain[n].tip \in KnownBlocks(chain'[n])
             /\ chain'[n].work[chain[n].tip] < chain'[n].work[chain'[n].tip]]_vars

(* What a restart makes of a log; a root that does not match ends it.      *)
ReplayNext(r, block) == IF r.ok THEN Replay(r, block) ELSE r

Replayed(n) ==
    FoldLeft(ReplayNext, [chain |-> NewChainState, bank |-> FreshBank(n), ok |-> TRUE], log[n])

(* "on restart the block log is replayed and re-executed, verifying every  *)
(* block's state_root" (README): whenever the process dies, the log can be *)
(* replayed, and a node that is between blocks gets back the chain and the *)
(* accounts it had.  Only after a fork or a rejected own block can a log   *)
(* fail (apply_peer_block executes side blocks on the tip's accounts).     *)
RestartReproduces ==
    events = {} =>
        \A n \in Node :
            /\ Replayed(n).ok
            /\ phase[n] = "idle" =>
                 Replayed(n).chain = chain[n] /\ Replayed(n).bank = bank[n]

(* Between blocks the accounts are those of the chain up to the tip, the   *)
(* tip's header commits to them, and the RPC reports that tip.  Rejected,  *)
(* duplicate and orphan blocks of peers leave no trace.                    *)
BankFollowsChain ==
    events = {} =>
        \A n \in Node : phase[n] = "idle" =>
            LET path   == PathTo(chain[n], chain[n].tip)
                blocks == [i \in 1..(Len(path) - 1) |-> chain[n].headers[path[i + 1]]]
            IN  /\ bank[n] = FoldLeft(Execute, GenesisBank, blocks)
                /\ blocks # <<>> => bank[n] = Last(blocks).root
                /\ head[n] = [slot |-> Len(blocks), hash |-> chain[n].tip]

(* A signature that getSignatureStatuses reports as confirmed belongs to a *)
(* block in the node's own log, forks and crashes included.                *)
ConfirmedIsLogged ==
    \A n \in Node : status[n] \subseteq UNION {ToSet(log[n][i].txs) : i \in DOMAIN log[n]}

(* seen is exactly the set of pooled signatures, each pooled once, within  *)
(* the limit: no transaction is refused that is not pooled.                *)
PoolsOK == \A n \in Node : PoolOK(pool[n])
=============================================================================
