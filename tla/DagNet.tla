------------------------------- MODULE DagNet -------------------------------
(***************************************************************************)
(* A network of blockDAG nodes: the loop of dag_run                        *)
(* (crates/tao-node/src/main.rs), the gossip layer (crates/tao-p2p) and    *)
(* the part of the RPC that submits transactions, around one DagChain per  *)
(* node.                                                                   *)
(*                                                                         *)
(* An iteration of the loop that drains several messages is several        *)
(* iterations that drain one; the timers of an iteration are actions of    *)
(* their own, since each has its own period.  Messages of a connection     *)
(* arrive in order.  A message equal to one in flight on the same          *)
(* connection, or to a buffered orphan, is not added again (bound).        *)
(***************************************************************************)
EXTENDS DagChain, Mempool

CONSTANTS
    Node,
    Bootstrap,      \* the peers each node dials when it starts (--peers)
    Tx,             \* transactions that clients send
    Setups          \* bound: the networks to look at, each a record of
                    \*   history    how many blocks, mined earlier one upon
                    \*              the other, each node starts with
                    \*   running    the nodes that run, connected, at first
                    \*   joining    the nodes started later
                    \*   pruned     the nodes that have pruned this history
                    \*   pruners    the nodes that prune later: the others'
                    \*              --finality-depth is never reached
                    \*   quota      how many blocks each node mines
                    \*   txs        the transactions sent, and
                    \*   clients    the nodes they are sent to (--rpc)
                    \*   faults     how many crashes and lost connections

ASSUME NetAssumption ==
    /\ Bootstrap \in [Node -> SUBSET Node]
    /\ \A s \in Setups :
         /\ {s.history, s.quota} \subseteq [Node -> Nat]
         /\ s.running \cup s.joining \cup s.pruned \cup s.pruners \cup s.clients \subseteq Node
         /\ s.txs \subseteq Tx
         /\ s.faults \in Nat

VARIABLES
    setup,      \* the network we look at
    chain,      \* the DagChain of each node
    up,         \* the nodes whose process runs
    pending,    \* blocks whose parents are missing
    pool,       \* the mempool
    seen_tx,    \* transactions that came by gossip
    links,      \* pairs of connected nodes
    dialing,    \* pairs of a node and a peer it tries to connect to
    wire,       \* for every pair of nodes the messages under way
    mined,      \* the blocks mined so far, with their transactions
    sent,       \* history: transactions that clients sent
    faults      \* history: crashes and lost connections

vars == <<setup, chain, up, pending, pool, seen_tx, links, dialing, wire, mined, sent, faults>>

nodeVars == <<setup, chain, up, pending, pool, seen_tx, mined, sent>>

----------------------------------------------------------------------------
(* Messages (NetMsg) and connections.                                      *)

NewBlock(b)  == [type |-> "NewBlock", block |-> b]
WantBlock(b) == [type |-> "GetBlock", id |-> b]
GetTips      == [type |-> "GetTips"]
Tips(ids)    == [type |-> "Tips", ids |-> ids]
GetSnapshot  == [type |-> "GetSnapshot"]
Snapshot(s)  == [type |-> "Snapshot", snap |-> s]
NewTx(t)     == [type |-> "NewTx", tx |-> t]

Peers(n) == {m \in Node : {n, m} \in links /\ m # n}

Queue(q, msgs) ==
    FoldLeft(LAMBDA acc, msg : IF Contains(acc, msg) THEN acc ELSE Append(acc, msg), q, msgs)

(* Node n sends `replies' to m and `casts' to all its peers, having read   *)
(* the first message from m (send_to and broadcast).                       *)
Answer(n, m, replies, casts) ==
    wire' = [p \in Node \X Node |->
               IF p = <<m, n>> THEN Tail(wire[p])
               ELSE IF p[1] = n /\ p[2] \in Peers(n)
               THEN Queue(wire[p], IF p[2] = m THEN replies \o casts ELSE casts)
               ELSE wire[p]]

Send(n, peers, msgs) ==
    wire' = [p \in Node \X Node |->
               IF p[1] = n /\ p[2] \in peers THEN Queue(wire[p], msgs) ELSE wire[p]]

(* The connections of a set of pairs are lost, with what was under way.    *)
Disconnect(lost) ==
    /\ links' = links \ lost
    /\ wire' = [p \in Node \X Node |-> IF {p[1], p[2]} \in lost THEN <<>> ELSE wire[p]]

----------------------------------------------------------------------------
(* The history the nodes start with: blocks 1, 2, ... mined by one node.   *)

ChainOf(n) == FoldLeft(MineBlock, NewChain, [i \in 1..n |-> i])

Init ==
    /\ setup \in Setups
    /\ chain = [n \in Node |->
                  LET c == VirtualState(ChainOf(setup.history[n]))
                  IN  IF n \in setup.pruned THEN VirtualState(Prune(c)) ELSE c]
    /\ up = setup.running
    /\ pending = [n \in Node |-> <<>>]
    /\ pool = [n \in Node |-> EmptyPool]
    /\ seen_tx = [n \in Node |-> {}]
    /\ links = UNION {{{n, m} : m \in Bootstrap[n] \cap up} : n \in up}
    /\ dialing = {}
    /\ wire = [p \in Node \X Node |-> <<>>]
    /\ mined = [b \in 1..Max(Range(setup.history)) |-> [by |-> NONE, txs |-> <<>>]]
    /\ sent = {}
    /\ faults = 0

----------------------------------------------------------------------------
(* The inbound messages.                                                   *)

Running(n) == n \in up /\ ~chain[n].poisoned

(* One pass over the pending blocks; known blocks count as accepted.       *)
Pass(s) ==
    LET Take(t, block, result) ==
          CASE result = "ok" ->
                 [t EXCEPT !.chain = AppendAndApply(@, block), !.relay = Append(@, NewBlock(block))]
            [] result = "known" ->
                 [t EXCEPT !.relay = Append(@, NewBlock(block))]
            [] result = "orphan" ->
                 [t EXCEPT !.pending = Append(@, block)]
            [] OTHER -> t
        Try(t, block) == Take(t, block, AcceptResult(t.chain, block))
    IN  FoldLeft(Try, [s EXCEPT !.pending = <<>>], s.pending)

(* Mutant: one pass only.                                                  *)
ApplyOnce(c, blocks) == Pass([chain |-> c, pending |-> blocks, relay |-> <<>>])

(* Passes until there is no progress.                                      *)
ApplyPending(c, blocks) ==
    FoldLeft(LAMBDA s, b : Pass(s), [chain |-> c, pending |-> blocks, relay |-> <<>>], blocks)

Message(m, n, type) == Running(n) /\ wire[m, n] # <<>> /\ Head(wire[m, n]).type = type

(* The node's chain becomes c; the orphans are tried again and what is     *)
(* accepted is relayed.                                                    *)
Settle(n, m, c, blocks) ==
    \E s \in {ApplyPending(c, blocks)} :
      /\ chain' = [chain EXCEPT ![n] = s.chain]
      /\ pending' = [pending EXCEPT ![n] = s.pending]
      /\ Answer(n, m, <<>>, s.relay)

OnNewBlock(n, m) ==
    /\ Message(m, n, "NewBlock")
    /\ LET block == Head(wire[m, n]).block
       IN  Settle(n, m, chain[n], Queue(pending[n], <<block>>))
    /\ UNCHANGED <<setup, up, pool, seen_tx, links, dialing, mined, sent, faults>>

OnGetBlock(n, m) ==
    /\ Message(m, n, "GetBlock")
    /\ LET id == Head(wire[m, n]).id
       IN  Answer(n, m, IF id \in Known(chain[n])
                        THEN <<NewBlock(GetBlock(chain[n], id))>> ELSE <<>>, <<>>)
    /\ UNCHANGED <<nodeVars, links, dialing, faults>>

OnGetTips(n, m) ==
    /\ Message(m, n, "GetTips")
    /\ Answer(n, m, <<Tips(chain[n].tips)>>, <<>>)
    /\ UNCHANGED <<nodeVars, links, dialing, faults>>

OnTips(n, m) ==
    /\ Message(m, n, "Tips")
    /\ LET unknown == SelectSeq(Head(wire[m, n]).ids, LAMBDA b : b \notin Known(chain[n]))
       IN  Answer(n, m, <<>>, [i \in DOMAIN unknown |-> WantBlock(unknown[i])])
    /\ UNCHANGED <<nodeVars, links, dialing, faults>>

OnGetSnapshot(n, m) ==
    /\ Message(m, n, "GetSnapshot")
    /\ Answer(n, m, IF CanExport(chain[n])
                    THEN <<Snapshot(ExportSnapshot(chain[n]))>> ELSE <<>>, <<>>)
    /\ UNCHANGED <<nodeVars, links, dialing, faults>>

OnSnapshot(n, m) ==
    /\ Message(m, n, "Snapshot")
    /\ LET snap == Head(wire[m, n]).snap
       IN  Settle(n, m, ImportSnapshot(chain[n], snap), pending[n])
    /\ UNCHANGED <<setup, up, pool, seen_tx, links, dialing, mined, sent, faults>>

OnNewTx(n, m) ==
    /\ Message(m, n, "NewTx")
    /\ LET t   == Head(wire[m, n]).tx
           new == t \notin seen_tx[n]
       IN  /\ seen_tx' = [seen_tx EXCEPT ![n] = @ \cup {t}]
           /\ pool' = IF new THEN [pool EXCEPT ![n] = Submit(@, t)] ELSE pool
           /\ Answer(n, m, <<>>, IF new THEN <<NewTx(t)>> ELSE <<>>)
    /\ UNCHANGED <<setup, chain, up, pending, links, dialing, mined, sent, faults>>

Receive(n, m) ==
    \/ OnNewBlock(n, m)
    \/ OnGetBlock(n, m)
    \/ OnGetTips(n, m)
    \/ OnTips(n, m)
    \/ OnGetSnapshot(n, m)
    \/ OnSnapshot(n, m)
    \/ OnNewTx(n, m)

----------------------------------------------------------------------------
(* The timers.  Their periods (300 ms, 60 s and 2 s) exceed a round trip:  *)
(* a request is not repeated while the last one or an answer to it is      *)
(* under way (bound).                                                      *)

Awaits(n, request, answer) ==
    \E m \in Node : \/ \E i \in DOMAIN wire[n, m] : wire[n, m][i].type = request
                   \/ \E i \in DOMAIN wire[m, n] : wire[m, n][i].type = answer

(* Mutant: nothing is asked for.                                           *)
NoBackfill(n) == FALSE

(* The missing parents of the orphans are requested from all peers.        *)
Backfill(n) ==
    LET wanted == (UNION {b.header.parents : b \in ToSet(pending[n])}) \ Known(chain[n])
    IN  /\ Running(n)
        /\ wanted # {}
        /\ Send(n, Peers(n), [i \in 1..Cardinality(wanted) |-> WantBlock(SetToSeq(wanted)[i])])
        /\ UNCHANGED <<nodeVars, links, dialing, faults>>

(* any_peer is asked for a snapshot.                                       *)
AskSnapshot(n) ==
    /\ Running(n)
    /\ pending[n] # <<>>
    /\ ~Awaits(n, "GetSnapshot", "Snapshot")
    /\ \E m \in Peers(n) : Send(n, {m}, <<GetSnapshot>>)
    /\ UNCHANGED <<nodeVars, links, dialing, faults>>

(* The heartbeat.                                                          *)
AskTips(n) ==
    /\ Running(n)
    /\ ~Awaits(n, "GetTips", "Tips")
    /\ Send(n, Peers(n), <<GetTips>>)
    /\ UNCHANGED <<nodeVars, links, dialing, faults>>

(* Maintenance: virtual_state, then prune; the next iteration tries the    *)
(* orphans again.                                                          *)
Maintain(n) ==
    /\ n \in setup.pruners
    /\ Running(n)
    /\ ~VirtualStateFails(chain[n])
    /\ \E c \in {VirtualState(chain[n])} :
         \E s \in {ApplyPending(Prune(c), pending[n])} :
           /\ chain' = [chain EXCEPT ![n] = s.chain]
           /\ pending' = [pending EXCEPT ![n] = s.pending]
           /\ Send(n, Peers(n), s.relay)
    /\ UNCHANGED <<setup, up, pool, seen_tx, links, dialing, mined, sent, faults>>

CanMine(n) ==
    /\ Running(n)
    /\ Cardinality({x \in DOMAIN mined : mined[x].by = n}) < setup.quota[n]
    /\ Hash # DOMAIN mined \cup {Genesis}

(* A block of everything in the mempool, on the current tips; the timer    *)
(* has expired when the process starts, so this may come first.            *)
Mine(n) ==
    LET b == Min(Hash \ (DOMAIN mined \cup {Genesis}))
    IN  /\ CanMine(n)
        /\ chain' = [chain EXCEPT ![n] = VirtualState(MineBlock(@, b))]
        /\ mined' = Insert(mined, b, [by |-> n, txs |-> Drained(pool[n])])
        /\ pool' = [pool EXCEPT ![n] = Drain(@)]
        /\ Send(n, Peers(n), <<NewBlock(BuildBlock(chain[n], b))>>)
        /\ UNCHANGED <<setup, up, pending, seen_tx, links, dialing, sent, faults>>

(* sendTransaction: submit and gossip_tx.                                  *)
SendTransaction(n, t) ==
    /\ n \in setup.clients
    /\ Running(n)
    /\ t \in setup.txs \ sent
    /\ sent' = sent \cup {t}
    /\ pool' = [pool EXCEPT ![n] = Submit(@, t)]
    /\ Send(n, Peers(n), <<NewTx(t)>>)
    /\ UNCHANGED <<setup, chain, up, pending, seen_tx, links, dialing, mined, faults>>

----------------------------------------------------------------------------
(* Processes and connections.                                              *)

(* dag_open, virtual_state and Network::start.                             *)
Start(n) ==
    /\ n \in (setup.joining \cup setup.running) \ up
    /\ up' = up \cup {n}
    /\ chain' = [chain EXCEPT ![n] = VirtualState(@)]
    /\ dialing' = dialing \cup ({n} \X Bootstrap[n])
    /\ UNCHANGED <<setup, pending, pool, seen_tx, links, wire, mined, sent, faults>>

(* The process ends: what is not in its log is gone.                       *)
Crash(n) ==
    /\ n \in up
    /\ faults < setup.faults
    /\ faults' = faults + 1
    /\ up' = up \ {n}
    /\ chain' = [chain EXCEPT ![n] = Open(@.log)]
    /\ pending' = [pending EXCEPT ![n] = <<>>]
    /\ pool' = [pool EXCEPT ![n] = EmptyPool]
    /\ seen_tx' = [seen_tx EXCEPT ![n] = {}]
    /\ dialing' = {d \in dialing : d[1] # n}
    /\ Disconnect({l \in links : n \in l})
    /\ UNCHANGED <<setup, mined, sent>>

(* A dialling thread connects, or gives up after its attempts.             *)
Dial(n, m) ==
    /\ <<n, m>> \in dialing
    /\ m \in up
    /\ dialing' = dialing \ {<<n, m>>}
    /\ links' = links \cup {{n, m}}
    /\ UNCHANGED <<nodeVars, wire, faults>>

GiveUp(n, m) ==
    /\ <<n, m>> \in dialing
    /\ m \notin up
    /\ dialing' = dialing \ {<<n, m>>}
    /\ UNCHANGED <<nodeVars, links, wire, faults>>

(* A connection is lost; nobody dials again.                               *)
Break(l) ==
    /\ faults < setup.faults
    /\ faults' = faults + 1
    /\ Disconnect({l})
    /\ UNCHANGED <<nodeVars, dialing>>

Next ==
    \/ \E n, m \in Node : Receive(n, m)
    \/ \E n \in Node :
         \/ Backfill(n)
         \/ AskSnapshot(n)
         \/ AskTips(n)
         \/ Maintain(n)
         \/ Mine(n)
         \/ Start(n)
         \/ Crash(n)
         \/ \E t \in Tx : SendTransaction(n, t)
    \/ \E n, m \in Node : Dial(n, m) \/ GiveUp(n, m)
    \/ \E l \in links : Break(l)

(* Every thread of a running process gets its turn, every timer expires,   *)
(* and what was sent on a connection that lasts arrives.  (The second      *)
(* conjunct is weak fairness of Receive, which is possible whenever a      *)
(* message is there, with that condition written out.)                     *)
Neighbours == {<<n, m>> \in Node \X Node : m \in Bootstrap[n] \/ n \in Bootstrap[m]}

Fairness ==
    /\ \A p \in Neighbours :
         /\ WF_vars(Dial(p[1], p[2]))
         /\ \/ []<>~(Running(p[1]) /\ wire[p[2], p[1]] # <<>>)
            \/ []<><<Receive(p[1], p[2])>>_vars
    /\ \A n \in Node :
         /\ WF_vars(Backfill(n))
         /\ WF_vars(AskSnapshot(n))
         /\ WF_vars(AskTips(n))

Spec == Init /\ [][Next]_vars /\ Fairness

----------------------------------------------------------------------------
Connected(n, m) == {n, m} \in links

SameOrder(n, m) ==
    LET a == TotalOrder(chain[n].engine)
        b == TotalOrder(chain[m].engine)
    IN  IsSuffix(a, b) \/ IsSuffix(b, a)

(* A pruned node refuses a tip of m for good: because it missed two blocks *)
(* and takes the second for one whose parents were pruned, so that it      *)
(* never asks for the first; because m stayed away, or mined, for too long *)
(* before a snapshot could reach it and now adopts none; or because the    *)
(* window below the block is too short (accept, import_snapshot).          *)
Refuses(n, m) ==
    /\ chain[n].history_pruned
    /\ \E b \in ToSet(chain[m].tips) :
         AcceptResult(chain[n], GetBlock(chain[m], b)) \in {"parent pruned", "unexpected target"}

(* A prune kept a block mined in parallel to the pruning point, a block of *)
(* which a parent is gone, and with it the order may have changed.         *)
Sideways(n) ==
    \E b \in Known(chain[n]) \ {Origin(chain[n])} :
        ~(chain[n].headers[b].parents \subseteq Known(chain[n]))

DeadEnd(n, m) == Refuses(n, m) \/ Sideways(n)

(* Two nodes that stay connected end up with the same order, one of them   *)
(* perhaps without a pruned beginning of it, whatever was lost or          *)
(* reordered while one of them was away ("converge with peers on one       *)
(* GHOSTDAG order", dag_run), or in one of the dead ends.                  *)
Converge ==
    \A n \in Node : \A m \in Bootstrap[n] :
        <>[]Connected(n, m) => <>[](SameOrder(n, m) \/ DeadEnd(n, m) \/ DeadEnd(m, n))

(* A block that both ends of a connection have is no longer sent between   *)
(* them: "receivers dedup by has_block" (dag_run).                         *)
Relayed(n, m) == \E i \in DOMAIN wire[n, m] : wire[n, m][i].type = "NewBlock"

RelayEnds ==
    \A n \in Node : \A m \in Bootstrap[n] : <>[]~(Relayed(n, m) \/ Relayed(m, n))

(* No orphan is left behind: the parents of a buffered block are missing,  *)
(* so that Backfill asks for them.                                         *)
OrphansWait ==
    \A n \in Node : \A b \in ToSet(pending[n]) :
      ~(b.header.parents \subseteq Known(chain[n]))

=============================================================================
