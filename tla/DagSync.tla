------------------------------ MODULE DagSync -------------------------------
(***************************************************************************)
(* Bootstrapping from a pruned peer (export_snapshot and import_snapshot   *)
(* of crates/tao-dagvm/src/dag_chain.rs).  The node of DagNode is the      *)
(* server: it mines, receives blocks and prunes.  A second node, the       *)
(* joiner, imports the server's snapshots, at any time and repeatedly,     *)
(* receives blocks of the network and restarts.                            *)
(***************************************************************************)
EXTENDS DagNode

VARIABLE joiner     \* the DagChain of the joining node

syncVars == <<chain, network, events, joiner>>

SyncInit == Init /\ joiner = NewChain

ServerStep ==
    /\ \/ \E b \in Hash : \E ps \in (SUBSET Known(network)) \ {{}} : PeerMines(b, ps)
       \/ \E b \in Hash : Mine(b)
       \/ \E b \in Known(network) : Receive(b)
       \/ PruneHistory
    /\ UNCHANGED joiner

(* The answer to GetSnapshot reaches the joiner.                           *)
Import ==
    /\ ~joiner.poisoned
    /\ CanExport(chain)
    /\ joiner' = ImportSnapshot(joiner, ExportSnapshot(chain))
    /\ UNCHANGED <<chain, network, events>>

JoinerReceives(b) ==
    /\ ~joiner.poisoned
    /\ b \notin Known(joiner)
    /\ joiner' = Accept(joiner, NetworkBlock(b))
    /\ UNCHANGED <<chain, network, events>>

JoinerRestarts ==
    /\ joiner' = Open(joiner.log)
    /\ UNCHANGED <<chain, network, events>>

SyncNext ==
    \/ ServerStep
    \/ Import
    \/ \E b \in Known(network) : JoinerReceives(b)
    \/ JoinerRestarts

SyncSpec == SyncInit /\ [][SyncNext]_syncVars

----------------------------------------------------------------------------
(* The account set of a snapshot is not covered by its proof.  Honest      *)
(* peers give a joiner exactly the effects of the past of its origin (as   *)
(* far as the server's own base is faithful, DagNode's BaseFaithful), and  *)
(* a proof that still leads from the original genesis to that origin after *)
(* later snapshots and restarts.                                           *)
JoinerBase ==
    joiner.base_accounts # NONE =>
        /\ VerifyProof(joiner.proof, Origin(joiner))
        /\ events = {} => ToSet(joiner.base_accounts) =
             ((network.engine.past[Origin(joiner)] \cup {Origin(joiner)}) \ {Genesis}) \X {TRUE}

(* Joiner and server that hold the same blocks above the same origin have  *)
(* the same DAG, hence the same order, and the same base: import_snapshot  *)
(* adds the suffix in the server's total order, the server added it in     *)
(* the order of arrival.                                                   *)
JoinerConverges ==
    Known(joiner) = Known(chain) /\ Origin(joiner) = Origin(chain) =>
        /\ joiner.engine = chain.engine
        /\ joiner.base_accounts = chain.base_accounts
        /\ ToSet(joiner.tips) = ToSet(chain.tips)

(* After the import the joiner accepts what the network mines next, unless *)
(* the server re-anchored a side block.                                    *)
JoinerAccepts == AcceptsNetwork(joiner)

(* The compacted log the import writes reproduces the joiner, also when    *)
(* blocks were appended to it afterwards.                                  *)
JoinerReopens == Durable(Open(joiner.log)) = Durable(joiner)
=============================================================================
