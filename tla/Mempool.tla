------------------------------ MODULE Mempool -------------------------------
(***************************************************************************)
(* The transaction pool (crates/tao-mempool/src/lib.rs), as operators on a *)
(* pool value [txs, seen].  A transaction is identified with its first     *)
(* signature; transactions without one are never pooled.                   *)
(***************************************************************************)
EXTENDS Naturals, SequencesExt

CONSTANT MaxSize    \* max_size

ASSUME PoolAssumption == MaxSize \in Nat \ {0}

EmptyPool == [txs |-> <<>>, seen |-> {}]

(* Mutant: the signature of the evicted transaction stays in seen.         *)
EvictKeepsSeen(pool) ==
    IF Len(pool.txs) < MaxSize THEN pool ELSE [pool EXCEPT !.txs = Tail(@)]

(* A full pool drops its oldest transaction.                               *)
Evict(pool) ==
    IF Len(pool.txs) < MaxSize
    THEN pool
    ELSE [txs |-> Tail(pool.txs), seen |-> pool.seen \ {Head(pool.txs)}]

Submit(pool, t) ==
    LET room == Evict(pool)
    IN  IF t \in pool.seen
        THEN pool
        ELSE [txs |-> Append(room.txs, t), seen |-> room.seen \cup {t}]

(* drain(4096): the node's pool holds no more, so it is emptied.           *)
Drained(pool) == pool.txs

Drain(pool) == [txs |-> <<>>, seen |-> pool.seen \ ToSet(pool.txs)]

(* seen is exactly the set of pooled signatures, each pooled once.         *)
PoolOK(pool) ==
    /\ pool.seen = ToSet(pool.txs)
    /\ Cardinality(pool.seen) = Len(pool.txs)
    /\ Len(pool.txs) <= MaxSize
=============================================================================
