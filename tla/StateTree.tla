----------------------------- MODULE StateTree ------------------------------
(***************************************************************************)
(* The sparse Merkle tree over the accounts                                *)
(* (crates/tao-database/src/smt.rs): from scratch over a set of leaves,    *)
(* and incrementally in a store of the nodes that are not default.         *)
(*                                                                         *)
(* A key is a sequence of Height bits, most significant first, and the id  *)
(* of a node is the prefix of its keys.  Hashes are injective terms: the   *)
(* empty leaf is <<>>, a leaf <<0, key, value>>, an inner node <<1, l, r>>. *)
(***************************************************************************)
EXTENDS Naturals, SequencesExt, Functions

CONSTANT Height     \* HEIGHT

ASSUME HeightAssumption == Height \in Nat \ {0}

Key == [1..Height -> {0, 1}]

EmptyLeaf == <<>>

LeafHash(key, value) == <<0, key, value>>

Hash2(l, r) == <<1, l, r>>

(* defaults(): the root of an empty subtree at each depth.                 *)
Default ==
    LET d[i \in 0..Height] == IF i = 0 THEN EmptyLeaf ELSE Hash2(d[i - 1], d[i - 1])
    IN  [depth \in 0..Height |-> d[Height - depth]]

(* node_id(key, depth).                                                    *)
NodeId(key, depth) == SubSeq(key, 1, depth)

(* node_id(flip_bit(key, depth - 1), depth).                               *)
SiblingId(key, depth) == Append(SubSeq(key, 1, depth - 1), 1 - key[depth])

(* Mutant: the sides are not told apart by the bit of the key.             *)
AlwaysLeft(key, depth, cur, sib) == Hash2(cur, sib)

(* The parent of cur, which is at `depth' on the path of key.              *)
Parent(key, depth, cur, sib) ==
    IF key[depth] = 0 THEN Hash2(cur, sib) ELSE Hash2(sib, cur)

----------------------------------------------------------------------------
(* From scratch: leaves is a function from the present keys to leaf        *)
(* hashes.                                                                 *)

Prefix == UNION {[1..m -> {0, 1}] : m \in 0..Height}

(* subtree_root: the root of the subtree below each prefix.                *)
SubtreeRoot(leaves) ==
    LET root[p \in Prefix] ==
          IF ~\E k \in DOMAIN leaves : IsPrefix(p, k) THEN Default[Len(p)]
          ELSE IF Len(p) = Height THEN leaves[p]
          ELSE Hash2(root[Append(p, 0)], root[Append(p, 1)])
    IN  root

(* proof / collect_siblings.                                               *)
Proof(leaves, key) == [depth \in 1..Height |-> SubtreeRoot(leaves)[SiblingId(key, depth)]]

(* The hashes on the path of key from its leaf, at 0, up to the root.      *)
Climb(key, leaf, siblings) ==
    LET up[n \in 0..Height] ==
          IF n = 0 THEN leaf
          ELSE Parent(key, Height - n + 1, up[n - 1], siblings[Height - n + 1])
    IN  up

(* verify: the leaf folded up through the siblings gives the root.         *)
Verify(root, key, leaf, siblings) ==
    Len(siblings) = Height /\ Climb(key, leaf, siblings)[Height] = root

----------------------------------------------------------------------------
(* In a store: nodes is a function from the ids of the nodes that are not  *)
(* default to their hashes.                                                *)

GetNode(nodes, id) == IF id \in DOMAIN nodes THEN nodes[id] ELSE Default[Len(id)]

StoredRoot(nodes) == GetNode(nodes, <<>>)

StoredProof(nodes, key) == [depth \in 1..Height |-> GetNode(nodes, SiblingId(key, depth))]

(* f where g does not say otherwise.                                       *)
Override(f, g) ==
    [x \in DOMAIN f \cup DOMAIN g |-> IF x \in DOMAIN g THEN g[x] ELSE f[x]]

(* set_node and del_node along a path.                                     *)
PutPath(nodes, path) ==
    LET all == Override(nodes, path)
    IN  Restrict(all, {id \in DOMAIN all : all[id] # Default[Len(id)]})

UpdateLeaf(nodes, key, leaf) ==
    LET up == Climb(key, leaf, StoredProof(nodes, key))
    IN  PutPath(nodes, [id \in {NodeId(key, d) : d \in 0..Height} |-> up[Height - Len(id)]])
=============================================================================
