------------------------------ MODULE Ancestry ------------------------------
(***************************************************************************)
(* What the reachability index promises: it answers who is a DAG ancestor  *)
(* of whom.  A block arrives with its parents and inherits their past; a   *)
(* deleted block leaves every other answer as it was.                      *)
(***************************************************************************)
CONSTANTS
    Hash,     \* block hashes
    ORIGIN    \* the virtual block above the first one

VARIABLES
    parents,  \* the parents every block was added with
    past      \* the strict ancestors the index answers for every block

vars == <<parents, past>>

Init ==
    /\ parents = [b \in {ORIGIN} |-> {}]
    /\ past = [b \in {ORIGIN} |-> {}]

(* b is new: its past is that of its parents ps, with the parents.         *)
AddBlock(b, ps) ==
    /\ parents' = [x \in DOMAIN parents \cup {b} |-> IF x = b THEN ps ELSE parents[x]]
    /\ past' = [x \in DOMAIN past \cup {b} |->
                  IF x = b THEN ps \cup UNION {past[p] : p \in ps} ELSE past[x]]

(* The children of b get its parents in its place.                         *)
DeleteBlock(b) ==
    /\ parents' = [x \in DOMAIN parents \ {b} |->
                     IF b \in parents[x] THEN (parents[x] \ {b}) \cup parents[b]
                                         ELSE parents[x]]
    /\ past' = [x \in DOMAIN past \ {b} |-> past[x] \ {b}]

Next ==
    \/ \E b \in Hash \ DOMAIN parents :
         \E ps \in (SUBSET DOMAIN parents) \ {{}} : AddBlock(b, ps)
    \/ \E b \in DOMAIN parents \ {ORIGIN} : DeleteBlock(b)

Spec == Init /\ [][Next]_vars

=============================================================================
