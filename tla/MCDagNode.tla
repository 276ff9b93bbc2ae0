----------------------------- MODULE MCDagNode ------------------------------
(* Small instances of DagNode: every third hash beats its target by a bit. *)
EXTENDS DagNode

MCLevel == [b \in Hash |-> IF b % 3 = 2 THEN 1 ELSE 0]
=============================================================================
