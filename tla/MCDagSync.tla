----------------------------- MODULE MCDagSync ------------------------------
(* Small instances of DagSync: every third hash beats its target by a bit. *)
EXTENDS DagSync

MCLevel == [b \in Hash |-> IF b % 3 = 2 THEN 1 ELSE 0]
=============================================================================
