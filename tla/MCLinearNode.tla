---------------------------- MODULE MCLinearNode ----------------------------
(* Two nodes of a star: node 2 dials node 1.  Both mine.  The clock of     *)
(* node 1 is behind by the longest solve time that LWMA counts.            *)
EXTENDS LinearNode, TLC

MCBootstrap == [n \in Node |-> IF n = 2 THEN {1} ELSE {}]

MCClock == [n \in Node |-> IF n = 1 THEN {0} ELSE {6}]

MCSymmetry == Permutations(Tx)
=============================================================================
