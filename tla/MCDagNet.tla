------------------------------ MODULE MCDagNet ------------------------------
(* Small networks: every third hash beats its target by a bit.             *)
EXTENDS DagNet

MCLevel == [b \in Hash |-> IF b % 3 = 2 THEN 1 ELSE 0]

(* A star: everybody dials node 1.                                         *)
Star == [n \in Node |-> IF n = 1 THEN {} ELSE {1}]

(* Node 2 starts later; the rest is set by the networks below.             *)
Network(history, quota) ==
    [history |-> [n \in Node |-> history[n]], quota |-> [n \in Node |-> quota[n]],
     running |-> {1}, joining |-> {2}, pruned |-> {}, pruners |-> {},
     txs |-> {}, clients |-> {}, faults |-> 0]

(* Node 2 comes back having missed two blocks, and mines; one fault.       *)
Missed == [Network(<<2, 0, 0>>, <<0, 1, 0>>) EXCEPT !.faults = 1]

(* Nodes 1 and 2 mine in parallel; two faults.                             *)
Fork == [Network(<<1, 1, 0>>, <<1, 1, 0>>) EXCEPT !.running = {1, 2}, !.faults = 2]

(* A block travels over node 1.                                            *)
Relay == [Network(<<0, 0, 0>>, <<0, 1, 0>>) EXCEPT !.running = {1, 2, 3}]

(* A transaction is sent, gossiped and mined.                              *)
Pay == [Network(<<0, 0, 0>>, <<1, 1, 0>>) EXCEPT
            !.running = {1, 2}, !.txs = Tx, !.clients = {2}]

(* A new node joins one that has pruned.                                   *)
Join == [Network(<<3, 0, 0>>, <<0, 0, 0>>) EXCEPT !.pruned = {1}]

(* One that is no longer fresh, as if it had mined, comes back when node 1 *)
(* has pruned blocks that it lacks.                                        *)
Late == [Network(<<4, 1, 0>>, <<0, 0, 0>>) EXCEPT !.pruned = {1}]

(* Node 2, not connected at first, mines two blocks; node 1 may have       *)
(* pruned by then.                                                         *)
Lag == [Network(<<3, 3, 0>>, <<0, 2, 0>>) EXCEPT !.pruners = {1}]

(* Node 1 prunes while both mine.                                          *)
Cut == [Network(<<1, 1, 0>>, <<1, 2, 0>>) EXCEPT !.running = {1, 2}, !.pruners = {1}]

MCSetups == {Missed, Fork, Relay, Pay, Join, Late, Lag, Cut}

(* Node 1 mines a block that node 2 learns of.                             *)
MCOneBlock == {[Network(<<0, 0, 0>>, <<1, 0, 0>>) EXCEPT !.running = {1, 2}]}
=============================================================================
