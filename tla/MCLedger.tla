------------------------------ MODULE MCLedger ------------------------------
(* Three accounts, two of which are siblings in the tree.                  *)
EXTENDS Ledger, TLC

A == <<0, 0, 0>>
B == <<0, 0, 1>>
C == <<1, 0, 1>>

MCAccount == {A, B, C}

MCAllocation == A :> 3 @@ B :> 1

MCTx == {[from |-> A, to |-> B, amount |-> 2, signed |-> TRUE],
         [from |-> A, to |-> C, amount |-> 2, signed |-> FALSE],
         [from |-> B, to |-> C, amount |-> 1, signed |-> TRUE],
         [from |-> C, to |-> C, amount |-> 1, signed |-> TRUE]}
=============================================================================
