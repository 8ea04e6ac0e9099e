----------------------------- MODULE MCWarehouse -----------------------------
(* Instances of Warehouse for TLC: one product in two warehouses. *)
EXTENDS Warehouse, TLC

CONSTANTS w1, w2, none, p1, main, kitchen

MCWorkers == {w1, w2}
MCOneWorker == {w1}
MCProducts == {p1}
MCWarehouses == {main, kitchen}
MCOneAmount == {1}

\* The seed data gives min_quantity to the rows it inserts.
MCMinQuantity == [k \in MCProducts \X MCWarehouses |-> 1]

AllOperations == Operations

MCSymmetry == Permutations(MCWorkers)
=============================================================================
