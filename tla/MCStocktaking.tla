---------------------------- MODULE MCStocktaking ----------------------------
(* Instances of Stocktaking for TLC. *)
EXTENDS Stocktaking, TLC

CONSTANTS w1, w2, none, s1

MCWorkers == {w1, w2}
MCOneWorker == {w1}
MCOneSession == {s1}
MCMoves == {-1, 1}
MCTwoQuantities == {1, 2}

MCSymmetry == Permutations(MCWorkers)
=============================================================================
