---------------------------- MODULE MCTxnManager ----------------------------
(* Model-checking instance of TxnManager. *)
EXTENDS TxnManager, TLC

ConnSymmetry == Permutations(Conns)
=============================================================================
