----------------------------- MODULE MCRowUpdate -----------------------------
(* Model-checking instances of RowUpdate. *)
EXTENDS RowUpdate, TLC

AllKinds == BOOLEAN \X {"update", "delete"}

Symmetry == Permutations(Txns) \cup Permutations(Rows)
=============================================================================
