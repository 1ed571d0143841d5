-------------------------------- MODULE MCWal --------------------------------
(* Model-checking instances of Wal. *)
EXTENDS Wal, TLC

ThreadSymmetry == Permutations(Threads)
=============================================================================
