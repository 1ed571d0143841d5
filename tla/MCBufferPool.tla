---------------------------- MODULE MCBufferPool ----------------------------
(* BufferPool for TLC. *)
EXTENDS BufferPool, TLC

Symmetry == Permutations(Threads) \cup Permutations(Pages)

\* One flush_all, or one recycled page, each next to an I/O error and a change;
\* both together without changes; and two changes on their own.
MCLimits ==
    {[changes |-> 1, recycled |-> 0, flushes |-> 1, errors |-> 1],
     [changes |-> 1, recycled |-> 1, flushes |-> 0, errors |-> 1],
     [changes |-> 0, recycled |-> 1, flushes |-> 1, errors |-> 0],
     [changes |-> 2, recycled |-> 0, flushes |-> 0, errors |-> 0]}
=============================================================================
