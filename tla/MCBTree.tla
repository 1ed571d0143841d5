------------------------------- MODULE MCBTree -------------------------------
EXTENDS BTree, TLC

Symmetry == Permutations(Writers)

\* The keys indexed at the start, the rows left in pg_index, the keys to
\* insert, the bounds of scans, and the number of the other calls.
W(keys, rows, inserts, ranges, deletes, scans, sweeps, ddl) ==
  [keys |-> keys, rows |-> rows,
   todo |-> [inserts |-> inserts, ranges |-> ranges, deletes |-> deletes,
             scans |-> scans, sweeps |-> sweeps, ddl |-> ddl]]

MCWorkloads == {
  \* a root leaf splits under several inserters; then pg_index is full
  W(<<2, 4>>, 2, <<3, 6, 5, 1>>, {}, 0, 0, 0, 1),
  W(<<2, 4>>, 0, <<3, 6, 5>>, {}, 0, 0, 0, 1),
  \* equal keys
  W(<<4, 6>>, 2, <<4, 4>>, {4}, 0, 1, 0, 0),
  \* a full tree of two levels: a leaf split splits the root
  W(<<2, 4, 6, 8, 10, 12>>, 1, <<5, 7>>, {5, 9}, 0, 1, 0, 1),
  W(<<2, 4, 6, 8, 10, 12>>, 1, <<7, 9, 11>>, {}, 0, 0, 0, 0),
  \* three levels
  W(<<1, 2, 3, 4, 5, 6, 7, 8>>, 1, <<3, 9>>, {3, 8}, 0, 1, 0, 0),
  \* VACUUM deletes, re-aims and sweeps while others insert and scan
  W(<<2, 4, 6>>, 1, <<7>>, {2, 6}, 2, 1, 1, 0),
  W(<<2, 4, 6>>, 1, <<3>>, {2, 6}, 1, 1, 1, 0) }
==============================================================================
