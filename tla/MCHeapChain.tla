---------------------------- MODULE MCHeapChain ----------------------------
EXTENDS HeapChain, TLC

\* The table's pages, the rows of each INSERT, and the number of DELETEs,
\* VACUUMs, scans and pages taken by others.
W(pages, inserts, deletes, vacuums, scans, others) ==
  [pages |-> pages, todo |-> [inserts |-> inserts, deletes |-> deletes, vacuums |-> vacuums,
                              scans |-> scans, others |-> others]]

MCWorkloads == {
  \* two inserters extend the table
  W(<< <<"live">> >>, <<2, 2>>, 0, 0, 1, 0),
  \* VACUUM frees a page in the middle, and another table takes it
  W(<< <<"live">>, <<"dead", "dead">>, <<"live">> >>, <<1>>, 1, 1, 1, 1),
  \* two VACUUMs, and the page they free is reused
  W(<< <<"live">>, <<"dead">> >>, <<1>>, 0, 2, 1, 1),
  W(<< <<"live">>, <<"dead">>, <<"dead">> >>, <<2>>, 0, 2, 0, 0),
  W(<< <<"live", "live">>, <<"dead", "dead">> >>, <<1, 1>>, 0, 2, 0, 0),
  \* rows are deleted and pages marked all-visible under a scan
  W(<< <<"live">>, <<"live">> >>, <<2>>, 1, 1, 1, 0) }

Symmetry == Permutations(Sessions) \cup Permutations(Vacuums)
=============================================================================
