\* Two threads and the background writer, three LSNs, one crash: group commit,
\* appends racing fsyncs, a restart on a partly synced log.
CONSTANTS
    Threads = {t1, t2}
    Bg = bg
    Pages = {p1}
    NoPage = NoPage
    Nobody = Nobody
    MaxLsn = 3
    MaxCrashes = 1
SPECIFICATION Spec
SYMMETRY ThreadSymmetry
INVARIANTS
    PageRecordsOrdered
    DurableUnlessExposed
PROPERTY LogBeforePage
