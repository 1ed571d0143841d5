\* Two threads and three pages in two frames: hits, misses, evictions of dirty and clean
\* pages, an exhausted pool, a recycled page, an I/O error and flush_all next to all of it.
CONSTANTS
    Threads = {t1, t2}
    Pages = {p1, p2, p3}
    NoPage = NoPage
    Capacity = 2
    PinModulus = 8
    MaxLsn = 2
    Limits <- MCLimits
SPECIFICATION Spec
SYMMETRY Symmetry
INVARIANTS
    ReadsLatest
    
    LogFirst
