\* Two connections, ids 1..5: one can connect, refresh and BEGIN while the
\* other connects, or each can run transactions against the other's snapshot.
CONSTANTS
    Conns = {c1, c2}
    MaxTxnId = 5
    CacheCap = 2
SPECIFICATION Spec
SYMMETRY ConnSymmetry
INVARIANTS
    RunningIsUndecided
    AttHasNoLeaks
    DecisionKept
    NoDirtyRead
    SnapshotExact
\* The ids are bounded: with all of them used every connection ends up idle.
CHECK_DEADLOCK FALSE
