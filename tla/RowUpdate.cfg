\* Two writers of two rows: restarts, giving up with 40001, lock waits and timeouts, rollbacks.
CONSTANTS
    Txns = {t1, t2}
    Rows = {r1, r2}
    Sys = Sys
    None = None
    Kinds <- AllKinds
    RetryLimits = {1, 2}
    MaxVersions = 8
SPECIFICATION Spec
SYMMETRY Symmetry
INVARIANTS
    LostOnlyByMisreading
    OneLiveVersion
    
