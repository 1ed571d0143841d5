CONSTANTS
    MaxWork = 3
    MaxSwallowed = 2
SPECIFICATION Spec
CHECK_DEADLOCK FALSE
INVARIANTS
    FailedLeavesNothing
    AnsweredUnlessSwallowed
    IdleIsClean
