CONSTANTS
    MaxTxn = 3
    MaxLsn = 7
    MaxVal = 3
    MaxCrashes = 2
    MaxCkpts = 1
    PageCap = 1
    Batch = 1
    Workloads <- MCWorkloads
SPECIFICATION Spec
CHECK_DEADLOCK FALSE
INVARIANTS
    
    
    StartupFailsOnlyIf
    RepeatsOnlyIf
