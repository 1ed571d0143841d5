CONSTANTS
  Workloads <- MCWorkloads
CHECK_DEADLOCK FALSE
SPECIFICATION Spec
INVARIANTS
  RowsReachable
  IndexComplete
  ChecksOwn
