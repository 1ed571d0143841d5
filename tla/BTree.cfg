CONSTANTS
  Writers = {a, b, c}
  Cap = 2
  Workloads <- MCWorkloads
CHECK_DEADLOCK FALSE
SYMMETRY Symmetry
SPECIFICATION Spec
INVARIANTS
  LookupFindsAll
  ScanMissesNothing
PROPERTY RefinesIndexSpec
