CONSTANTS
  Retries = 2
  Workloads <- MCWorkloads
CHECK_DEADLOCK FALSE
SPECIFICATION FairSpec
INVARIANTS
  
  
  DeletedStays
PROPERTIES
  EverybodyEnds
