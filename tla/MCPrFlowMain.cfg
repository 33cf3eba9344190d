SPECIFICATION FlowSpec
CONSTANTS
  Checkpoints = 3
  MaxFaults = 1
INVARIANTS
  MainThroughPrevious
CHECK_DEADLOCK FALSE
