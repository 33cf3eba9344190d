SPECIFICATION MCSpec
CONSTANTS
  Tasks = {1, 2, 3}
  Only = {1, 2, 3}
  Shared = {3}
  Splitters = {1, 2}
  Kinds = {"R1"}
  PlanWaves = {1, 2}
  LANES = 2
  MaxUsd = 4
  SessionUsd = 1
  SessionCosts = {1}
  DearestUsd = 1
  ReviewCosts = {0}
  PriorLedgers <- Prior
  MaxLanes = 5
  MaxBlame = 3
  Checkpoints = 2
  MaxFaults = 2
INVARIANTS
  LedgerIsTheTree
  KeptHelpersSurvive
  KeptTreePassed
  LittleIsReverted
  CommittedStays
  CheckpointsBuildOnLast
PROPERTIES
  SolveStays
CHECK_DEADLOCK FALSE
