SPECIFICATION FairSpec
CONSTANTS
  Tasks = {1, 2, 3}
  Only = {1, 2, 3}
  Shared = {}
  Splitters = {}
  Kinds = {"R1"}
  PlanWaves = {1}
  LANES = 2
  MaxUsd = 3
  SessionUsd = 1
  SessionCosts = {1, 3}
  DearestUsd = 3
  ReviewCosts = {0, 1}
  PriorLedgers <- NewDirectory
INVARIANTS
  HeldIsInFlight
  OverrunBound
PROPERTY
  Terminates
CHECK_DEADLOCK FALSE
