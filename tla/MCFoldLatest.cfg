SPECIFICATION Spec
CONSTANTS
  Keys = {k1, k2}
  RunIds = {1, 2}
  NoRow = NoRow
  Texts = {1, 2}
  Gone = Gone
  Missing = Missing
  Unpinned = Unpinned
  MaxEdits = 1
  MaxSnaps = 2
  MaxAttempts = 2
  MaxFolds = 1
PROPERTY
  FoldKeepsLatest
CHECK_DEADLOCK FALSE
