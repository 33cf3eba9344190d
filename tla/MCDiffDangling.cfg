SPECIFICATION PageSpec
CONSTANTS
  Parts = 4
  NoRole = NoRole
  NoBox = "no box"
  NoBarrel = NoBarrel
  NoRule = NoRule
  NoSelection = NoSelection
  NoSearch = NoSearch
  Pages <- MCDiffPages
  Queries <- MCQueries
  Snapshots = {}
  Diffs = {}
INVARIANT EdgesHaveEnds
CHECK_DEADLOCK FALSE
