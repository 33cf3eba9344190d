SPECIFICATION MCSpec
CONSTANTS
  NoRow = NoRow
  NoCommit = NoCommit
  Violations = {v1}
  AutoUpdate = TRUE
  Keep = 2
  KeepRefs = {"main"}
  Refs = {"wd"}
  MaxAside = 4
  MaxFiles = 3
  MaxRows = 3
  MaxEdits = 2
  MaxKills = 1
  Daemons = {d1, d2}
  Ports = {1, 2}
  Clients = {c1}
  Pins = {0}
  NoDaemon = NoDaemon
  Parts = 4
  NoRole = NoRole
  NoBox = "no box"
  NoBarrel = NoBarrel
  NoRule = NoRule
  NoSelection = NoSelection
  NoSearch = NoSearch
  Pages <- MCPages
  Queries <- MCQueries
  Snapshots <- MCSnapshots
  Diffs <- MCDiffs
INVARIANTS
  OldDatabasesKept
  TokenOpensListener
  PagesTellTheTruth
PROPERTIES
  NothingUnseenLands
  AnswersSurvivePrune
CHECK_DEADLOCK FALSE
