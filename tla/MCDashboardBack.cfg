SPECIFICATION PageSpec
CONSTANTS
  View = {"overview", "drift"}
  Node = {"", "a"}
  Query = {"", "x"}
  Window = {"", "30", "90"}
  Typed <- MCTyped
  Home = "overview"
  Blank = "blank"
  NoNode = ""
  NoQuery = ""
  Windows = {"30", "90"}
  DefaultWindow = "30"
  MaxInputs = 5
  Shells = {s1, s2}
  Repos = {r1, r2}
  Tokens = {t}
  Overrides = {o}
  SectionByCategory <- MCSections
  Analyzed <- MCAnalyzed
  Adjusted <- MCAdjusted
  NoProfile = NoProfile
  NoToken = NoToken
  Earlier <- MCEarlier
  MaxCommands = 2
  N = 3
  SAME_CAUSE_STOP = 2
  Causes = {"c1", "c2"}
  NoSnapshot = NoSnapshot
  NoLead = NoLead
  NotBefore = NotBefore
  NoMark = NoMark
  Rest = Rest
  ShownConsumers = 2
  LookRows = 2
  LabelMinSep = 3
  NoCoEdits = NoCoEdits
  NoOwner = NoOwner
  Unknown = Unknown
  Qualitative = {"q"}
  NoBase = NoBase
  FINDINGS_PER_ENTRY = 2
  Lifetime = 999
  DEFAULT_WINDOWS = {30, 90}
  NoDrift = NoDrift
  NoSeed = "no seed"
  Ambiguous = "ambiguous"
  ScaryScore = 3000
  Budget = 30
  MaxHot = 2
  MaxBlast = 2
  MAX_GROUPS = 1
  MAX_SYMBOLS_PER_GROUP = 1
  MIN_SHARED_CONSUMERS = 2
  NoRole = NoRole
  NoVia = NoVia
  NoAuthor = NoAuthor
  NoFile = NoFile
  CharsPerToken = 4
  RowChars = 12
  Oversample = 3
  NoSymbol = "no symbol"
  NoLines = NoLines
  NoRank = NoRank
  NoCaller = NoCaller
  NoVerdict = NoVerdict
  Context = 1
  SPEC_PATH = "<spec>"
  EXTENSIONS <- MCExtensions
  Unresolved = Unresolved
  NoPath = NoPath
  NoSymbolAt = "module"
  Packaged <- MCPackaged
  FrameChars = 8
  NoScore = NoScore
  NoDelta = NoDelta
PROPERTY BackWorks
CHECK_DEADLOCK FALSE
