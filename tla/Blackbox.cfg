\* Two records, the second across two pages; two clock readings, two process ids.
CONSTANTS
  kBufN = 2
  PageSize = 80
  Second = {1, 2}
  MaxFrames = 2
  MaxSessions = 2
SPECIFICATION Spec
INVARIANTS
  TypeOK
  SyncedSurvives
  KillLeavesPrefix
  ExitIsDurable
PROPERTIES
  LoggedBecomesDurable
  ImplementsLog
