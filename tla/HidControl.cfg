\* Every leftover of an earlier run, any number of reports nobody asked for, three of
\* them unread at a time, four reads.
CONSTANTS
  Leftovers <- MCLeftovers
  kReads = 4
  kOsReads = 2
  MaxUnread = 3
SPECIFICATION Spec
INVARIANTS
  TypeOK
  ReadyMeansSetUp
PROPERTY
  SetupEnds
