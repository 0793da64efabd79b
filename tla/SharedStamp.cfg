\* Six triggers, the first of an earlier day; the file may be replaced once.
CONSTANTS
  MaxTriggers = 6
  MaxFiles = 2
SPECIFICATION Spec
INVARIANTS
  TypeOK
  StampAtMostOneBehind
  SharedClockNeverBack
  SharedClockKept
